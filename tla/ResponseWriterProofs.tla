------------------------ MODULE ResponseWriterProofs ------------------------
(***************************************************************************)
(* The response writer for any size of the buffer, any texts and any       *)
(* number of calls: the buffer is never overrun, the client can tell the   *)
(* frames apart, and no byte that a call has taken is lost or sent twice.  *)
(*                                                                         *)
(* What a sequence of frames has of data is a fold.  Its equation is       *)
(* proved from the least element of a set of naturals, NatMin.             *)
(***************************************************************************)
EXTENDS ResponseWriter, SequenceTheorems, WellFoundedInduction, TLAPS

(* A head fits the buffer with its NUL and has the headers that frame it. *)
HeadFits(head, says) == head.count \in Nat /\ head.count + 1 <= MAX /\ HeadFrame(head, says).what = "head"
HeadsFit ==
  \A more \in HandlerHeaders :
    /\ HeadFits(ChunkedHead(more), Chunks)
    /\ \A n \in Lengths : HeadFits(ContentHead(more), n)

(* What is in the buffer is a chunk's head and size bytes behind it, which *)
(* is more than nothing, and leaves room for the end of the chunk.  A      *)
(* response that was left unfinished may leave a size that is too large.   *)
BufferOK ==
  /\ size \in Nat /\ idx \in 0..MAX - 3 /\ top \in 0..MAX
  /\ idx > 0 => idx > ChunkHead
  /\ misread = 0 => idx = (IF size = 0 THEN 0 ELSE ChunkHead + size)

(* A loop has something to write. *)
LoopOK == left \in Nat /\ (at \in {"content", "append"} => left > 0)

(* A frame in its place, after m misread errors. *)
First == {"head", "cut"}
Later == {"content", "chunk", "last", "cut"}
Ending == {"last", "cut"}
FrameOK(f, k, m) ==
  /\ f \in Frames
  /\ f.what \in (IF k = 1 THEN First ELSE Later)
  /\ f.what = "chunk" => f.data > 0 /\ (m = 0 => f.says = f.data)

(* As long as a response is written and the client reads, what is on the   *)
(* wire has begun and has not ended.                                       *)
Open(frames) == frames # <<>> /\ \A k \in DOMAIN frames : frames[k].what \notin Ending
WireOK ==
  /\ wire \in Seq(Frames)
  /\ \A k \in 1..Len(wire) : FrameOK(wire[k], k, misread) /\ (wire[k].what \in Ending => k = Len(wire))
  /\ at = "handler" => wire = <<>> /\ ~gone
  /\ at \in {"content", "chunked", "append"} => wire # <<>> /\ (~gone => Open(wire))

Places == {"idle", "handler", "content", "chunked", "append", "answered"}
RestOK ==
  /\ at \in Places
  /\ gone \in BOOLEAN /\ taken \in Nat /\ calls \in 0..CallsMax /\ misread \in 0..MisreadsMax
  /\ result \in {"ok", "ERROR", "CONNECTION", "CONTENT"}

(* Text is in the buffer only between a head that was written and the end *)
(* of the response, or before a close, unless an error was misread.        *)
EmptyOK ==
  misread = 0 =>
    /\ at \in {"idle", "handler", "content"} => size = 0
    /\ at = "answered" /\ result = "ok" => size = 0

IInv == BufferOK /\ LoopOK /\ WireOK /\ EmptyOK /\ RestOK

-----------------------------------------------------------------------------
(* Frames go behind frames that have not ended; the last one may be an end. *)
Grows(old, new, piece) ==
  /\ new = old \o piece
  /\ old \in Seq(Frames) /\ piece \in Seq(Frames)
  /\ \A k \in 1..Len(old) : FrameOK(old[k], k, misread) /\ old[k].what \notin Ending
  /\ \A k \in 1..Len(piece) : FrameOK(piece[k], Len(old) + k, misread) /\ (piece[k].what \in Ending => k = Len(piece))

LEMMA GrowsOK ==
  ASSUME NEW old, NEW new, NEW piece, Grows(old, new, piece)
  PROVE  /\ new \in Seq(Frames) /\ Len(new) = Len(old) + Len(piece)
         /\ \A k \in 1..Len(new) : FrameOK(new[k], k, misread) /\ (new[k].what \in Ending => k = Len(new))
         /\ piece # <<>> => new # <<>>
         /\ (\A k \in 1..Len(piece) : piece[k].what \notin Ending) /\ new # <<>> => Open(new)
<1>1. new \in Seq(Frames) /\ Len(new) = Len(old) + Len(piece) /\ DOMAIN new = 1..Len(new)
  BY DEF Grows
<1>2. ASSUME NEW k \in 1..Len(new)
      PROVE  \/ k \in 1..Len(old) /\ new[k] = old[k]
             \/ k - Len(old) \in 1..Len(piece) /\ new[k] = piece[k - Len(old)]
  BY <1>1 DEF Grows
<1>3. ASSUME NEW k \in 1..Len(new)
      PROVE  FrameOK(new[k], k, misread) /\ (new[k].what \in Ending => k = Len(new))
  <2>1. CASE k \in 1..Len(old) /\ new[k] = old[k]
    BY <2>1 DEF Grows
  <2>2. CASE k - Len(old) \in 1..Len(piece) /\ new[k] = piece[k - Len(old)]
    <3> DEFINE j == k - Len(old)
    <3>1. j \in 1..Len(piece) /\ Len(old) \in Nat /\ Len(old) + j = k
      BY <2>2 DEF Grows
    <3>2. FrameOK(piece[j], Len(old) + j, misread) /\ (piece[j].what \in Ending => j = Len(piece))
      BY <3>1 DEF Grows
    <3> QED
      BY <1>1, <2>2, <3>1, <3>2
  <2> QED
    BY <1>2, <2>1, <2>2
<1>4. piece # <<>> => new # <<>>
  BY <1>1 DEF Grows
<1>5. ASSUME \A k \in 1..Len(piece) : piece[k].what \notin Ending, new # <<>>
      PROVE  Open(new)
  BY <1>1, <1>2, <1>5 DEF Grows, Open
<1> QED
  BY <1>1, <1>3, <1>4, <1>5


(* What a call writes behind the frames of its response. *)
Piece(frames) ==
  /\ frames \in Seq(Frames) /\ frames # <<>>
  /\ \A k \in 1..Len(frames) :
       FrameOK(frames[k], Len(wire) + k, misread) /\ (frames[k].what \in Ending => k = Len(frames))

Writing == {"handler", "content", "chunked", "append"}

LEMMA WriteOK ==
  ASSUME WireOK, at \in Writing, NEW frames, Piece(frames), Write(frames)
  PROVE  /\ wire' \in Seq(Frames) /\ wire' # <<>> /\ ~gone' /\ gone' = gone
         /\ \A k \in 1..Len(wire') : FrameOK(wire'[k], k, misread) /\ (wire'[k].what \in Ending => k = Len(wire'))
         /\ (\A k \in 1..Len(frames) : frames[k].what \notin Ending) => Open(wire')
<1>1. Grows(wire, wire', frames)
  <2>1. \A k \in 1..Len(wire) : FrameOK(wire[k], k, misread) /\ wire[k].what \notin Ending
    BY DEF WireOK, Write, Writing, Open
  <2> QED
    BY <2>1 DEF Grows, WireOK, Write, Piece
<1>2. frames # <<>> /\ ~gone' /\ gone' = gone
  BY DEF Piece, Write
<1> HIDE DEF Grows
<1> QED
  BY <1>1, <1>2, GrowsOK

LEMMA WriteFailsOK ==
  ASSUME WireOK, at \in Writing, NEW frames, Piece(frames), WriteFails(frames)
  PROVE  /\ wire' \in Seq(Frames) /\ wire' # <<>> /\ gone' = TRUE
         /\ \A k \in 1..Len(wire') : FrameOK(wire'[k], k, misread) /\ (wire'[k].what \in Ending => k = Len(wire'))
<1>1. CASE gone
  BY <1>1 DEF WireOK, WriteFails, Writing
<1>2. CASE ~gone
  <2>1. PICK n \in 0..Len(frames) - 1 : wire' = wire \o SubSeq(frames, 1, n) \o <<Cut>>
    BY <1>2 DEF WriteFails
  <2> DEFINE sub == SubSeq(frames, 1, n)
             piece == sub \o <<Cut>>
  <2>2. Cut \in Frames /\ \A k \in Nat : FrameOK(Cut, k, misread)
    BY DEF Cut, Frame, Frames, FrameOK, First, Later
  <2>3. sub \in Seq(Frames) /\ Len(sub) = n /\ n \in Nat /\ \A k \in 1..n : sub[k] = frames[k]
    BY DEF Piece
  <2>4. piece \in Seq(Frames) /\ Len(piece) = n + 1 /\ piece[n + 1] = Cut
        /\ \A k \in 1..n : piece[k] = frames[k]
    BY <2>2, <2>3
  <2>5. wire' = wire \o piece
    <3>1. wire \in Seq(Frames) /\ <<Cut>> \in Seq(Frames)
      BY <2>2 DEF WireOK
    <3>2. ASSUME NEW s \in Seq(Frames) PROVE (wire \o s) \o <<Cut>> = wire \o (s \o <<Cut>>)
      BY <3>1, ConcatAssociative
    <3> QED
      BY <2>1, <2>3, <3>2
  <2>6. \A k \in 1..Len(wire) : FrameOK(wire[k], k, misread) /\ wire[k].what \notin Ending
    BY <1>2 DEF WireOK, Writing, Open
  <2>7. ASSUME NEW k \in 1..Len(piece)
        PROVE  FrameOK(piece[k], Len(wire) + k, misread) /\ (piece[k].what \in Ending => k = Len(piece))
    <3>1. CASE k \in 1..n
      <4>1. k \in 1..Len(frames) /\ k # Len(frames)
        BY <3>1 DEF Piece
      <4> QED
        BY <3>1, <4>1, <2>4 DEF Piece
    <3>2. CASE k = n + 1
      <4>1. Len(wire) + k \in Nat
        BY <3>2, <2>3 DEF WireOK
      <4> QED
        BY <3>2, <2>4, <2>2, <4>1
    <3> QED
      BY <3>1, <3>2, <2>3, <2>4
  <2>8. Grows(wire, wire', piece)
    BY <2>4, <2>5, <2>6, <2>7 DEF Grows, WireOK
  <2>9. piece # <<>>
    BY <2>4, <2>3
  <2>10. gone' = TRUE
    BY DEF WriteFails
  <2> HIDE DEF piece
  <2> QED
    BY <2>8, <2>9, <2>10, GrowsOK
<1> QED
  BY <1>1, <1>2

(* The frames that calls write. *)
LEMMA ChunkOK ==
  ASSUME IInv, at \in {"chunked", "append"}, idx > 0
  PROVE  /\ Piece(<<Chunk>>) /\ Chunk.what = "chunk"
         /\ Piece(<<Chunk, LastChunk>>)
<1> DEFINE s == IF size <= SizeMax THEN size ELSE 0
           d == idx - ChunkHead
<1>1. s \in Nat /\ d \in Nat \ {0} /\ (misread = 0 => s = d)
  BY BufferAssumption DEF IInv, BufferOK, ChunkHead, Reserve, Spare
<1>2. Chunk = [what |-> "chunk", says |-> s, data |-> d]
  BY DEF Chunk, Frame
<1> HIDE DEF s, d
<1>3. Len(wire) \in Nat /\ Len(wire) > 0
  BY DEF IInv, WireOK
<1>4. Chunk \in Frames /\ LastChunk \in Frames
  BY <1>1, <1>2 DEF Frames, LastChunk, Frame, Chunks
<1>5. \A k \in Nat \ {0} : FrameOK(Chunk, Len(wire) + k, misread) /\ FrameOK(LastChunk, Len(wire) + k, misread)
  BY <1>1, <1>2, <1>3, <1>4 DEF FrameOK, LastChunk, Frame, Later
<1>6. Chunk.what \notin Ending
  BY <1>2 DEF Ending
<1>7. Piece(<<Chunk>>) /\ Piece(<<Chunk, LastChunk>>)
  BY <1>4, <1>5, <1>6 DEF Piece
<1> QED
  BY <1>2, <1>7


-----------------------------------------------------------------------------
(* The buffer. *)

LEMMA FillOK ==
  ASSUME NEW i \in Nat, NEW s \in Nat, i > 0 => i > ChunkHead,
         misread = 0 => i = (IF s = 0 THEN 0 ELSE ChunkHead + s), i < MAX - Spare, misread' = misread,
         NEW n \in Nat \ {0}, NEW high \in 0..MAX, taken \in Nat, Fill(i, s, n, high)
  PROVE  BufferOK' /\ taken' \in Nat /\ taken' - taken \in 1..n
BY BufferAssumption DEF Fill, BufferOK, ChunkHead, Spare, Reserve, Lesser, Higher

LEMMA FlushOK ==
  ASSUME BufferOK, Flush, misread' = misread
  PROVE  BufferOK'
BY BufferAssumption DEF Flush, BufferOK, ChunkHead, Spare, Reserve, Higher

(* A buffer that is not full has room for more, a full one has text. *)
LEMMA FullOK ==
  ASSUME BufferOK
  PROVE  /\ idx \in Nat /\ size \in Nat /\ top \in 0..MAX
         /\ Full => idx > 0
         /\ ~Full => idx < MAX - Spare
         /\ Higher(top, idx + 2) \in 0..MAX
BY BufferAssumption DEF BufferOK, Full, ChunkHead, Spare, Reserve, Higher

LEMMA Append1OK ==
  ASSUME IInv, at \in {"chunked", "append"}, NEW n \in Nat \ {0}, NEW flush \in BOOLEAN,
         flush => idx > 0, ~flush => idx < MAX - Spare, Append1(n, flush), misread' = misread
  PROVE  /\ BufferOK' /\ taken' \in Nat /\ taken' - taken \in 1..n
         /\ wire' \in Seq(Frames) /\ wire' # <<>> /\ gone' = gone
         /\ \A k \in 1..Len(wire') : FrameOK(wire'[k], k, misread) /\ (wire'[k].what \in Ending => k = Len(wire'))
         /\ ~gone' => Open(wire')
<1>1. BufferOK /\ WireOK /\ taken \in Nat
  BY DEF IInv, RestOK
<1>2. idx \in Nat /\ size \in Nat /\ top \in 0..MAX /\ Higher(top, idx + 2) \in 0..MAX
  BY <1>1, FullOK
<1>3. CASE ~flush
  <2>1. Fill(idx, size, n, top) /\ UNCHANGED outVars
    BY <1>3 DEF Append1
  <2>2. /\ misread = 0 => idx = (IF size = 0 THEN 0 ELSE ChunkHead + size)
        /\ (idx > 0 => idx > ChunkHead) /\ idx < MAX - Spare
    BY <1>1, <1>3 DEF BufferOK
  <2>3. BufferOK' /\ taken' \in Nat /\ taken' - taken \in 1..n
    BY <1>1, <1>2, <2>1, <2>2, FillOK
  <2> QED
    BY <1>1, <2>1, <2>3 DEF outVars, WireOK
<1>4. CASE flush
  <2>1. Write(<<Chunk>>) /\ Fill(0, 0, n, Higher(top, idx + 2))
    BY <1>4 DEF Append1
  <2>2. 0 < MAX - Spare
    BY BufferAssumption DEF Spare, Reserve
  <2>3. BufferOK' /\ taken' \in Nat /\ taken' - taken \in 1..n
    BY <1>1, <1>2, <2>1, <2>2, FillOK
  <2>4. Piece(<<Chunk>>) /\ Chunk.what = "chunk"
    BY <1>4, ChunkOK
  <2>5. \A k \in 1..Len(<<Chunk>>) : (<<Chunk>>)[k].what \notin Ending
    BY <2>4 DEF Ending
  <2>6. at \in Writing
    BY DEF Writing
  <2> QED
    BY <1>1, <2>1, <2>3, <2>4, <2>5, <2>6, WriteOK
<1> QED
  BY <1>3, <1>4

LEMMA AppendFailsOK ==
  ASSUME IInv, at \in {"chunked", "append"}, idx > 0, AppendFails, misread' = misread
  PROVE  /\ BufferOK' /\ result' = "CONNECTION"
         /\ wire' \in Seq(Frames) /\ wire' # <<>> /\ gone' = TRUE
         /\ \A k \in 1..Len(wire') : FrameOK(wire'[k], k, misread) /\ (wire'[k].what \in Ending => k = Len(wire'))
<1>1. WriteFails(<<Chunk>>) /\ Flush /\ result' = "CONNECTION"
  BY DEF AppendFails
<1>2. BufferOK'
  BY <1>1, FlushOK DEF IInv
<1>3. Piece(<<Chunk>>) /\ WireOK /\ at \in Writing
  BY ChunkOK DEF IInv, Writing
<1> QED
  BY <1>1, <1>2, <1>3, WriteFailsOK


-----------------------------------------------------------------------------
(* The steps.                                                              *)

LEMMA InitOK == Init => IInv
<1> SUFFICES ASSUME Init PROVE IInv
  OBVIOUS
<1>1. BufferOK /\ LoopOK /\ EmptyOK
  BY BufferAssumption DEF Init, BufferOK, LoopOK, EmptyOK, Reserve, Spare
<1>2. WireOK
  BY DEF Init, WireOK
<1>3. gone \in BOOLEAN
  BY DEF Init
<1>4. calls \in 0..CallsMax /\ misread \in 0..MisreadsMax
  BY TextAssumption DEF Init
<1>5. RestOK
  BY <1>3, <1>4 DEF Init, RestOK, Places
<1> QED
  BY <1>1, <1>2, <1>5 DEF IInv

(* Steps that write nothing and fill nothing. *)
LEMMA QuietOK ==
  ASSUME IInv, Request \/ Kept \/ Close \/ HandlerFails \/ ErrorMisread \/ AppendFmtNothing
  PROVE  IInv'
<1> USE DEF IInv, BufferOK, LoopOK, WireOK, EmptyOK, RestOK, Places
<1>1. CASE Request
  BY <1>1, BufferAssumption, TextAssumption DEF Request
<1>2. CASE Kept
  BY <1>2 DEF Kept, outVars, bufVars
<1>3. CASE Close
  <2>1. BufferOK' /\ LoopOK' /\ EmptyOK'
    BY <1>3, BufferAssumption DEF Close, Reserve, Spare
  <2>2. WireOK'
    BY <1>3 DEF Close
  <2>3. gone' \in BOOLEAN
    BY <1>3 DEF Close
  <2>4. calls' \in 0..CallsMax /\ misread' \in 0..MisreadsMax
    BY <1>3, TextAssumption DEF Close
  <2>5. RestOK'
    BY <1>3, <2>3, <2>4 DEF Close
  <2> QED
    BY <2>1, <2>2, <2>5
<1>4. CASE HandlerFails
  BY <1>4 DEF HandlerFails, outVars, bufVars
<1>5. CASE ErrorMisread
  BY <1>5, TextAssumption DEF ErrorMisread, outVars, bufVars, FrameOK
<1>6. CASE AppendFmtNothing
  BY <1>6, TextAssumption DEF AppendFmtNothing, outVars, bufVars, Open
<1> QED
  BY <1>1, <1>2, <1>3, <1>4, <1>5, <1>6

(* A head is the first frame. *)
LEMMA HeadOK ==
  ASSUME IInv, at = "handler", NEW head, NEW says \in Nat \cup {Chunks}, HeadFits(head, says)
  PROVE  Piece(<<HeadFrame(head, says)>>) /\ HeadFrame(head, says).what = "head"
<1>1. HeadFrame(head, says) = [what |-> "head", says |-> says, data |-> 0]
  BY DEF HeadFits, HeadFrame, Frame
<1>2. wire = <<>>
  BY DEF IInv, WireOK
<1> QED
  BY <1>1, <1>2 DEF Piece, FrameOK, Frames, First, Ending

LEMMA WriteResponseOK ==
  ASSUME HeadsFit, IInv, NEW n \in Lengths, NEW more \in HandlerHeaders, WriteResponse(n, more)
  PROVE  IInv'
<1> DEFINE head == ContentHead(more)
           frame == HeadFrame(head, n)
<1>1. n \in Nat /\ HeadFits(head, n) /\ misread' = misread /\ at = "handler" /\ WireOK /\ at \in Writing
  BY TextAssumption DEF HeadsFit, WriteResponse, IInv, Writing
<1>2. Piece(<<frame>>) /\ frame.what = "head"
  BY <1>1, HeadOK
<1>3. BufferOK'
  BY <1>1, BufferAssumption DEF WriteResponse, IInv, BufferOK, Higher, HeadFits
<1> HIDE DEF frame
<1>4. CASE Write(<<frame>>) /\ at' = (IF n = 0 THEN "answered" ELSE "content") /\ left' = n /\ taken' = n /\ UNCHANGED result
  <2>1. \A k \in 1..Len(<<frame>>) : (<<frame>>)[k].what \notin Ending
    BY <1>2 DEF Ending
  <2>2. /\ wire' \in Seq(Frames) /\ wire' # <<>> /\ gone' = gone
        /\ \A k \in 1..Len(wire') : FrameOK(wire'[k], k, misread) /\ (wire'[k].what \in Ending => k = Len(wire'))
        /\ Open(wire')
    BY <1>1, <1>2, <1>4, <2>1, WriteOK
  <2>3. WireOK'
    BY <1>1, <1>4, <2>2 DEF WireOK
  <2>4. LoopOK' /\ EmptyOK' /\ RestOK'
    BY <1>1, <1>4, <2>2 DEF WriteResponse, IInv, LoopOK, EmptyOK, RestOK, Places
  <2> QED
    BY <1>3, <2>3, <2>4 DEF IInv
<1>5. CASE WriteFails(<<frame>>) /\ at' = "answered" /\ result' = "CONNECTION" /\ UNCHANGED <<left, taken>>
  <2>1. /\ wire' \in Seq(Frames) /\ wire' # <<>> /\ gone' = TRUE
        /\ \A k \in 1..Len(wire') : FrameOK(wire'[k], k, misread) /\ (wire'[k].what \in Ending => k = Len(wire'))
    BY <1>1, <1>2, <1>5, WriteFailsOK
  <2>2. WireOK' /\ LoopOK' /\ EmptyOK' /\ RestOK'
    BY <1>5, <2>1 DEF WireOK, WriteResponse, IInv, LoopOK, EmptyOK, RestOK, Places
  <2> QED
    BY <1>3, <2>2 DEF IInv
<1> QED
  BY <1>4, <1>5 DEF WriteResponse, frame

LEMMA ChunkedResponseOK ==
  ASSUME HeadsFit, IInv, NEW more \in HandlerHeaders, ChunkedResponse(more)
  PROVE  IInv'
<1> DEFINE head == ChunkedHead(more)
           frame == HeadFrame(head, Chunks)
<1>1. HeadFits(head, Chunks) /\ misread' = misread /\ at = "handler" /\ WireOK /\ at \in Writing
  BY DEF HeadsFit, ChunkedResponse, IInv, Writing
<1>2. Piece(<<frame>>) /\ frame.what = "head"
  BY <1>1, HeadOK
<1>3. BufferOK'
  BY <1>1, BufferAssumption DEF ChunkedResponse, IInv, BufferOK, EmptyOK, Higher, HeadFits, Reserve, Spare
<1>4. LoopOK' /\ at' = "chunked"
  BY DEF ChunkedResponse, IInv, LoopOK
<1> HIDE DEF frame
<1>5. CASE Write(<<frame>>) /\ UNCHANGED result
  <2>1. \A k \in 1..Len(<<frame>>) : (<<frame>>)[k].what \notin Ending
    BY <1>2 DEF Ending
  <2>2. /\ wire' \in Seq(Frames) /\ wire' # <<>> /\ gone' = gone
        /\ \A k \in 1..Len(wire') : FrameOK(wire'[k], k, misread) /\ (wire'[k].what \in Ending => k = Len(wire'))
        /\ Open(wire')
    BY <1>1, <1>2, <1>5, <2>1, WriteOK
  <2>3. WireOK' /\ EmptyOK' /\ RestOK'
    BY <1>4, <1>5, <2>2 DEF WireOK, ChunkedResponse, IInv, EmptyOK, RestOK, Places
  <2> QED
    BY <1>3, <1>4, <2>3 DEF IInv
<1>6. CASE WriteFails(<<frame>>) /\ result' = "ERROR"
  <2>1. /\ wire' \in Seq(Frames) /\ wire' # <<>> /\ gone' = TRUE
        /\ \A k \in 1..Len(wire') : FrameOK(wire'[k], k, misread) /\ (wire'[k].what \in Ending => k = Len(wire'))
    BY <1>1, <1>2, <1>6, WriteFailsOK
  <2>2. WireOK' /\ EmptyOK' /\ RestOK'
    BY <1>4, <1>6, <2>1 DEF WireOK, ChunkedResponse, IInv, EmptyOK, RestOK, Places
  <2> QED
    BY <1>3, <1>4, <2>2 DEF IInv
<1> QED
  BY <1>5, <1>6 DEF ChunkedResponse, frame


LEMMA WriteContentOK ==
  ASSUME IInv, WriteContent
  PROVE  IInv'
<1> DEFINE n == Lesser(left, MAX)
<1>1. n \in Nat /\ left - n \in Nat /\ left \in Nat
  BY BufferAssumption DEF Lesser, IInv, LoopOK
<1>2. at = "content" /\ at \in Writing /\ WireOK /\ BufferOK /\ misread' = misread
  BY DEF WriteContent, Writing, IInv
<1>3. Piece(<<Content(n)>>) /\ Content(n).what = "content"
  <2>1. Content(n) = [what |-> "content", says |-> n, data |-> n]
    BY DEF Content, Frame
  <2>2. Len(wire) \in Nat \ {0}
    BY <1>2 DEF WireOK
  <2> HIDE DEF n
  <2> QED
    BY <1>1, <2>1, <2>2 DEF Piece, FrameOK, Frames, Later, Ending
<1>4. BufferOK' /\ UNCHANGED <<size, taken, calls>>
  BY <1>2 DEF WriteContent, BufferOK, bufVars
<1>5. CASE /\ Write(<<Content(n)>>) /\ left' = left - n
           /\ at' = (IF left = n THEN "answered" ELSE "content") /\ UNCHANGED result
  <2>1. \A k \in 1..Len(<<Content(n)>>) : (<<Content(n)>>)[k].what \notin Ending
    BY <1>3 DEF Ending
  <2>2. /\ wire' \in Seq(Frames) /\ wire' # <<>> /\ gone' = gone
        /\ \A k \in 1..Len(wire') : FrameOK(wire'[k], k, misread) /\ (wire'[k].what \in Ending => k = Len(wire'))
        /\ Open(wire')
    BY <1>2, <1>3, <1>5, <2>1, WriteOK
  <2>3. WireOK'
    BY <1>2, <1>5, <2>2 DEF WireOK
  <2> HIDE DEF n
  <2>4. LoopOK' /\ EmptyOK' /\ RestOK'
    BY <1>1, <1>2, <1>4, <1>5, <2>2 DEF IInv, LoopOK, EmptyOK, RestOK, Places
  <2> QED
    BY <1>4, <2>3, <2>4 DEF IInv
<1>6. CASE WriteFails(<<Content(n)>>) /\ at' = "answered" /\ result' = "CONNECTION" /\ UNCHANGED left
  <2>1. /\ wire' \in Seq(Frames) /\ wire' # <<>> /\ gone' = TRUE
        /\ \A k \in 1..Len(wire') : FrameOK(wire'[k], k, misread) /\ (wire'[k].what \in Ending => k = Len(wire'))
    BY <1>2, <1>3, <1>6, WriteFailsOK
  <2>2. WireOK' /\ LoopOK' /\ EmptyOK' /\ RestOK'
    BY <1>1, <1>2, <1>4, <1>6, <2>1 DEF WireOK, IInv, LoopOK, EmptyOK, RestOK, Places
  <2> QED
    BY <1>4, <2>2 DEF IInv
<1> QED
  BY <1>5, <1>6 DEF WriteContent

LEMMA AppendFmtOK ==
  ASSUME IInv, NEW n \in Lengths, AppendFmt(n)
  PROVE  IInv'
<1> DEFINE flush == (idx # 0 /\ idx + n > MAX - Spare) \/ Full
<1>1. n \in Nat \ {0} /\ at = "chunked" /\ at' = "chunked" /\ left' = left /\ calls' \in 0..CallsMax /\ misread' = misread
  BY TextAssumption DEF AppendFmt, IInv, RestOK
<1>2. flush \in BOOLEAN /\ (flush => idx > 0) /\ (~flush => idx < MAX - Spare)
  BY FullOK DEF IInv
<1>3. \/ Append1(n, flush) /\ result' = "ok"
      \/ flush /\ AppendFails /\ UNCHANGED taken
  BY DEF AppendFmt
<1> HIDE DEF flush
<1>4. CASE Append1(n, flush) /\ result' = "ok"
  <2>1. /\ BufferOK' /\ taken' \in Nat
        /\ wire' \in Seq(Frames) /\ wire' # <<>> /\ gone' = gone
        /\ \A k \in 1..Len(wire') : FrameOK(wire'[k], k, misread) /\ (wire'[k].what \in Ending => k = Len(wire'))
        /\ ~gone' => Open(wire')
    BY <1>1, <1>2, <1>4, Append1OK
  <2>2. WireOK' /\ LoopOK' /\ EmptyOK' /\ RestOK'
    BY <1>1, <1>4, <2>1 DEF WireOK, IInv, LoopOK, EmptyOK, RestOK, Places
  <2> QED
    BY <2>1, <2>2 DEF IInv
<1>5. CASE flush /\ AppendFails /\ UNCHANGED taken
  <2>1. /\ BufferOK' /\ result' = "CONNECTION"
        /\ wire' \in Seq(Frames) /\ wire' # <<>> /\ gone' = TRUE
        /\ \A k \in 1..Len(wire') : FrameOK(wire'[k], k, misread) /\ (wire'[k].what \in Ending => k = Len(wire'))
    BY <1>1, <1>2, <1>5, AppendFailsOK
  <2>2. WireOK' /\ LoopOK' /\ EmptyOK' /\ RestOK'
    BY <1>1, <1>5, <2>1 DEF WireOK, IInv, LoopOK, EmptyOK, RestOK, Places
  <2> QED
    BY <2>1, <2>2 DEF IInv
<1> QED
  BY <1>3, <1>4, <1>5

LEMMA AppendStrOK ==
  ASSUME IInv, NEW n \in Lengths, AppendStr(n)
  PROVE  IInv'
<1>1. n \in Nat \ {0} /\ at = "chunked" /\ at' = "append" /\ left' = n /\ calls' \in 0..CallsMax /\ misread' = misread
  BY TextAssumption DEF AppendStr, IInv, RestOK
<1>2. UNCHANGED <<wire, gone, idx, size, top, taken, result>>
  BY DEF AppendStr, outVars, bufVars
<1>3. BufferOK' /\ LoopOK' /\ EmptyOK' /\ RestOK'
  BY <1>1, <1>2 DEF IInv, BufferOK, LoopOK, EmptyOK, RestOK, Places
<1>4. WireOK'
  BY <1>1, <1>2 DEF IInv, WireOK, Open
<1> QED
  BY <1>3, <1>4 DEF IInv

LEMMA AppendPieceOK ==
  ASSUME IInv, AppendPiece
  PROVE  IInv'
<1>1. at = "append" /\ left \in Nat \ {0} /\ taken \in Nat /\ calls' = calls /\ misread' = misread
  BY DEF AppendPiece, IInv, LoopOK, RestOK
<1>2. Full \in BOOLEAN /\ (Full => idx > 0) /\ (~Full => idx < MAX - Spare)
  BY FullOK DEF IInv, Full
<1>3. CASE /\ Append1(left, Full)
           /\ left' = left - (taken' - taken)
           /\ at' = (IF left' = 0 THEN "chunked" ELSE "append")
           /\ result' = "ok"
  <2>1. /\ BufferOK' /\ taken' \in Nat /\ taken' - taken \in 1..left
        /\ wire' \in Seq(Frames) /\ wire' # <<>> /\ gone' = gone
        /\ \A k \in 1..Len(wire') : FrameOK(wire'[k], k, misread) /\ (wire'[k].what \in Ending => k = Len(wire'))
        /\ ~gone' => Open(wire')
    BY <1>1, <1>2, <1>3, Append1OK
  <2>2. left' \in Nat /\ at' \in {"chunked", "append"} /\ (at' = "append" => left' > 0)
    <3>1. left' = left - (taken' - taken) /\ at' = (IF left' = 0 THEN "chunked" ELSE "append")
      BY <1>3
    <3>2. taken' \in Nat /\ taken' - taken \in 1..left
      BY <2>1
    <3>3. PICK d \in 1..left : taken' - taken = d
      BY <3>2
    <3>4. left' = left - d
      BY <3>1, <3>3
    <3>5. left \in Nat /\ d \in Int /\ d <= left
      BY <1>1
    <3>6. left' \in Nat
      BY <3>4, <3>5
    <3> QED
      BY <3>1, <3>6
  <2>3. WireOK' /\ LoopOK' /\ EmptyOK' /\ RestOK'
    BY <1>1, <1>3, <2>1, <2>2 DEF WireOK, IInv, LoopOK, EmptyOK, RestOK, Places
  <2> QED
    BY <2>1, <2>3 DEF IInv
<1>4. CASE Full /\ AppendFails /\ at' = "chunked" /\ left' = 0 /\ UNCHANGED taken
  <2>1. /\ BufferOK' /\ result' = "CONNECTION"
        /\ wire' \in Seq(Frames) /\ wire' # <<>> /\ gone' = TRUE
        /\ \A k \in 1..Len(wire') : FrameOK(wire'[k], k, misread) /\ (wire'[k].what \in Ending => k = Len(wire'))
    BY <1>1, <1>2, <1>4, AppendFailsOK
  <2>2. WireOK' /\ LoopOK' /\ EmptyOK' /\ RestOK'
    BY <1>1, <1>4, <2>1 DEF WireOK, IInv, LoopOK, EmptyOK, RestOK, Places
  <2> QED
    BY <2>1, <2>2 DEF IInv
<1> QED
  BY <1>3, <1>4 DEF AppendPiece


LEMMA ChunkedFlushOK ==
  ASSUME IInv, ChunkedFlush
  PROVE  IInv'
<1>1. at = "chunked" /\ at' = at /\ left' = left /\ taken' = taken /\ calls' \in 0..CallsMax /\ misread' = misread
  BY TextAssumption DEF ChunkedFlush, IInv, RestOK
<1>2. CASE idx = 0 /\ UNCHANGED <<outVars, bufVars>> /\ result' = "ok"
  <2>1. BufferOK' /\ LoopOK' /\ EmptyOK' /\ RestOK'
    BY <1>1, <1>2 DEF IInv, BufferOK, LoopOK, EmptyOK, RestOK, Places, outVars, bufVars
  <2>2. WireOK'
    BY <1>1, <1>2 DEF IInv, WireOK, Open, outVars
  <2> QED
    BY <2>1, <2>2 DEF IInv
<1>3. CASE idx > 0 /\ Write(<<Chunk>>) /\ Flush /\ result' = "ok"
  <2>1. BufferOK'
    BY <1>1, <1>3, FlushOK DEF IInv
  <2>2. Piece(<<Chunk>>) /\ Chunk.what = "chunk"
    BY <1>1, <1>3, ChunkOK
  <2>3. \A k \in 1..Len(<<Chunk>>) : (<<Chunk>>)[k].what \notin Ending
    BY <2>2 DEF Ending
  <2>4. WireOK /\ at \in Writing
    BY <1>1 DEF IInv, Writing
  <2>5. /\ wire' \in Seq(Frames) /\ wire' # <<>> /\ gone' = gone
        /\ \A k \in 1..Len(wire') : FrameOK(wire'[k], k, misread) /\ (wire'[k].what \in Ending => k = Len(wire'))
        /\ Open(wire')
    BY <1>3, <2>2, <2>3, <2>4, WriteOK
  <2>6. WireOK' /\ LoopOK' /\ EmptyOK' /\ RestOK'
    BY <1>1, <1>3, <2>5 DEF WireOK, IInv, LoopOK, EmptyOK, RestOK, Places
  <2> QED
    BY <2>1, <2>6 DEF IInv
<1>4. CASE idx > 0 /\ AppendFails
  <2>1. /\ BufferOK' /\ result' = "CONNECTION"
        /\ wire' \in Seq(Frames) /\ wire' # <<>> /\ gone' = TRUE
        /\ \A k \in 1..Len(wire') : FrameOK(wire'[k], k, misread) /\ (wire'[k].what \in Ending => k = Len(wire'))
    BY <1>1, <1>4, AppendFailsOK
  <2>2. WireOK' /\ LoopOK' /\ EmptyOK' /\ RestOK'
    BY <1>1, <2>1 DEF WireOK, IInv, LoopOK, EmptyOK, RestOK, Places
  <2> QED
    BY <2>1, <2>2 DEF IInv
<1> QED
  BY <1>2, <1>3, <1>4 DEF ChunkedFlush

LEMMA ChunkedCompleteOK ==
  ASSUME IInv, ChunkedComplete
  PROVE  IInv'
<1>1. at = "chunked" /\ at' = "answered" /\ UNCHANGED <<left, taken, calls, misread>> /\ WireOK /\ BufferOK
  BY DEF ChunkedComplete, IInv
<1>2. BufferOK' /\ size' = 0
  BY <1>1, BufferAssumption DEF ChunkedComplete, BufferOK, Higher, ChunkHead, Reserve, Spare
<1>3. Piece(Pending)
  <2>1. CASE idx > 0
    BY <1>1, <2>1, ChunkOK DEF Pending
  <2>2. CASE ~(idx > 0)
    <3>1. Pending = <<LastChunk>>
      BY <2>2 DEF Pending
    <3>2. Len(wire) \in Nat \ {0}
      BY <1>1 DEF WireOK
    <3>3. LastChunk \in Frames /\ FrameOK(LastChunk, Len(wire) + 1, misread)
      BY <3>2 DEF LastChunk, Frame, FrameOK, Frames, Later
    <3> QED
      BY <3>1, <3>3 DEF Piece
  <2> QED
    BY <2>1, <2>2
<1>4. at \in Writing
  BY <1>1 DEF Writing
<1>5. CASE Write(Pending) /\ result' = "ok"
  <2>1. /\ wire' \in Seq(Frames) /\ wire' # <<>> /\ gone' = gone
        /\ \A k \in 1..Len(wire') : FrameOK(wire'[k], k, misread) /\ (wire'[k].what \in Ending => k = Len(wire'))
    BY <1>1, <1>3, <1>4, <1>5, WriteOK
  <2>2. WireOK' /\ LoopOK' /\ EmptyOK' /\ RestOK'
    BY <1>1, <1>2, <1>5, <2>1 DEF WireOK, IInv, LoopOK, EmptyOK, RestOK, Places
  <2> QED
    BY <1>2, <2>2 DEF IInv
<1>6. CASE WriteFails(Pending) /\ result' = "CONNECTION"
  <2>1. /\ wire' \in Seq(Frames) /\ wire' # <<>> /\ gone' = TRUE
        /\ \A k \in 1..Len(wire') : FrameOK(wire'[k], k, misread) /\ (wire'[k].what \in Ending => k = Len(wire'))
    BY <1>1, <1>3, <1>4, <1>6, WriteFailsOK
  <2>2. WireOK' /\ LoopOK' /\ EmptyOK' /\ RestOK'
    BY <1>1, <1>2, <1>6, <2>1 DEF WireOK, IInv, LoopOK, EmptyOK, RestOK, Places
  <2> QED
    BY <1>2, <2>2 DEF IInv
<1> QED
  BY <1>5, <1>6 DEF ChunkedComplete

-----------------------------------------------------------------------------
(* Every step keeps the invariant. *)
LEMMA StepOK ==
  ASSUME HeadsFit, IInv, [Next]_vars
  PROVE  IInv'
<1>1. CASE Request \/ Kept \/ Close \/ HandlerFails \/ ErrorMisread \/ AppendFmtNothing
  BY <1>1, QuietOK
<1>2. CASE \E more \in HandlerHeaders : ChunkedResponse(more) \/ \E n \in Lengths : WriteResponse(n, more)
  BY <1>2, ChunkedResponseOK, WriteResponseOK
<1>3. CASE \E n \in Lengths : AppendFmt(n) \/ AppendStr(n)
  BY <1>3, AppendFmtOK, AppendStrOK
<1>4. CASE ChunkedFlush \/ ChunkedComplete
  BY <1>4, ChunkedFlushOK, ChunkedCompleteOK
<1>5. CASE Loop
  BY <1>5, WriteContentOK, AppendPieceOK DEF Loop
<1>6. CASE UNCHANGED vars
  BY <1>6 DEF vars, outVars, bufVars, IInv, BufferOK, LoopOK, WireOK, EmptyOK, RestOK, Open
<1> QED
  BY <1>1, <1>2, <1>3, <1>4, <1>5, <1>6 DEF Next

(* As long as its heads fit the buffer, the writer keeps its invariant. *)
THEOREM Invariance ==
  ASSUME HeadsFit
  PROVE  Spec => []IInv
BY InitOK, StepOK, PTL DEF Spec

(* TypeOK, for any size of the buffer and of the texts: no call writes      *)
(* behind the end of rw_buffer, and a flush finds room for the chunk's end. *)
THEOREM TypeCorrect ==
  ASSUME HeadsFit
  PROVE  Spec => []TypeOK
<1>1. IInv => TypeOK
  BY DEF IInv, BufferOK, LoopOK, WireOK, RestOK, Places, TypeOK, ChunkHead
<1> QED
  BY <1>1, Invariance, PTL

(* FramesAgree: however a handler appends, flushes and ignores what failed, *)
(* each chunk has the bytes that it says, and nothing follows the end.      *)
THEOREM FramesCorrect ==
  ASSUME HeadsFit
  PROVE  Spec => []FramesAgree
<1>1. IInv => FramesAgree
  BY DEF IInv, WireOK, FrameOK, First, Later, Ending, FramesAgree
<1> QED
  BY <1>1, Invariance, PTL

-----------------------------------------------------------------------------
(* Induction, from the well-founded order of the naturals.                 *)

LEMMA NatMin ==
  ASSUME NEW T \in SUBSET Nat, T # {}
  PROVE  \E x \in T : \A y \in T : x <= y
<1> DEFINE R == OpToRel(<, Nat)
<1>1. IsWellFoundedOn(R, Nat)
  BY NatLessThanWellFounded
<1>2. \A x, y \in Nat : x < y => <<x, y>> \in R
  BY DEF OpToRel
<1> HIDE DEF R
<1>3. PICK x \in T : \A y \in T : ~ (<<y, x>> \in R)
  BY <1>1, WFMin
<1>4. ASSUME NEW y \in T PROVE x <= y
  <2>1. x \in Nat /\ y \in Nat /\ ~(y < x)
    BY <1>2, <1>3
  <2> QED
    BY <2>1
<1> QED
  BY <1>4

LEMMA NatInd ==
  ASSUME NEW T, 0 \in T, \A n \in Nat : n \in T => n + 1 \in T
  PROVE  Nat \subseteq T
<1> SUFFICES ASSUME Nat \ T # {} PROVE FALSE
  OBVIOUS
<1>1. PICK x \in Nat \ T : \A y \in Nat \ T : x <= y
  BY NatMin
<1>2. x # 0 /\ x - 1 \in Nat
  BY <1>1
<1>3. x - 1 \in T
  BY <1>1, <1>2
<1> QED BY <1>1, <1>2, <1>3

LEMMA MaxOf ==
  ASSUME NEW k \in Nat \ {0}, NEW s \in SUBSET (1..k), k \in s
  PROVE  Max(s) = k
<1>1. \A y \in s : y <= k /\ y \in Nat
  OBVIOUS
<1>2. \A x \in s : (\A y \in s : x >= y) => x = k
  BY <1>1
<1> QED
  BY <1>1, <1>2 DEF Max

(* DataOf adds up the frames one after the other. *)
Adds(v, s) == v[0] = 0 /\ \A k \in 1..Len(s) : v[k] = v[k - 1] + s[k].data

LEMMA DataAdds ==
  ASSUME NEW s \in Seq(Frames)
  PROVE  \E v \in [0..Len(s) -> Int] : Adds(v, s) /\ DataOf(s) = v[Len(s)]
<1> DEFINE n == Len(s)
           Sum(g, x) == IF x = {} THEN 0 ELSE g[x \ {Max(x)}] + s[Max(x)].data
           Sums(g, k) == g \in [SUBSET (1..k) -> Int] /\ \A x \in SUBSET (1..k) : g[x] = Sum(g, x)
           iter == CHOOSE iter : iter = [x \in SUBSET DOMAIN s |-> Sum(iter, x)]
<1> HIDE DEF iter, Sums
<1>1. n \in Nat /\ DOMAIN s = 1..n /\ \A k \in 1..n : s[k].data \in Int
  <2>1. \A k \in 1..n : s[k] \in Frames
    OBVIOUS
  <2> QED
    BY <2>1 DEF Frames
<1>2. DataOf(s) = iter[DOMAIN s]
  BY DEF DataOf, FoldLeft, MapThenFoldSet, iter
<1> HIDE DEF n
<1>3. \E g : Sums(g, n)
  <2> DEFINE T == {k \in Nat : k <= n => \E g : Sums(g, k)}
  <2>1. 0 \in T
    <3>1. Sums([x \in SUBSET (1..0) |-> 0], 0)
      BY DEF Sums
    <3> QED
      BY <3>1
  <2>2. ASSUME NEW k \in Nat, k \in T, k + 1 <= n PROVE \E g : Sums(g, k + 1)
    <3>1. PICK g : Sums(g, k)
      BY <2>2, <1>1
    <3> DEFINE h == [x \in SUBSET (1..k + 1) |-> IF k + 1 \in x THEN g[x \ {k + 1}] + s[k + 1].data ELSE g[x]]
    <3>2. \A x \in SUBSET (1..k + 1) : /\ x \ {k + 1} \in SUBSET (1..k)
                                       /\ k + 1 \notin x => x \in SUBSET (1..k)
      OBVIOUS
    <3>3. s[k + 1].data \in Int
      BY <1>1, <2>2
    <3>4. h \in [SUBSET (1..k + 1) -> Int]
      BY <3>1, <3>2, <3>3 DEF Sums
    <3>5. ASSUME NEW x \in SUBSET (1..k + 1) PROVE h[x] = Sum(h, x)
      <4>1. CASE k + 1 \in x
        <5>1. Max(x) = k + 1 /\ x # {}
          BY <4>1, MaxOf
        <5>2. h[x \ {k + 1}] = g[x \ {k + 1}]
          BY <3>2
        <5> QED
          BY <4>1, <5>1, <5>2
      <4>2. CASE k + 1 \notin x
        <5>1. h[x] = Sum(g, x) /\ x \ {Max(x)} \in SUBSET (1..k)
          BY <3>1, <3>2, <4>2 DEF Sums
        <5>2. h[x \ {Max(x)}] = g[x \ {Max(x)}]
          BY <4>2, <5>1
        <5> QED
          BY <5>1, <5>2
      <4> QED
        BY <4>1, <4>2
    <3> HIDE DEF h
    <3> QED
      BY <3>4, <3>5 DEF Sums
  <2>3. \A k \in Nat : k \in T => k + 1 \in T
    BY <2>2
  <2> HIDE DEF T
  <2>4. n \in T
    BY <1>1, <2>1, <2>3, NatInd
  <2> QED
    BY <1>1, <2>4 DEF T
<1>4. iter = [x \in SUBSET DOMAIN s |-> Sum(iter, x)]
  <2>1. PICK g : Sums(g, n)
    BY <1>3
  <2>2. g = [x \in SUBSET DOMAIN s |-> Sum(g, x)]
    BY <1>1, <2>1 DEF Sums
  <2> QED
    BY <2>2 DEF iter
<1> DEFINE v == [k \in 0..n |-> iter[1..k]]
<1>5. iter[1..0] = 0
  BY <1>1, <1>4
<1>6. ASSUME NEW k \in Nat, k + 1 <= n
      PROVE  iter[1..k + 1] = iter[1..k] + s[k + 1].data
  <2>1. 1..k + 1 \in SUBSET DOMAIN s /\ k + 1 \in 1..k + 1
    BY <1>1, <1>6
  <2>2. (1..k + 1) \ {k + 1} = 1..k
    OBVIOUS
  <2>4. 1..k + 1 # {}
    BY <2>1
  <2>3. Max(1..k + 1) = k + 1
    BY <2>1, MaxOf
  <2> QED
    BY <1>4, <2>1, <2>2, <2>3, <2>4
<1>7. ASSUME NEW k \in 0..n PROVE iter[1..k] \in Int
  <2> DEFINE T == {j \in Nat : j <= n => iter[1..j] \in Int}
  <2>1. 0 \in T
    BY <1>5
  <2>2. \A j \in Nat : j \in T => j + 1 \in T
    BY <1>1, <1>6
  <2> HIDE DEF T
  <2>3. k \in T
    BY <1>7, <2>1, <2>2, NatInd
  <2> QED
    BY <1>7, <2>3 DEF T
<1>8. v \in [0..n -> Int] /\ v[0] = 0 /\ v[n] = DataOf(s)
  BY <1>1, <1>2, <1>5, <1>7
<1>9. ASSUME NEW k \in 1..n PROVE v[k] = v[k - 1] + s[k].data
  BY <1>1, <1>6, <1>9
<1> QED
  BY <1>8, <1>9 DEF Adds, n

LEMMA DataOfNext ==
  ASSUME NEW s \in Seq(Frames), NEW t \in Seq(Frames), Len(t) = Len(s) + 1, \A k \in 1..Len(s) : t[k] = s[k]
  PROVE  DataOf(s) \in Int /\ DataOf(t) = DataOf(s) + t[Len(t)].data
<1> DEFINE n == Len(s)
<1>1. PICK v \in [0..n -> Int] : Adds(v, s) /\ DataOf(s) = v[n]
  BY DataAdds
<1>2. PICK u \in [0..Len(t) -> Int] : Adds(u, t) /\ DataOf(t) = u[Len(t)]
  BY DataAdds
<1>3. n \in Nat /\ Len(t) = n + 1
  OBVIOUS
<1> DEFINE T == {k \in Nat : k <= n => u[k] = v[k]}
<1>4. 0 \in T
  BY <1>1, <1>2 DEF Adds
<1>5. ASSUME NEW k \in Nat, k \in T PROVE k + 1 \in T
  <2> SUFFICES ASSUME k + 1 <= n PROVE u[k + 1] = v[k + 1]
    OBVIOUS
  <2>1. k + 1 \in 1..n /\ k + 1 \in 1..Len(t) /\ u[k] = v[k] /\ (k + 1) - 1 = k
    BY <1>3, <1>5
  <2> QED
    BY <1>1, <1>2, <2>1 DEF Adds
<1>6. n \in T
  BY <1>3, <1>4, <1>5, NatInd
<1>7. u[n + 1] = u[n] + t[n + 1].data
  BY <1>2, <1>3 DEF Adds
<1> QED
  BY <1>1, <1>2, <1>3, <1>6, <1>7

LEMMA DataOfNone == DataOf(<<>>) = 0
<1>1. <<>> \in Seq(Frames) /\ Len(<<>>) = 0
  OBVIOUS
<1> QED
  BY <1>1, DataAdds DEF Adds

-----------------------------------------------------------------------------
(* What is on the wire, in the buffer, and still to be written is what the *)
(* calls have taken; and a response that ended well is whole.              *)

WholeOnWire == IF wire[1].says = Chunks THEN wire[Len(wire)] = LastChunk ELSE DataOf(wire) = wire[1].says

CountOK ==
  ~gone /\ misread = 0 =>
    /\ DataOf(wire) + size + (IF at = "content" THEN left ELSE 0) = taken
    /\ at = "content" => wire[1].says = taken
    /\ at \in {"chunked", "append"} => wire[1].says = Chunks
    /\ wire # <<>> /\ (at = "idle" \/ (at = "answered" /\ result = "ok")) => WholeOnWire

LEMMA WriteAdds ==
  ASSUME wire \in Seq(Frames), NEW f \in Frames, Write(<<f>>)
  PROVE  /\ ~gone /\ ~gone' /\ DataOf(wire) \in Int /\ DataOf(wire') = DataOf(wire) + f.data
         /\ wire' \in Seq(Frames) /\ wire' # <<>> /\ wire'[Len(wire')] = f
         /\ wire'[1] = IF wire = <<>> THEN f ELSE wire[1]
<1>1. wire' = wire \o <<f>> /\ ~gone /\ ~gone'
  BY DEF Write
<1>2. /\ wire' \in Seq(Frames) /\ Len(wire') = Len(wire) + 1 /\ wire'[Len(wire')] = f
      /\ \A k \in 1..Len(wire) : wire'[k] = wire[k]
  BY <1>1
<1>3. wire'[1] = IF wire = <<>> THEN f ELSE wire[1]
  BY <1>1, <1>2
<1>4. wire' # <<>>
  BY <1>2
<1> QED
  BY <1>1, <1>2, <1>3, <1>4, DataOfNext

LEMMA WriteTwoAdds ==
  ASSUME wire \in Seq(Frames), wire # <<>>, NEW f \in Frames, NEW g \in Frames, Write(<<f, g>>)
  PROVE  /\ ~gone /\ ~gone' /\ DataOf(wire) \in Int /\ DataOf(wire') = DataOf(wire) + f.data + g.data
         /\ wire'[Len(wire')] = g /\ wire'[1] = wire[1]
<1> DEFINE s == wire \o <<f>>
<1>1. wire' = wire \o <<f, g>> /\ ~gone /\ ~gone'
  BY DEF Write
<1>2. s \in Seq(Frames) /\ Len(s) = Len(wire) + 1 /\ s[Len(s)] = f /\ \A k \in 1..Len(wire) : s[k] = wire[k]
  OBVIOUS
<1>3. wire' \in Seq(Frames) /\ Len(wire') = Len(s) + 1 /\ wire'[Len(wire')] = g /\ \A k \in 1..Len(s) : wire'[k] = s[k]
  BY <1>1
<1>4. wire'[1] = wire[1]
  BY <1>1
<1> HIDE DEF s
<1>5. DataOf(wire) \in Int /\ DataOf(s) = DataOf(wire) + f.data
  BY <1>2, DataOfNext
<1>6. DataOf(wire') = DataOf(s) + g.data
  BY <1>2, <1>3, DataOfNext
<1> QED
  BY <1>1, <1>3, <1>4, <1>5, <1>6

LEMMA FailsGone == ASSUME NEW frames, WriteFails(frames) PROVE gone' = TRUE
BY DEF WriteFails

LEMMA CountWriteResponse ==
  ASSUME IInv, CountOK, misread = 0, NEW n \in Lengths, NEW more \in HandlerHeaders, WriteResponse(n, more)
  PROVE  CountOK'
<1> DEFINE frame == HeadFrame(ContentHead(more), n)
<1>1. /\ n \in Nat /\ at = "handler" /\ wire = <<>> /\ size = 0 /\ size' = size /\ ~gone
  BY TextAssumption DEF WriteResponse, IInv, WireOK, EmptyOK, CountOK
<1>2. frame \in Frames /\ frame.says = n /\ frame.data = 0
  BY <1>1 DEF HeadFrame, Frame, Frames
<1> HIDE DEF frame
<1>3. CASE Write(<<frame>>) /\ at' = (IF n = 0 THEN "answered" ELSE "content") /\ left' = n /\ taken' = n /\ UNCHANGED result
  <2>1. DataOf(wire') = 0 /\ wire'[1] = frame
    BY <1>1, <1>2, <1>3, WriteAdds, DataOfNone
  <2>2. n # Chunks
    BY <1>1 DEF Chunks
  <2> QED
    BY <1>1, <1>2, <1>3, <2>1, <2>2 DEF CountOK, WholeOnWire
<1>4. CASE WriteFails(<<frame>>) /\ at' = "answered" /\ result' = "CONNECTION"
  BY <1>4, FailsGone DEF CountOK
<1> QED
  BY <1>3, <1>4 DEF WriteResponse, frame

LEMMA CountChunkedResponse ==
  ASSUME IInv, CountOK, misread = 0, NEW more \in HandlerHeaders, ChunkedResponse(more)
  PROVE  CountOK'
<1> DEFINE frame == HeadFrame(ChunkedHead(more), Chunks)
<1>1. /\ at = "handler" /\ at' = "chunked" /\ wire = <<>> /\ size = 0 /\ size' = size /\ taken' = taken /\ taken \in Nat
      /\ ~gone
  BY DEF ChunkedResponse, IInv, WireOK, EmptyOK, RestOK, CountOK
<1>2. frame \in Frames /\ frame.says = Chunks /\ frame.data = 0
  BY <1>1 DEF HeadFrame, Frame, Frames
<1> HIDE DEF frame
<1>3. CASE Write(<<frame>>) /\ UNCHANGED result
  <2>1. DataOf(wire') = 0 /\ DataOf(wire) = 0 /\ wire'[1] = frame
    BY <1>1, <1>2, <1>3, WriteAdds, DataOfNone
  <2> QED
    BY <1>1, <1>2, <1>3, <2>1 DEF CountOK
<1>4. CASE WriteFails(<<frame>>)
  BY <1>1, <1>4, FailsGone DEF CountOK
<1> QED
  BY <1>3, <1>4 DEF ChunkedResponse, frame

LEMMA CountWriteContent ==
  ASSUME IInv, CountOK, misread = 0, WriteContent
  PROVE  CountOK'
<1> DEFINE n == Lesser(left, MAX)
<1>1. n \in Nat /\ left \in Nat
  BY BufferAssumption DEF Lesser, IInv, LoopOK
<1>2. /\ at = "content" /\ UNCHANGED <<size, taken>> /\ size = 0 /\ taken \in Nat /\ wire \in Seq(Frames) /\ wire # <<>>
  BY DEF WriteContent, IInv, WireOK, EmptyOK, RestOK, bufVars
<1>3. Content(n) \in Frames /\ Content(n).data = n
  BY <1>1 DEF Content, Frame, Frames
<1> HIDE DEF n
<1>4. CASE Write(<<Content(n)>>) /\ left' = left - n /\ at' = (IF left = n THEN "answered" ELSE "content") /\ UNCHANGED result
  <2>1. ~gone /\ DataOf(wire) \in Int /\ DataOf(wire') = DataOf(wire) + n /\ wire'[1] = wire[1]
    BY <1>2, <1>3, <1>4, WriteAdds
  <2>2. DataOf(wire) + left = taken /\ wire[1].says = taken
    BY <1>1, <1>2, <2>1 DEF CountOK
  <2>3. taken # Chunks
    BY <1>2 DEF Chunks
  <2> QED
    BY <1>1, <1>2, <1>4, <2>1, <2>2, <2>3 DEF CountOK, WholeOnWire
<1>5. CASE WriteFails(<<Content(n)>>)
  BY <1>2, <1>5, FailsGone DEF CountOK
<1> QED
  BY <1>4, <1>5 DEF WriteContent, n

(* A chunk has what was in the buffer. *)
LEMMA ChunkHas ==
  ASSUME IInv, misread = 0, idx > 0
  PROVE  Chunk \in Frames /\ Chunk.data = size /\ size \in Nat
<1>1. size \in Nat \ {0} /\ idx - ChunkHead = size
  BY DEF IInv, BufferOK, ChunkHead
<1> QED
  BY <1>1 DEF Chunk, Frame, Frames

LEMMA FillTakes ==
  ASSUME NEW i \in Nat, NEW s \in Nat, NEW n \in Nat, NEW high, Fill(i, s, n, high)
  PROVE  \E more \in Int : size' = s + more /\ taken' = taken + more
<1> DEFINE more == Lesser(n, MAX - Spare - i)
<1>1. more \in Int
  BY BufferAssumption DEF Lesser, Spare
<1>2. size' = s + more /\ taken' = taken + more
  BY DEF Fill
<1> QED
  BY <1>1, <1>2

LEMMA CountAppend1 ==
  ASSUME IInv, CountOK, misread = 0, at \in {"chunked", "append"}, NEW n \in Nat \ {0}, NEW flush \in BOOLEAN,
         flush => idx > 0, ~flush => idx < MAX - Spare, Append1(n, flush)
  PROVE  ~gone' => DataOf(wire') + size' = taken' /\ taken' \in Int /\ wire'[1].says = Chunks
<1> SUFFICES ASSUME ~gone' PROVE DataOf(wire') + size' = taken' /\ taken' \in Int /\ wire'[1].says = Chunks
  OBVIOUS
<1>1. wire \in Seq(Frames) /\ wire # <<>> /\ DataOf(wire) \in Int /\ idx \in Nat /\ size \in Nat /\ taken \in Nat
  <2>1. wire \in Seq(Frames)
    BY DEF IInv, WireOK
  <2>2. DataOf(wire) \in Int
    BY <2>1, DataAdds
  <2> QED
    BY <2>1, <2>2, FullOK DEF IInv, WireOK, RestOK
<1>2. CASE ~flush
  <2>1. Fill(idx, size, n, top) /\ UNCHANGED outVars
    BY <1>2 DEF Append1
  <2>2. DataOf(wire) + size = taken /\ wire[1].says = Chunks
    BY <1>1, <2>1 DEF CountOK, outVars
  <2>3. PICK more \in Int : size' = size + more /\ taken' = taken + more
    BY <1>1, <2>1, FillTakes
  <2> QED
    BY <1>1, <2>1, <2>2, <2>3 DEF outVars
<1>3. CASE flush
  <2>1. Write(<<Chunk>>) /\ Fill(0, 0, n, Higher(top, idx + 2))
    BY <1>3 DEF Append1
  <2>2. Chunk \in Frames /\ Chunk.data = size
    BY <1>3, ChunkHas
  <2>3. ~gone /\ DataOf(wire') = DataOf(wire) + size /\ wire'[1] = wire[1]
    BY <1>1, <2>1, <2>2, WriteAdds
  <2>4. DataOf(wire) + size = taken /\ wire[1].says = Chunks
    BY <1>1, <2>3 DEF CountOK
  <2>5. PICK more \in Int : size' = 0 + more /\ taken' = taken + more
    BY <1>1, <2>1, FillTakes
  <2> QED
    BY <1>1, <2>3, <2>4, <2>5
<1> QED
  BY <1>2, <1>3

LEMMA CountAppends ==
  ASSUME IInv, CountOK, misread = 0, AppendPiece \/ \E n \in Lengths : AppendFmt(n)
  PROVE  CountOK'
<1>1. ASSUME at' \in {"chunked", "append"}, ~gone' => DataOf(wire') + size' = taken' /\ taken' \in Int /\ wire'[1].says = Chunks
      PROVE  CountOK'
  BY <1>1 DEF CountOK
<1>2. ASSUME AppendFails, at' = "chunked" PROVE CountOK'
  BY <1>1, <1>2, FailsGone DEF AppendFails
<1>3. CASE AppendPiece
  <2>1. at = "append" /\ left \in Nat \ {0}
    BY <1>3 DEF AppendPiece, IInv, LoopOK
  <2>2. Full \in BOOLEAN /\ (Full => idx > 0) /\ (~Full => idx < MAX - Spare)
    BY FullOK DEF IInv, Full
  <2>3. CASE Append1(left, Full) /\ at' = (IF left' = 0 THEN "chunked" ELSE "append") /\ result' = "ok"
    <3>1. ~gone' => DataOf(wire') + size' = taken' /\ taken' \in Int /\ wire'[1].says = Chunks
      BY <2>1, <2>2, <2>3, CountAppend1
    <3> QED
      BY <1>1, <2>3, <3>1
  <2> QED
    BY <1>2, <1>3, <2>3 DEF AppendPiece
<1>4. ASSUME NEW n \in Lengths, AppendFmt(n) PROVE CountOK'
  <2> DEFINE flush == (idx # 0 /\ idx + n > MAX - Spare) \/ Full
  <2>1. n \in Nat \ {0} /\ at = "chunked" /\ at' = "chunked"
    BY <1>4, TextAssumption DEF AppendFmt
  <2>2. flush \in BOOLEAN /\ (flush => idx > 0) /\ (~flush => idx < MAX - Spare)
    BY FullOK DEF IInv
  <2>3. \/ Append1(n, flush) /\ result' = "ok"
        \/ flush /\ AppendFails
    BY <1>4 DEF AppendFmt
  <2> HIDE DEF flush
  <2>4. CASE Append1(n, flush) /\ result' = "ok"
    <3>1. ~gone' => DataOf(wire') + size' = taken' /\ taken' \in Int /\ wire'[1].says = Chunks
      BY <2>1, <2>2, <2>4, CountAppend1
    <3> QED
      BY <1>1, <2>1, <2>4, <3>1
  <2> QED
    BY <1>2, <2>1, <2>3, <2>4
<1> QED
  BY <1>3, <1>4

LEMMA CountChunkedFlush ==
  ASSUME IInv, CountOK, misread = 0, ChunkedFlush
  PROVE  CountOK'
<1>1. at = "chunked" /\ at' = "chunked" /\ UNCHANGED taken /\ wire \in Seq(Frames) /\ wire # <<>> /\ taken \in Nat
  BY DEF ChunkedFlush, IInv, WireOK, RestOK
<1>2. CASE UNCHANGED <<outVars, bufVars>> /\ result' = "ok"
  BY <1>1, <1>2 DEF CountOK, outVars, bufVars
<1>3. CASE idx > 0 /\ Write(<<Chunk>>) /\ Flush /\ result' = "ok"
  <2>1. ~gone /\ DataOf(wire) \in Int /\ DataOf(wire') = DataOf(wire) + size /\ wire'[1] = wire[1] /\ size \in Nat
    BY <1>1, <1>3, ChunkHas, WriteAdds
  <2>2. size' = 0
    BY <1>3 DEF Flush
  <2> QED
    BY <1>1, <1>3, <2>1, <2>2 DEF CountOK
<1>4. CASE AppendFails
  BY <1>1, <1>4, FailsGone DEF AppendFails, CountOK
<1> QED
  BY <1>2, <1>3, <1>4 DEF ChunkedFlush

LEMMA CountChunkedComplete ==
  ASSUME IInv, CountOK, misread = 0, ChunkedComplete
  PROVE  CountOK'
<1>1. at = "chunked" /\ at' = "answered" /\ size' = 0 /\ UNCHANGED taken /\ wire \in Seq(Frames) /\ wire # <<>> /\ taken \in Nat
  BY DEF ChunkedComplete, IInv, WireOK, RestOK
<1>2. CASE Write(Pending) /\ result' = "ok"
  <2>1. LastChunk \in Frames /\ LastChunk.data = 0
    BY DEF LastChunk, Frame, Frames
  <2>2. /\ ~gone /\ DataOf(wire) \in Int /\ DataOf(wire') = DataOf(wire) + size /\ size \in Nat
        /\ wire'[Len(wire')] = LastChunk /\ wire'[1] = wire[1]
    <3>1. CASE idx > 0
      BY <1>1, <1>2, <2>1, <3>1, ChunkHas, WriteTwoAdds DEF Pending
    <3>2. CASE ~(idx > 0)
      <4>1. size = 0
        BY <3>2 DEF IInv, BufferOK, ChunkHead
      <4> QED
        BY <1>1, <1>2, <2>1, <3>2, <4>1, WriteAdds DEF Pending
    <3> QED
      BY <3>1, <3>2
  <2> QED
    BY <1>1, <1>2, <2>2 DEF CountOK, WholeOnWire
<1>3. CASE WriteFails(Pending) /\ result' = "CONNECTION"
  BY <1>3, FailsGone DEF CountOK
<1> QED
  BY <1>2, <1>3 DEF ChunkedComplete

LEMMA CountQuiet ==
  ASSUME IInv, CountOK, misread = 0,
         Request \/ Kept \/ Close \/ HandlerFails \/ ErrorMisread \/ AppendFmtNothing \/ UNCHANGED vars
         \/ \E n \in Lengths : AppendStr(n)
  PROVE  CountOK'
<1>1. CASE Request
  BY <1>1, DataOfNone DEF Request, CountOK, IInv, EmptyOK
<1>2. CASE Kept
  BY <1>2 DEF Kept, CountOK, WholeOnWire, outVars, bufVars
<1>3. CASE Close
  BY <1>3, DataOfNone DEF Close, CountOK
<1>4. CASE HandlerFails
  BY <1>4 DEF HandlerFails, CountOK, WholeOnWire, outVars, bufVars
<1>5. CASE ErrorMisread
  BY <1>5 DEF ErrorMisread, CountOK, WholeOnWire, outVars, bufVars
<1>6. CASE AppendFmtNothing
  BY <1>6 DEF AppendFmtNothing, CountOK, WholeOnWire, outVars, bufVars
<1>7. CASE UNCHANGED vars
  BY <1>7 DEF vars, CountOK, WholeOnWire, outVars, bufVars
<1>8. CASE \E n \in Lengths : AppendStr(n)
  BY <1>8 DEF AppendStr, CountOK, WholeOnWire, outVars, bufVars
<1> QED
  BY <1>1, <1>2, <1>3, <1>4, <1>5, <1>6, <1>7, <1>8

LEMMA CountStepOK == IInv /\ CountOK /\ [Next]_vars => CountOK'
<1> SUFFICES ASSUME IInv, CountOK, [Next]_vars, misread' = 0 PROVE CountOK'
  BY DEF CountOK
<1>1. CASE Close
  BY <1>1, DataOfNone DEF Close, CountOK
<1>2. CASE ~Close
  <2>1. misread = 0
    <3>1. misread \in Nat
      BY DEF IInv, RestOK
    <3>2. CASE Request \/ Kept \/ HandlerFails \/ AppendFmtNothing \/ ChunkedFlush \/ ChunkedComplete
      BY <3>2 DEF Request, Kept, HandlerFails, AppendFmtNothing, ChunkedFlush, ChunkedComplete
    <3>3. CASE ErrorMisread
      BY <3>1, <3>3 DEF ErrorMisread
    <3>4. CASE \E more \in HandlerHeaders : ChunkedResponse(more) \/ \E n \in Lengths : WriteResponse(n, more)
      BY <3>4 DEF ChunkedResponse, WriteResponse
    <3>5. CASE \E n \in Lengths : AppendFmt(n) \/ AppendStr(n)
      BY <3>5 DEF AppendFmt, AppendStr
    <3>6. CASE Loop \/ UNCHANGED vars
      BY <3>6 DEF Loop, WriteContent, AppendPiece, vars
    <3> QED
      BY <1>2, <3>2, <3>3, <3>4, <3>5, <3>6 DEF Next
  <2> QED
    BY <1>2, <2>1, CountQuiet, CountWriteResponse, CountChunkedResponse, CountWriteContent, CountAppends,
       CountChunkedFlush, CountChunkedComplete DEF Next, Loop
<1> QED
  BY <1>1, <1>2

(* NothingLost, for any texts and any calls: as long as no error is misread,  *)
(* as many bytes as the calls take from a handler are on the wire and in the  *)
(* buffer, and a response is whole before the connection is used again.       *)
THEOREM NothingLostCorrect ==
  ASSUME HeadsFit
  PROVE  Spec => []NothingLost
<1>1. Init => CountOK
  BY DataOfNone DEF Init, CountOK
<1>2. CountOK => NothingLost
  BY DEF CountOK, WholeOnWire, NothingLost
<1> QED
  BY <1>1, <1>2, Invariance, CountStepOK, PTL DEF Spec

=============================================================================
