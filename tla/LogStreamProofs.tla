--------------------------- MODULE LogStreamProofs ---------------------------
(***************************************************************************)
(* That the two threads of an event stream keep out of each other's way,   *)
(* for a stream of any length: TypeOK, OneResponse, ClosesOwn and          *)
(* EndsForCause of LogStream.                                              *)
(*                                                                         *)
(* They have no lock.  What keeps them apart is the order of their steps:  *)
(* the channel is in the logger only while the handler waits, the handler  *)
(* goes on only when the logger's callback has come back, and whoever      *)
(* writes has seen that the connection was well.                           *)
(***************************************************************************)
EXTENDS LogStream, TLAPS

FrameNames == {"head", "chunk", "last", "cut"}

Flags ==
  /\ channel \in BOOLEAN /\ sock \in BOOLEAN /\ gone \in BOOLEAN
  /\ text \in BOOLEAN /\ stop \in BOOLEAN /\ parted \in BOOLEAN
Counts == lines \in 0..LinesMax /\ waits \in 0..WaitsMax /\ unread \in 0..BytesMax
Words ==
  /\ worker \in Waiting \cup {"open", "replay", "add", "complete", "kept", "close", "done"}
  /\ logger \in {"idle", "append", "flush", "abort", "clear"}
  /\ number \in {"own", "free", "other"} /\ client \in {"reads", "stalls", "closed"}
  /\ tls \in {"no", "yes", "part"} /\ end \in {"no", "stop", "time", "connection"}
  /\ foreign \subseteq {"close", "read"}

(* Whose turn it is: the logger's only while the handler waits, and text    *)
(* is in the buffer only between an append and its flush.                  *)
Turns ==
  /\ logger # "idle" \/ channel => worker \in Waiting
  /\ text => worker = "replay" \/ logger = "flush"
  /\ worker \in {"check", "select"} => waits > 0

(* What has been written, and that as long as a write may succeed nothing   *)
(* that ends the response has been.                                        *)
Answering == Waiting \cup {"replay", "add", "complete", "kept"}
Open == \A k \in DOMAIN wire : wire[k] \notin {"last", "cut"}

WireOK ==
  /\ wire \in Seq(FrameNames)
  /\ \A k \in DOMAIN wire : wire[k] \in {"last", "cut"} => k = Len(wire)
  /\ worker = "open" => wire = <<>>
  /\ worker \in Answering => wire # <<>> /\ wire[1] = "head"
  /\ ~gone /\ worker \notin {"kept", "close", "done"} => Open
  /\ worker = "kept" => wire[Len(wire)] = "last"

(* A number is forgotten as soon as it is closed, but for the logger's step *)
(* between the two; and a connection is only given up for a reason.        *)
Well == sock /\ ~gone /\ number = "own"
NumberOK ==
  /\ sock /\ number # "own" => logger = "clear"
  /\ "close" \notin foreign
  /\ logger \in {"abort", "clear"} => gone
  /\ worker = "kept" => Well
  /\ worker = "blocked" => number = "other"
  /\ ~Well => client # "reads" \/ parted \/ worker = "done"
  /\ EndsForCause

IInv == Flags /\ Counts /\ Words /\ Turns /\ WireOK /\ NumberOK

-----------------------------------------------------------------------------
LEMMA InitOK == Init => IInv
<1> SUFFICES ASSUME Init PROVE IInv
  OBVIOUS
<1>1. WaitsMax \in Nat /\ LinesMax \in Nat /\ BytesMax \in Nat
  BY BoundsAssumption
<1>2. Flags
  BY DEF Init, Flags
<1>3. Counts
  BY <1>1 DEF Init, Counts
<1>4. Words
  BY DEF Init, Words
<1>5. Turns
  BY DEF Init, Turns
<1>6. WireOK
  BY DEF Init, WireOK, Answering, Waiting, Open
<1>7. NumberOK
  BY DEF Init, NumberOK, Well, EndsForCause
<1> QED
  BY <1>2, <1>3, <1>4, <1>5, <1>6, <1>7 DEF IInv

(* One more frame, behind a response that is still open. *)
LEMMA AppendOK ==
  ASSUME NEW w \in Seq(FrameNames), NEW f \in FrameNames,
         \A k \in DOMAIN w : w[k] \notin {"last", "cut"}
  PROVE  LET v == Append(w, f)
         IN  /\ v \in Seq(FrameNames) /\ v # <<>> /\ v[Len(v)] = f
             /\ \A k \in DOMAIN v : v[k] \in {"last", "cut"} => k = Len(v)
             /\ f \notin {"last", "cut"} => \A k \in DOMAIN v : v[k] \notin {"last", "cut"}
             /\ w # <<>> => v[1] = w[1]
             /\ w = <<>> => v[1] = f
BY DEF FrameNames

(* A write in either thread, successful or not. *)
LEMMA WriteOK ==
  ASSUME IInv, worker \notin {"kept", "close", "done"},
         NEW f \in FrameNames, Write(f) \/ WriteFails
  PROVE  /\ wire' \in Seq(FrameNames)
         /\ \A k \in DOMAIN wire' : wire'[k] \in {"last", "cut"} => k = Len(wire')
         /\ Write(f) => wire'[Len(wire')] = f /\ ~gone' /\ sock
         /\ wire # <<>> => wire' # <<>> /\ wire'[1] = wire[1]
         /\ wire = <<>> /\ Write(f) => wire' # <<>> /\ wire'[1] = f
         /\ ~gone' /\ f \notin {"last", "cut"} => Open'
         /\ WriteFails => gone' = TRUE /\ (Well => client # "reads")
<1>1. wire \in Seq(FrameNames) /\ (~gone => Open)
  BY DEF IInv, WireOK
<1>2. CASE Write(f)
  BY <1>1, <1>2, AppendOK DEF Write, Open, WriteFails
<1>3. CASE WriteFails /\ wire' = wire
  BY <1>3 DEF IInv, WireOK, WriteFails, Well, Write
<1>4. CASE WriteFails /\ wire' # wire
  <2>1. ~gone /\ wire' = Append(wire, "cut") /\ "cut" \in FrameNames /\ gone' = TRUE
    BY <1>4 DEF WriteFails, FrameNames
  <2>2. Well => client # "reads"
    BY <1>4 DEF WriteFails, Well
  <2> DEFINE v == Append(wire, "cut")
  <2>3. /\ v \in Seq(FrameNames) /\ v # <<>>
        /\ \A k \in DOMAIN v : v[k] \in {"last", "cut"} => k = Len(v)
        /\ wire # <<>> => v[1] = wire[1]
    BY <1>1, <2>1, AppendOK DEF Open
  <2> HIDE DEF v
  <2>4. wire' = v
    BY <2>1 DEF v
  <2> QED
    BY <2>1, <2>2, <2>3, <2>4 DEF Write
<1> QED
  BY <1>2, <1>3, <1>4

(* The client, a stop and the next connection. *)
LEMMA OutsideOK ==
  ASSUME IInv, Outside
  PROVE  IInv'
<1>1. Flags'
  BY DEF Outside, ClientLeaves, ClientSends, Stop, NumberReused, IInv, Flags, streamVars, connVars, answerVars, clientVars
<1>2. Counts'
  BY BoundsAssumption DEF Outside, ClientLeaves, ClientSends, Stop, NumberReused, IInv, Counts, Turns, streamVars, connVars, answerVars, clientVars
<1>3. Words'
  BY DEF Outside, ClientLeaves, ClientSends, Stop, NumberReused, IInv, Words, Waiting, streamVars, connVars, answerVars, clientVars
<1>4. Turns'
  BY DEF Outside, ClientLeaves, ClientSends, Stop, NumberReused, IInv, Flags, Counts, Words, Turns, Waiting, streamVars, connVars, answerVars, clientVars
<1>5. WireOK'
  BY DEF Outside, ClientLeaves, ClientSends, Stop, NumberReused, IInv, Turns, NumberOK, Well, WireOK, Open, Answering, Waiting, streamVars, connVars, answerVars, clientVars
<1>6. NumberOK'
  BY DEF Outside, ClientLeaves, ClientSends, Stop, NumberReused, IInv, Flags, Words, Turns, NumberOK, Well,
     EndsForCause, Waiting, streamVars, connVars, answerVars, clientVars
<1> QED
  BY <1>1, <1>2, <1>3, <1>4, <1>5, <1>6 DEF IInv

(* The logger's task, but for its write.  It closes the number only when *)
(* the connection was given up, and has a step to forget it.              *)
LEMMA LoggerOK ==
  ASSUME IInv, LogLine \/ LogAppend \/ LogAbort \/ LogClear
  PROVE  IInv'
<1>1. Flags'
  BY DEF LogLine, LogAppend, LogAbort, LogClear, LoggerGo, IInv, Flags, streamVars, connVars, answerVars, clientVars
<1>2. Counts'
  BY BoundsAssumption DEF LogLine, LogAppend, LogAbort, LogClear, LoggerGo, IInv, Counts, Turns, streamVars, connVars, answerVars, clientVars
<1>3. Words'
  BY DEF LogLine, LogAppend, LogAbort, LogClear, LoggerGo, CloseNumber, IInv, Words, Waiting, streamVars, connVars, answerVars, clientVars
<1>4. Turns'
  BY DEF LogLine, LogAppend, LogAbort, LogClear, LoggerGo, IInv, Flags, Counts, Words, Turns, Waiting, streamVars, connVars, answerVars, clientVars
<1>5. WireOK'
  BY DEF LogLine, LogAppend, LogAbort, LogClear, LoggerGo, IInv, Turns, NumberOK, Well, WireOK, Open, Answering, Waiting, streamVars, connVars, answerVars, clientVars
<1>6. NumberOK'
  BY DEF LogLine, LogAppend, LogAbort, LogClear, LoggerGo, CloseNumber, IInv, Flags, Words, Turns, NumberOK, Well,
     EndsForCause, Waiting, streamVars, connVars, answerVars, clientVars
<1> QED
  BY <1>1, <1>2, <1>3, <1>4, <1>5, <1>6 DEF IInv

(* The handler's wait.  What it finds ends the stream only for a cause. *)
LEMMA WaitOK ==
  ASSUME IInv, WaitSteps \/ ReadOther
  PROVE  IInv'
<1>1. Flags'
  BY DEF WaitSteps, WaitBegins, WaitCheck, WaitPasses, WaitReads, ReadCheck, ReadByte, ReadPart, ReadFails,
     RecvOther, ReadOther, Ends, Own, Readable, IInv, Flags, streamVars, connVars, answerVars, clientVars
<1>2. Counts'
  <2>1. WaitsMax \in Nat /\ BytesMax \in Nat
    BY BoundsAssumption
  <2>2. lines' = lines /\ waits' \in {waits, waits - 1} /\ unread' \in {unread, unread - 1}
    BY DEF WaitSteps, WaitBegins, WaitCheck, WaitPasses, WaitReads, ReadCheck, ReadByte, ReadPart, ReadFails,
       RecvOther, ReadOther, streamVars, clientVars
  <2>3. (waits' # waits => waits > 0) /\ (unread' # unread => unread > 0)
    BY DEF WaitSteps, WaitBegins, WaitCheck, WaitPasses, WaitReads, ReadCheck, ReadByte, ReadPart, ReadFails,
       RecvOther, ReadOther, streamVars, clientVars, IInv, Turns
  <2> QED
    BY <2>1, <2>2, <2>3 DEF IInv, Counts
<1>3. Words'
  BY DEF WaitSteps, WaitBegins, WaitCheck, WaitPasses, WaitReads, ReadCheck, ReadByte, ReadPart, ReadFails,
     RecvOther, ReadOther, Ends, Own, Readable, IInv, Words, Waiting, streamVars, connVars, answerVars, clientVars
<1>4. Turns'
  BY DEF WaitSteps, WaitBegins, WaitCheck, WaitPasses, WaitReads, ReadCheck, ReadByte, ReadPart, ReadFails,
     RecvOther, ReadOther, Ends, Own, Readable, IInv, Flags, Counts, Words, Turns, Waiting, streamVars, connVars, answerVars, clientVars
<1>5. WireOK'
  BY DEF WaitSteps, WaitBegins, WaitCheck, WaitPasses, WaitReads, ReadCheck, ReadByte, ReadPart, ReadFails,
     RecvOther, ReadOther, Ends, Own, Readable, IInv, Turns, NumberOK, Well, WireOK, Open, Answering, Waiting, streamVars, connVars, answerVars, clientVars
<1>6. NumberOK'
  BY DEF WaitSteps, WaitBegins, WaitCheck, WaitPasses, WaitReads, ReadCheck, ReadByte, ReadPart, ReadFails,
     RecvOther, ReadOther, Ends, Own, Readable, IInv, Flags, Words, Turns, NumberOK, Well,
     EndsForCause, Waiting, streamVars, connVars, answerVars, clientVars
<1> QED
  BY <1>1, <1>2, <1>3, <1>4, <1>5, <1>6 DEF IInv

(* The handler's other steps, but for its writes.  When it goes on behind *)
(* its wait, the logger's callback has come back.                        *)
LEMMA HandlerOK ==
  ASSUME IInv, ChannelAdd \/ ChannelRemove \/ Close \/ KeptEnds \/ Again
  PROVE  IInv'
<1>1. Flags'
  BY DEF ChannelAdd, ChannelRemove, Close, KeptEnds, Again, WorkerGo, IInv, Flags, streamVars, connVars, answerVars, clientVars
<1>2. Counts'
  BY BoundsAssumption DEF ChannelAdd, ChannelRemove, Close, KeptEnds, Again, WorkerGo, IInv, Counts, Turns, streamVars, connVars, answerVars, clientVars
<1>3. Words'
  BY DEF ChannelAdd, ChannelRemove, Close, KeptEnds, Again, WorkerGo, CloseNumber, IInv, Words, Waiting, streamVars, connVars, answerVars, clientVars
<1>4. Turns'
  BY DEF ChannelAdd, ChannelRemove, Close, KeptEnds, Again, WorkerGo, IInv, Flags, Counts, Words, Turns, Waiting, streamVars, connVars, answerVars, clientVars
<1>5. WireOK'
  <2>1. CASE Again
    <3>1. wire' = <<>> /\ worker' = "open"
      BY <2>1 DEF Again, WorkerGo
    <3> QED
      BY <3>1 DEF WireOK, Open, Answering, Waiting
  <2>2. CASE ChannelAdd \/ ChannelRemove \/ Close \/ KeptEnds
    BY <2>2 DEF ChannelAdd, ChannelRemove, Close, KeptEnds, WorkerGo, IInv, Turns, NumberOK, Well, WireOK, Open,
       Answering, Waiting, streamVars, connVars, answerVars, clientVars
  <2> QED
    BY <2>1, <2>2
<1>6. NumberOK'
  BY DEF ChannelAdd, ChannelRemove, Close, KeptEnds, Again, WorkerGo, CloseNumber, IInv, Flags, Words, Turns, NumberOK, Well,
     EndsForCause, Waiting, streamVars, connVars, answerVars, clientVars
<1> QED
  BY <1>1, <1>2, <1>3, <1>4, <1>5, <1>6 DEF IInv

(* The writes.  Each finds the response open, or the connection given up.  *)
LEMMA LogFlushOK ==
  ASSUME IInv, LogFlush
  PROVE  IInv'
<1>1. /\ logger = "flush" /\ worker \in Waiting /\ worker' = worker /\ text' = FALSE
      /\ UNCHANGED <<streamVars, sock, number, clientVars, stop, parted, foreign>>
  BY DEF LogFlush, LoggerGo, IInv, Turns
<1>2. \/ Write("chunk") /\ logger' = "idle"
      \/ WriteFails /\ logger' = "abort"
  BY DEF LogFlush, LoggerGo
<1>3. worker \notin {"kept", "close", "done"} /\ "chunk" \in FrameNames
  BY <1>1 DEF Waiting, FrameNames
<1>4. wire # <<>> /\ wire[1] = "head"
  BY <1>1 DEF IInv, WireOK, Answering
<1>5. Flags'
  BY <1>1, <1>2 DEF Write, WriteFails, IInv, Flags, streamVars
<1>6. Counts' /\ Words'
  BY <1>1, <1>2 DEF IInv, Counts, Words, streamVars, clientVars
<1>7. Turns'
  BY <1>1 DEF IInv, Turns, streamVars
<1>8. WireOK'
  BY <1>1, <1>2, <1>3, <1>4, WriteOK DEF WireOK, Waiting
<1>9. NumberOK'
  <2>1. (WriteFails => gone' = TRUE /\ (Well => client # "reads")) /\ (Write("chunk") => ~gone' /\ ~gone)
    BY <1>2, <1>3, WriteOK DEF Write
  <2> QED
    BY <1>1, <1>2, <2>1 DEF IInv, NumberOK, Well, EndsForCause, Waiting, streamVars, clientVars
<1> QED
  BY <1>5, <1>6, <1>7, <1>8, <1>9 DEF IInv

LEMMA StreamHeadOK ==
  ASSUME IInv, StreamHead
  PROVE  IInv'
<1>1. /\ worker = "open" /\ logger' = logger /\ logger = "idle" /\ ~channel
      /\ UNCHANGED <<streamVars, sock, number, text, clientVars, stop, parted, foreign>>
  BY DEF StreamHead, WorkerGo, IInv, Turns, Waiting
<1>2. \/ Write("head") /\ worker' = "replay"
      \/ WriteFails /\ worker' = "close"
  BY DEF StreamHead, WorkerGo
<1>3. "head" \in FrameNames /\ wire = <<>>
  BY <1>1 DEF FrameNames, IInv, WireOK
<1>4. Flags'
  BY <1>1, <1>2 DEF Write, WriteFails, IInv, Flags, streamVars
<1>5. Counts' /\ Words'
  BY <1>1, <1>2 DEF IInv, Counts, Words, streamVars, clientVars
<1>6. Turns'
  BY <1>1, <1>2 DEF IInv, Turns, streamVars
<1>7. WireOK'
  BY <1>1, <1>2, <1>3, WriteOK DEF WireOK, Answering, Waiting
<1>8. NumberOK'
  <2>1. (WriteFails => gone' = TRUE /\ (Well => client # "reads")) /\ (Write("head") => ~gone' /\ ~gone)
    BY <1>1, <1>2, <1>3, WriteOK DEF Write
  <2> QED
    BY <1>1, <1>2, <2>1 DEF IInv, NumberOK, Well, EndsForCause, streamVars, clientVars
<1> QED
  BY <1>4, <1>5, <1>6, <1>7, <1>8 DEF IInv

LEMMA ReplayOK ==
  ASSUME IInv, ReplayLine \/ ReplayFlush
  PROVE  IInv'
<1>1. /\ worker = "replay" /\ logger' = logger /\ logger = "idle" /\ ~channel /\ worker' \in {"replay", "add"}
      /\ text' = TRUE => worker' = "replay"
      /\ UNCHANGED <<channel, waits, end, sock, number, clientVars, stop, parted, foreign>>
  BY DEF ReplayLine, ReplayFlush, WorkerGo, IInv, Turns, Waiting, streamVars
<1>2. Write("chunk") \/ WriteFails \/ UNCHANGED <<wire, gone>>
  BY DEF ReplayLine, ReplayFlush
<1>3. "chunk" \in FrameNames /\ wire # <<>> /\ wire[1] = "head" /\ (~gone => Open)
  BY <1>1 DEF FrameNames, IInv, WireOK, Answering
<1>4. Flags'
  <2>1. text' \in BOOLEAN
    BY DEF ReplayLine, ReplayFlush
  <2> QED
    BY <1>1, <1>2, <2>1 DEF Write, WriteFails, IInv, Flags
<1>5. Counts'
  BY <1>1, BoundsAssumption DEF ReplayLine, ReplayFlush, IInv, Counts, streamVars, clientVars
<1>6. Words'
  BY <1>1 DEF IInv, Words, clientVars
<1>7. Turns'
  BY <1>1 DEF IInv, Turns, ReplayLine, ReplayFlush
<1>8. WireOK'
  <2>1. CASE UNCHANGED <<wire, gone>>
    BY <1>1, <1>3, <2>1 DEF IInv, WireOK, Open, Answering
  <2>2. CASE Write("chunk") \/ WriteFails
    BY <1>1, <1>3, <2>2, WriteOK DEF WireOK, Answering
  <2> QED
    BY <1>2, <2>1, <2>2
<1>9. NumberOK'
  <2>1. (WriteFails => gone' = TRUE /\ (Well => client # "reads")) /\ (Write("chunk") => ~gone' /\ ~gone)
    BY <1>1, <1>3, WriteOK DEF Write
  <2> QED
    BY <1>1, <1>2, <2>1 DEF IInv, NumberOK, Well, EndsForCause, clientVars
<1> QED
  BY <1>4, <1>5, <1>6, <1>7, <1>8, <1>9 DEF IInv

LEMMA StreamCompleteOK ==
  ASSUME IInv, StreamComplete
  PROVE  IInv'
<1>1. /\ worker = "complete" /\ logger' = logger /\ logger = "idle" /\ ~channel
      /\ UNCHANGED <<streamVars, sock, number, text, clientVars, stop, parted, foreign>>
  BY DEF StreamComplete, WorkerGo, IInv, Turns, Waiting
<1>2. \/ Write("last") /\ worker' \in {"kept", "close"}
      \/ WriteFails /\ worker' = "close"
  BY DEF StreamComplete, WorkerGo
<1>3. "last" \in FrameNames /\ wire # <<>> /\ wire[1] = "head"
  BY <1>1 DEF FrameNames, IInv, WireOK, Answering
<1>4. Flags'
  BY <1>1, <1>2 DEF Write, WriteFails, IInv, Flags, streamVars
<1>5. Counts' /\ Words'
  BY <1>1, <1>2 DEF IInv, Counts, Words, streamVars, clientVars
<1>6. Turns'
  BY <1>1, <1>2 DEF IInv, Turns, streamVars
<1>7. WireOK'
  BY <1>1, <1>2, <1>3, WriteOK DEF WireOK, Answering, Waiting
<1>8. NumberOK'
  <2>1. (WriteFails => gone' = TRUE /\ (Well => client # "reads")) /\ (Write("last") => ~gone' /\ ~gone /\ sock)
    BY <1>1, <1>2, <1>3, WriteOK DEF Write
  <2> QED
    BY <1>1, <1>2, <2>1 DEF IInv, NumberOK, Well, EndsForCause, streamVars, clientVars
<1> QED
  BY <1>4, <1>5, <1>6, <1>7, <1>8 DEF IInv

LEMMA StepOK == IInv /\ [Next]_vars => IInv'
<1> SUFFICES ASSUME IInv, [Next]_vars
             PROVE  IInv'
  OBVIOUS
<1>1. CASE UNCHANGED vars
  BY <1>1 DEF vars, streamVars, connVars, answerVars, clientVars, IInv, Flags, Counts, Words, Turns, WireOK,
     NumberOK, Open, Well, EndsForCause
<1>2. CASE Next
  BY <1>2, OutsideOK, LoggerOK, WaitOK, HandlerOK, LogFlushOK, StreamHeadOK, ReplayOK, StreamCompleteOK
     DEF Next, LoggerSteps, WorkerSteps
<1> QED
  BY <1>1, <1>2

THEOREM Invariance == Spec => []IInv
BY InitOK, StepOK, PTL DEF Spec

(* TypeOK: the bounds of the waits, lines and unread bytes are kept, for    *)
(* any bounds.                                                             *)
THEOREM TypeCorrect == Spec => []TypeOK
<1>1. IInv => TypeOK
  <2> SUFFICES ASSUME IInv PROVE TypeOK
    OBVIOUS
  <2>1. /\ channel \in BOOLEAN /\ sock \in BOOLEAN /\ gone \in BOOLEAN
        /\ text \in BOOLEAN /\ stop \in BOOLEAN /\ parted \in BOOLEAN
    BY DEF IInv, Flags
  <2> QED
    BY <2>1 DEF IInv, Counts, Words, WireOK, FrameNames, TypeOK
<1> QED
  BY <1>1, Invariance, PTL

(* OneResponse: the logger and the handler never write at the same time,    *)
(* and nothing follows the end of a response, however long the stream is.  *)
THEOREM ResponseCorrect == Spec => []OneResponse
<1>1. IInv => OneResponse
  BY DEF IInv, Flags, Turns, WireOK, NumberOK, Answering, Waiting, OneResponse
<1> QED
  BY <1>1, Invariance, PTL

(* ClosesOwn: neither thread closes a number that is another connection's.  *)
THEOREM CloseCorrect == Spec => []ClosesOwn
<1>1. IInv => ClosesOwn
  BY DEF IInv, NumberOK, ClosesOwn
<1> QED
  BY <1>1, Invariance, PTL

(* EndsForCause: only a stop, a client that leaves, or a record in part     *)
(* ends a stream before its time.                                          *)
THEOREM EndCorrect == Spec => []EndsForCause
<1>1. IInv => EndsForCause
  BY DEF IInv, NumberOK
<1> QED
  BY <1>1, Invariance, PTL

=============================================================================
