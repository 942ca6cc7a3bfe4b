----------------------------- MODULE LogStream ------------------------------
(***************************************************************************)
(* An event stream: wrtlog_handler() of src/src/example/html/wrtlog.c      *)
(* holds its worker in httpserver_stream_wait() while logger_cb(), called  *)
(* in the logger's task, writes each log line to the same connection, and  *)
(* closes the socket when it cannot.                                       *)
(*                                                                         *)
(* The two threads share the HTTP_USER_T without a lock, so that each of   *)
(* their reads of user->socket and user->peer_closed is in a step of its   *)
(* own.  The frames of the response are those of ResponseWriter, without   *)
(* their sizes; the slots of streams are in WServer.                       *)
(***************************************************************************)
EXTENDS Integers, Sequences, SequencesExt

CONSTANTS
  WaitsMax,    (* how many waits of a second a stream may last           *)
  LinesMax,    (* bound: log lines of a stream                           *)
  BytesMax     (* bound: bytes of the client that wait to be read        *)

ASSUME BoundsAssumption == {WaitsMax, LinesMax, BytesMax} \subseteq Nat

VARIABLES
  worker,  (* where the worker is in its handler                         *)
  logger,  (* where the logger's task is in logger_cb()                  *)
  channel, (* the logger has the stream's channel                        *)
  lines,   (* log lines of this stream                                   *)
  sock,    (* user->socket is the connection's number, and not -1        *)
  number,  (* whose that number is: "own", "free" or "other"             *)
  gone,    (* user->peer_closed                                          *)
  text,    (* rw_buffer has text that is not written                     *)
  wire,    (* what was written of the response                           *)
  client,  (* "reads", "stalls" or has "closed"                          *)
  unread,  (* bytes of the client that nobody has read                   *)
  tls,     (* "no", "yes", or "part": the last record has come in part   *)
  waits,   (* the waits that are left                                    *)
  stop,    (* *user->server_close                                        *)
  end,     (* what ended the stream: "no", "stop", "time", "connection"  *)
  parted,  (* a record in part was taken for the end                     *)
  foreign  (* what was done with a number that was not the connection's  *)

connVars == <<sock, number, gone>>
answerVars == <<text, wire>>
clientVars == <<client, unread, tls>>
streamVars == <<channel, lines, waits, end>>
vars == <<worker, logger, streamVars, connVars, answerVars, clientVars, stop, parted, foreign>>

Init ==
  /\ worker = "open" /\ logger = "idle"
  /\ channel = FALSE /\ lines = 0 /\ waits = WaitsMax /\ end = "no"
  /\ sock = TRUE /\ number = "own" /\ gone = FALSE
  /\ text = FALSE /\ wire = <<>>
  /\ client = "reads" /\ unread = 0 /\ tls \in {"no", "yes"}
  /\ stop = FALSE /\ parted = FALSE /\ foreign = {}

WorkerGo(from, to) == worker = from /\ worker' = to /\ UNCHANGED logger
LoggerGo(from, to) == logger = from /\ logger' = to /\ UNCHANGED worker

-----------------------------------------------------------------------------
(* The client, the server's stop, and the next connection.                 *)

ClientLeaves ==
  /\ client = "reads" /\ client' \in {"stalls", "closed"}
  /\ UNCHANGED <<worker, logger, streamVars, connVars, answerVars, unread, tls, stop, parted, foreign>>

ClientSends ==
  /\ client = "reads" /\ unread < BytesMax
  /\ unread' = unread + 1
  /\ tls' \in (IF tls = "no" THEN {"no"} ELSE {"yes", "part"})
  /\ UNCHANGED <<worker, logger, streamVars, connVars, answerVars, client, stop, parted, foreign>>

Stop ==
  /\ ~stop /\ stop' = TRUE
  /\ UNCHANGED <<worker, logger, streamVars, connVars, answerVars, clientVars, parted, foreign>>

(* A closed socket's number may become another connection's. *)
NumberReused ==
  /\ number = "free" /\ number' = "other"
  /\ UNCHANGED <<worker, logger, streamVars, sock, gone, answerVars, clientVars, stop, parted, foreign>>

-----------------------------------------------------------------------------
(* Writing and closing, in either thread.                                  *)

(* httpserver_write() fails when the connection is known to have ended, or  *)
(* the client does not read in time.                                       *)
Write(frame) ==
  /\ ~gone /\ sock
  /\ wire' = Append(wire, frame) /\ UNCHANGED gone
WriteFails ==
  /\ gone \/ ~sock \/ client # "reads"
  /\ wire' = (IF gone \/ ~sock THEN wire ELSE Append(wire, "cut"))
  /\ gone' = TRUE

(* closesocket (user->socket). *)
CloseNumber ==
  /\ number' = (IF number = "own" THEN "free" ELSE number)
  /\ foreign' = (IF number = "own" THEN foreign ELSE foreign \cup {"close"})

-----------------------------------------------------------------------------
(* logger_cb().                                                            *)

(* The channel's callback, for a line when the connection is well. *)
LogLine ==
  /\ channel /\ lines < LinesMax
  /\ LoggerGo("idle", IF sock /\ ~gone THEN "append" ELSE "idle")
  /\ lines' = lines + 1
  /\ UNCHANGED <<channel, waits, end, connVars, answerVars, clientVars, stop, parted, foreign>>

LogAppend ==
  /\ LoggerGo("append", "flush")
  /\ text' = TRUE
  /\ UNCHANGED <<streamVars, connVars, wire, clientVars, stop, parted, foreign>>

LogFlush ==
  /\ \/ LoggerGo("flush", "idle") /\ Write("chunk")
     \/ LoggerGo("flush", "abort") /\ WriteFails
  /\ text' = FALSE
  /\ UNCHANGED <<streamVars, sock, number, clientVars, stop, parted, foreign>>

(* httpserver_user_abort() closes the socket, and then forgets its number. *)
LogAbort ==
  /\ LoggerGo("abort", IF sock THEN "clear" ELSE "idle")
  /\ gone' = TRUE
  /\ IF sock THEN CloseNumber ELSE UNCHANGED <<number, foreign>>
  /\ UNCHANGED <<streamVars, sock, answerVars, clientVars, stop, parted>>

(* Mutant of LogClear: the number is not forgotten. *)
LogClearNothing ==
  /\ LoggerGo("clear", "idle")
  /\ UNCHANGED <<streamVars, connVars, answerVars, clientVars, stop, parted, foreign>>

LogClear ==
  /\ LoggerGo("clear", "idle")
  /\ sock' = FALSE
  /\ UNCHANGED <<streamVars, number, gone, answerVars, clientVars, stop, parted, foreign>>

-----------------------------------------------------------------------------
(* wrtlog_handler(), before and after it waits.                            *)

StreamHead ==
  /\ \/ WorkerGo("open", "replay") /\ Write("head")
     \/ WorkerGo("open", "close") /\ WriteFails
  /\ UNCHANGED <<streamVars, sock, number, text, clientVars, stop, parted, foreign>>

(* Soon after a reset the log so far is sent first; nobody looks at what   *)
(* these appends and the flush return.                                     *)
ReplayLine ==
  /\ WorkerGo("replay", "replay") /\ lines < LinesMax
  /\ lines' = lines + 1
  /\ \/ text' = TRUE /\ UNCHANGED <<wire, gone>>
     \/ text /\ Write("chunk") /\ text' = TRUE
     \/ text /\ WriteFails /\ text' = FALSE
  /\ UNCHANGED <<channel, waits, end, sock, number, clientVars, stop, parted, foreign>>

ReplayFlush ==
  /\ WorkerGo("replay", "add")
  /\ \/ ~text /\ UNCHANGED <<wire, gone>>
     \/ text /\ (Write("chunk") \/ WriteFails)
  /\ text' = FALSE
  /\ UNCHANGED <<streamVars, sock, number, clientVars, stop, parted, foreign>>

ChannelAdd ==
  /\ WorkerGo("add", "wait")
  /\ channel' = TRUE /\ lines' = 0
  /\ UNCHANGED <<waits, end, connVars, answerVars, clientVars, stop, parted, foreign>>

(* Mutant of ChannelRemove: the response is ended with the channel open. *)
ChannelRemoveLate ==
  /\ WorkerGo("remove", IF sock /\ ~gone THEN "complete" ELSE "close")
  /\ UNCHANGED <<streamVars, connVars, answerVars, clientVars, stop, parted, foreign>>

(* svc_logger_channel_remove() comes back when the callback is not running; *)
(* the handler relies on that, for the channel is on its stack.            *)
ChannelRemove ==
  /\ WorkerGo("remove", IF sock /\ ~gone THEN "complete" ELSE "close") /\ logger = "idle"
  /\ channel' = FALSE
  /\ UNCHANGED <<lines, waits, end, connVars, answerVars, clientVars, stop, parted, foreign>>

StreamComplete ==
  /\ \/ \E next \in {"kept", "close"} : WorkerGo("complete", next) /\ Write("last")
     \/ WorkerGo("complete", "close") /\ WriteFails
  /\ UNCHANGED <<streamVars, sock, number, text, clientVars, stop, parted, foreign>>

(* httpserver_user_close(). *)
Close ==
  /\ WorkerGo("close", "done")
  /\ IF sock THEN CloseNumber ELSE UNCHANGED <<number, foreign>>
  /\ sock' = FALSE
  /\ UNCHANGED <<streamVars, gone, answerVars, clientVars, stop, parted>>

(* A kept connection asks for the stream again, or is closed.  A worker    *)
(* that is done is given another one, by a server that may be a new one.   *)
Again ==
  /\ \/ WorkerGo("kept", "open") /\ ~stop /\ UNCHANGED <<connVars, clientVars, stop>>
     \/ /\ WorkerGo("done", "open")
        /\ sock' = TRUE /\ number' = "own" /\ gone' = FALSE
        /\ client' = "reads" /\ unread' = 0 /\ tls' \in {"no", "yes"} /\ stop' = FALSE
  /\ lines' = 0 /\ waits' = WaitsMax /\ end' = "no" /\ wire' = <<>> /\ parted' = FALSE
  /\ UNCHANGED <<logger, channel, text, foreign>>

KeptEnds ==
  /\ WorkerGo("kept", "close")
  /\ UNCHANGED <<streamVars, connVars, answerVars, clientVars, stop, parted, foreign>>

-----------------------------------------------------------------------------
(* httpserver_stream_wait().                                               *)

Ends(why) == worker' = "remove" /\ end' = why

(* Mutant of WaitBegins: only a stop ends the stream. *)
WaitBeginsUntimed ==
  /\ worker = "wait"
  /\ \/ stop /\ Ends("stop")
     \/ ~stop /\ worker' = "check" /\ UNCHANGED end
  /\ UNCHANGED <<logger, channel, lines, waits, connVars, answerVars, clientVars, stop, parted, foreign>>

(* Mutant of WaitBegins: the stop is not looked at. *)
WaitBeginsAnyhow ==
  /\ worker = "wait"
  /\ \/ waits = 0 /\ Ends("time")
     \/ waits > 0 /\ worker' = "check" /\ UNCHANGED end
  /\ UNCHANGED <<logger, channel, lines, waits, connVars, answerVars, clientVars, stop, parted, foreign>>

WaitBegins ==
  /\ worker = "wait"
  /\ \/ waits = 0 /\ Ends("time")
     \/ waits > 0 /\ stop /\ Ends("stop")
     \/ waits > 0 /\ ~stop /\ worker' = "check" /\ UNCHANGED end
  /\ UNCHANGED <<logger, channel, lines, waits, connVars, answerVars, clientVars, stop, parted, foreign>>

(* httpserver_wait_read() looks at the connection before it waits. *)
WaitCheck ==
  /\ worker = "check"
  /\ \/ sock /\ ~gone /\ worker' = "select" /\ UNCHANGED end
     \/ ~(sock /\ ~gone) /\ Ends("connection")
  /\ UNCHANGED <<logger, channel, lines, waits, connVars, answerVars, clientVars, stop, parted, foreign>>

(* select() on the number, or on -1 when it has been forgotten since: that  *)
(* is undefined, and so is a number that was closed.                       *)
Own == sock /\ number = "own"
Readable == unread > 0 \/ client = "closed"

(* Mutant of WaitPasses: a second without data ends the stream. *)
WaitPassesOnce ==
  /\ worker = "select" /\ (Own => ~Readable)
  /\ Ends("connection")
  /\ UNCHANGED <<logger, channel, lines, waits, connVars, answerVars, clientVars, stop, parted, foreign>>

(* A second without data.  How many of them a stream lasts is not said.    *)
WaitPasses ==
  /\ worker = "select" /\ (Own => ~Readable)
  /\ worker' = "wait" /\ waits' \in {waits, waits - 1}
  /\ UNCHANGED <<logger, channel, lines, end, connVars, answerVars, clientVars, stop, parted, foreign>>

WaitReads ==
  /\ worker = "select" /\ (Own => Readable)
  /\ worker' = "read"
  /\ UNCHANGED <<logger, streamVars, connVars, answerVars, clientVars, stop, parted, foreign>>

(* httpserver_read() looks again, without waiting. *)
ReadCheck ==
  /\ worker = "read"
  /\ \/ sock /\ ~gone /\ worker' = "recv" /\ UNCHANGED <<end, gone>>
     \/ ~(sock /\ ~gone) /\ Ends("connection") /\ gone' = TRUE
  /\ UNCHANGED <<logger, channel, lines, waits, sock, number, answerVars, clientVars, stop, parted, foreign>>

(* Takes one byte and forgets it. *)
ReadByte ==
  /\ worker = "recv" /\ Own /\ unread > 0 /\ tls # "part"
  /\ unread' = unread - 1
  /\ IF gone THEN Ends("connection") ELSE worker' = "wait" /\ UNCHANGED end
  /\ UNCHANGED <<logger, channel, lines, waits, connVars, answerVars, client, tls, stop, parted, foreign>>

(* A record of which only a part has come gives no byte: the read times    *)
(* out at once, and httpserver_wait_close() takes that for the end.        *)
ReadPart ==
  /\ worker = "recv" /\ Own /\ unread > 0 /\ tls = "part"
  /\ worker' = "wait" /\ gone' = TRUE /\ parted' = TRUE
  /\ UNCHANGED <<logger, streamVars, sock, number, answerVars, clientVars, stop, foreign>>

(* The client's end, or a socket that is closed or forgotten.  A timeout's  *)
(* code is also that of a reset, for which it is waited for once more.     *)
ReadFails ==
  /\ worker = "recv"
  /\ \/ Own /\ unread = 0 /\ client = "closed"
     \/ ~sock \/ number = "free"
  /\ gone' = TRUE
  /\ Ends("connection") \/ (worker' = "wait" /\ UNCHANGED end)
  /\ UNCHANGED <<logger, channel, lines, waits, sock, number, answerVars, clientVars, stop, parted, foreign>>

(* The number is another connection's by now, of which select() said       *)
(* nothing: recv() waits for its client, without a timeout,                *)
RecvOther ==
  /\ worker = "recv" /\ sock /\ number = "other"
  /\ worker' = "blocked"
  /\ UNCHANGED <<logger, streamVars, connVars, answerVars, clientVars, stop, parted, foreign>>

(* and takes a byte of it, or meets its end, if that ever comes. *)
ReadOther ==
  /\ worker = "blocked"
  /\ foreign' = foreign \cup {"read"}
  /\ Ends("connection")
  /\ UNCHANGED <<logger, channel, lines, waits, connVars, answerVars, clientVars, stop, parted>>

-----------------------------------------------------------------------------
Outside == ClientLeaves \/ ClientSends \/ Stop \/ NumberReused
LoggerSteps == LogAppend \/ LogFlush \/ LogAbort \/ LogClear
WaitSteps ==
  \/ WaitBegins \/ WaitCheck \/ WaitPasses \/ WaitReads
  \/ ReadCheck \/ ReadByte \/ ReadPart \/ ReadFails \/ RecvOther
WorkerSteps ==
  \/ StreamHead \/ ReplayFlush \/ ChannelAdd \/ WaitSteps
  \/ ChannelRemove \/ StreamComplete \/ Close

Next == Outside \/ LogLine \/ LoggerSteps \/ WorkerSteps \/ ReplayLine \/ Again \/ KeptEnds \/ ReadOther

(* Each wait and each write has a timeout, and the replay has as many lines *)
(* as the log.  Nothing is asked of the client, of the log or of a stop, nor  *)
(* of another connection's client, so that ReadOther may never happen.     *)
Spec == Init /\ [][Next]_vars /\ WF_vars(WorkerSteps) /\ WF_vars(LoggerSteps)

-----------------------------------------------------------------------------
(* Properties.                                                             *)

Waiting == {"wait", "check", "select", "read", "recv", "blocked", "remove"}

(* Every variable keeps its type, and the logger writes only while the      *)
(* handler waits.                                                          *)
TypeOK ==
  /\ worker \in Waiting \cup {"open", "replay", "add", "complete", "kept", "close", "done"}
  /\ logger \in {"idle", "append", "flush", "abort", "clear"}
  /\ channel \in BOOLEAN /\ lines \in 0..LinesMax /\ waits \in 0..WaitsMax
  /\ sock \in BOOLEAN /\ number \in {"own", "free", "other"} /\ gone \in BOOLEAN
  /\ text \in BOOLEAN /\ wire \in Seq({"head", "chunk", "last", "cut"})
  /\ client \in {"reads", "stalls", "closed"} /\ unread \in 0..BytesMax
  /\ tls \in {"no", "yes", "part"} /\ stop \in BOOLEAN /\ parted \in BOOLEAN
  /\ end \in {"no", "stop", "time", "connection"} /\ foreign \subseteq {"close", "read"}

(* Two threads write one response: the logger is never at it when the       *)
(* handler is, nothing follows the last chunk or a cut, no text is left in  *)
(* the buffer, and a connection is kept only behind a last chunk.          *)
OneResponse ==
  /\ logger # "idle" => worker \in Waiting
  /\ \A k \in DOMAIN wire : wire[k] \in {"last", "cut"} => k = Len(wire)
  /\ worker = "kept" => ~text /\ wire[1] = "head" /\ wire[Len(wire)] = "last"

(* Each thread may close the connection: a number is closed only while it   *)
(* is this connection's.                                                   *)
ClosesOwn == "close" \notin foreign

(* A stream ends early for a stop, or because the client has closed the     *)
(* connection or does not read.  (A TLS record that comes in parts ends it  *)
(* too.)                                                                   *)
EndsForCause ==
  /\ end = "stop" => stop
  /\ end = "connection" => client # "reads" \/ parted

(* A stop, a client that closes, or a failed write ends the stream, unless   *)
(* the worker waits for another connection's client: its number was closed *)
(* and used again between its look at the socket and its read.             *)
StreamEnds ==
  (worker \in Waiting /\ (stop \/ gone \/ client = "closed")) ~> (worker \in {"kept", "done", "blocked"})

=============================================================================
