# A TLA+ model of qoraal-http

qoraal-http is an HTTP server, an HTTP client and a web API for small devices,
written in C over BSD sockets (lwIP, Zephyr, POSIX) and mbedTLS.  This directory
models its protocol and concurrency logic in TLA+, checks the models with TLC on
small instances, and proves the properties that matter most with TLAPS for every
value of the constants.  `PROJECT.json` lists the parts, the runs, the code lines
behind each definition, the hazards and the theorems.

## 1. Inventory

**The multithreaded web server** (`src/src/wserver_m.c`).
State: the instance (`close`, `count_sem`, `running`, `ssl`, `handlers`), one
`HTTPSERVER_THREAD_T` per connection, and each worker's `timeout` and
`keep_alive`.  Operations: create, run, stop, destroy, the worker
`_wserver_thread()` and its completion callback.  The thread in `run()` accepts a
connection, waits up to two seconds for a slot of `count_sem`, and starts a
worker; the worker serves requests until the connection is not kept, falls silent
or breaks, or the server stops, and gives back its slot; its memory is freed by
the completion callback, later, on another thread.  `stop()` may be called by any
thread.  Correct when: no slot is lost or doubled, the drain waits for every
worker, kept connections and event streams never use the pool up, and a stop ends
the server whatever clients do.

**Event streams** (`httpserver_stream_open/close/wait` in `src/src/httpserver.c`,
`src/src/example/html/wrtlog.c`).  State: a global counter of open streams, the
connection, the logger's channel.  A stream holds its worker up to 15 minutes while
the logger's thread writes log lines into the same connection, and closes its
socket when a write fails.  Correct when: the counter is the number of streams, one
worker is left for requests, and no thread uses a socket that another has closed.

**Requests on a server connection** (`src/src/httpserver.c`).  State: `rw_buffer`,
`pending` bytes of a pipelined request, the `reader` of a body.  Correct when: every
request begins where the last one's body ended, however the network cuts the bytes
and whatever the handler read.

**The chunked response writer** (`httpserver_chunked_*`).  State: one buffer with
room for a chunk's head and tail.  Correct when: what is written is what was
appended, in order, and the buffer is never overrun.

**The HTTP client's response reader** (`httpclient_read_*` in
`src/src/httpclient.c`).  State: `read_buffer` with `read_start` and `read_end`,
`body_state`, `body_left`, `body_error`.  The caller pulls the body part by part, may
be told of a timeout anywhere and call again.  Correct when: what it delivers is the
body, whole and nothing else, however the network cuts the bytes, and a damaged or
cut body never passes for a whole one.

**The client's connection and requests** (`httpclient.c`) and **downloads**
(`src/src/httpdwnld.c`).  State: socket, TLS context, buffers, the remembered send
timeout; statics with the last host and port.  Sequential code over the reader, with
timeouts, partial writes, a cancel flag of another thread and a memory limit.  Correct
when: a download that succeeds is whole, whatever fails gives everything back, and the
request goes where its URL says.

**The WebSocket client** (`httpclient.c`).  State: the place in the stream of frames, the
payload that the caller owns, the flags of the close.  Correct when: payloads arrive once
and in order, none leaks, and the closing handshake has one frame each way.

**TLS configuration** (`src/src/mbedtls/mbedtlsutils.c`): one configuration for the
client and one for the server, made on first use under a mutex; the server's is
released by whoever closes a listening socket.

**The web API** (`src/src/httpwebapi.c`): lists of resources and properties, two
passes (size, then render) over data that may change between them.  Correct when: a
response is whole or refused, and a post applies data before actions and says truly
whether it applied all.

**The rest**: parsing helpers (`httpparse.c`, pure string functions), name resolution
(one call of the IP stack), the shell commands, example pages, vendored JSON parsers.

How they interact: `wserver_m.c` calls `httpserver.c` for everything on a
connection; handlers run on the worker's thread and call `httpserver.c` to read and
write; `httpserver.c` calls mbedTLS with the configuration of `mbedtlsutils.c`; the
logger calls `wrtlog.c` on its own thread; a download calls the client and is called
back with each part.

## 2. Modules

In order of importance:

| Module | Models | Composes or refines | Proofs |
|---|---|---|---|
| `WorkerPool` | what the web server promises its caller | abstract | |
| `WServer` | `wserver_m.c`, with the stream slots and TLS configuration it shares | implements `WorkerPool` | `WServerProofs` |
| `HttpReply` | what the bytes of a whole reply mean | reference, pure | |
| `HttpClient` | the client's response reader | comes to the conclusions of `HttpReply` | `HttpClientProofs` |
| `HttpRequest` | requests and bodies on a server connection, pipelining | serves what `Requests` says of the same bytes | `HttpRequestProofs` |
| `ResponseWriter` | what a worker and its handlers write, the chunk buffer | | `ResponseWriterProofs` |
| `LogStream` | worker and logger on one connection | frames as in `ResponseWriter`, slots in `WServer` | `LogStreamProofs` |
| `WebSocket` | upgrade, frame decoder and close handshake of the client | | `WebSocketProofs` |
| `Download` | connect, request and close; downloads with cancel | uses the outcomes of `HttpClient` | `DownloadProofs` |
| `WebApi` | descriptions, responses and posts of several workers | | `WebApiProofs` |

`MC<module>` gives a module its instance for TLC; `LogStream` needs none.

Every property of every passing run has, under "mutants", a slip that a change of the
code could make and that breaks it; the slip stands in the module next to what it
changes.

Every safety invariant and every action property of every run is proved.
Liveness stays with TLC, because TLAPS does not treat fairness.

Several properties compare the code with a fold or with a recursive function over sequences
of any length.  The library's induction theorems take an operator as a parameter, which the
provers cannot instantiate; the proofs take the least element of a set of naturals instead.
`NatMin` (from `WFMin` and `NatLessThanWellFounded`, which have sets as parameters) gives
it, and `NatInd`, the induction over a set of naturals, follows.  With it one shows that a
function with the equations of the definition exists and is the only one, and from then on
the equations are all that is used.

## 3. The web server: `WServer`

`main` is the place of the thread in `run()`, `worker[c]` the place of connection
c's thread in `_wserver_thread()` (a connection and its `HTTPSERVER_THREAD_T` are
one), `close`, `sem`, `running` and `ssl` the fields of the instance, `streams` the
counter of `httpserver.c`, `tlsConf` whether the server's TLS configuration is
loaded, `ctrl` whether the handlers were told to start, `keep[c]`, `ticks[c]` and
`open` the connection's `keep_alive`, its worker's `timeout` in reads of 500 ms, and
whether its socket is open.

An action is what a thread does between two points where another can see or change
shared state: reading `close` (187, 196, 507, 539, 557), taking or giving a slot
(559, 577, 379), changing `running` (565, 575, 412), deciding keep-alive (237),
and the stream counter.  `AbandonConnection` keeps the socket open, as the code
does (600-602).  `ReadNothing`, `ReadEnds` and `ReadRequest` are the outcomes of
`httpserver_read_request_ex()`, `Refuse`, `NotFound`, `RunHandler` and `HandlerDone`
those of authentication and handler.  The second half of `StreamEnds` is the handler
giving up the connection.

What is left open: which handler a request selects and what it answers (a choice),
how long waits take (a timeout may come whenever its condition holds), how long
connections are (any number of requests).  The running server is not run a second
time without being made anew, as the service wrapper has it
(`src/test/common/services/wserver_inst.c:281-288`), and `Stop` is not called on a
freed instance; the wrapper itself does not prevent that (its line 283 leaves the pointer).
`accept()` is taken to return once `select()` reported the listening socket ready,
as the comment at `httpserver.c:388-392` has it.

### Runs

| Run | Instance | Shows |
|---|---|---|
| `server_safety` | 4 connections, 3 slots, 2 streams, keep-alive of 2 reads | `SlotsAccounted`, `RunningAccounted`, `KeptLeaveRoom`, `StreamsLeaveWorker`, `DrainedBeforeStop` |
| `server_live` | 2 connections, 3 slots, 1 stream | `PoolSpec` (implements `WorkerPool`), `StopEnds`, `SilenceEnds` |
| `server_stop_kept` | as `server_live` | a stop before `run()` is forgotten |
| `server_drain_ends` | as `server_live` | a drain after a failed allocation waits for clients |
| `server_tls_config` | as `server_live` | the TLS configuration is released before its workers are drained |

Bounds: with three slots one connection may be kept and two may not, with four
connections one is turned away (`SlotTimesOut`), and a worker that has given back
its slot lives next to three that hold one.  Two streams next to three slots reach
the limit that leaves one worker.  The connections are interchangeable, so the
safety run uses their symmetry.  Nothing is capped: every counter is bounded by the
slots and the connections.

Fairness: every thread of the server keeps running (`WF` of what the thread in
`run()` does by itself, and of each worker).  The code's waits all have a timeout:
500 ms for a read, 1 s in a stream, 2 s for a slot, 5 s for a handshake, and a stream
ends after 15 minutes.  That a handler returns is an assumption about handlers.
Nothing is assumed of clients: accepting a connection has no fairness and what a
read finds is a choice.

What the violation runs show is a difference between the code and its own comments,
recorded under "findings".  One more finding needs no run: the socket that
`AbandonConnection` leaves open.

### Proofs: `WServerProofs`

The safety properties of `server_safety` are proved for any finite set of
connections, any number of slots and streams (fewer than the slots) and any
timeouts.  The inductive invariant `IInv` adds to them what each step needs to know:

* `InHand`: what connection the thread in `run()` holds at each of its places, so
  that its steps move a worker from a known place;
* `TimeLeft`: a worker about to read has at least one read left, so that the
  countdown stays a natural number;
* `Fresh`: only a worker that read a request has `keep` set, so that a new one does
  not count as kept;
* `CtrlStarted`: handlers are started wherever workers may live.

`KeptLeaveRoom` is the subtle one.  It is decided on `sem >= 2`, a count that changes
right afterwards.  At the decision the worker holds a slot and two are free, so at most
`ThreadMax - 2` connections can be kept, this one included; later steps take
slots from the free ones but never add a kept connection.

The steps are grouped by what they disturb (`QuietStep` moves a worker between two
places that count alike, `MainStep` moves only the accept thread, and so on); the
lemma `MoveCount` says how moving one connection changes the number of connections
in a set of places, and `Counts` applies it to slots, workers and streams.

`WServerProofs` then proves from `IInv` that each step of the server is a step of
`WorkerPool` or leaves the pool as it is (`ImplementsPool`).  Most steps move a
worker among the places that hold a slot.  `TakeSlot` is `Admit`: that the pool has
room then is `SlotsAccounted`.  `Drained` is `Finish`: that no worker is live then is
`RunningAccounted`.  `SpawnFails` is `Leave`, of a worker that never ran.

Only model-checked: liveness (`StopEnds`, `SilenceEnds`).

## 4. The client's response reader: `HttpReply` and `HttpClient`

`HttpReply` says what the bytes of a reply mean when they are all there: which are
the body, and whether the reply is whole (`end`), cut, or refused with `HEADER`,
`CONTENT` or `LENGTH`.  It is written from RFC 9112 and the limits that the client
documents, as one recursive function over the places of a chunked body.  It models no
code; it is what `HttpClient` is measured by.

`HttpClient` is the reader itself.  The fields of `HTTP_CLIENT_T` are variables:
`buf`, `start`, `end` (`read_buffer`, `read_start`, `read_end`), `state`, `left`,
`error` (`body_state`, `body_left`, `body_error`).  `limit` and `scanned` are the
locals of `httpclient_read_head()`, `size` the allocation of
`httpclient_read_response()`.  `reply` is what the server sends, `sent` how much of it
has arrived, `ended` whether its close or reset has, `got` how much the client took.
`buf` holds places in the reply instead of bytes, so that `parts`, what the caller was
given, shows a byte given twice, lost or moved.

One action is one turn of a loop: `HeadBad`, `HeadInterim`, `HeadTooLong`, `HeadMore`,
`HeadCut`, `HeadFinal`, `HeadRefused` of `httpclient_read_head()` and the framing after
it; `NextOver`, `NextMore`, `NextCut`, `NextPart`, `NextSize`, `NextChunkEnd`,
`NextTrailer` of `httpclient_read_next_ex()` with `httpclient_read_line()`; `Alloc` and
`Taken` of `httpclient_read_response()`, which runs the same loop with `whole` set.
Between any two of them more bytes may `Arrive`.  `Nothing(why)` is a read that brings
no bytes: a full buffer, a timeout, a clean close, a broken connection, an exception that
`select()` reports (`"urgent"` data behind the reply), or a failure of `select()` or
mbedTLS (`Breaks`).

What is abstracted: bytes are classes.  A head is a run of `"h"` with a last byte that
says whether it is interim, final or not allowed, so that the CRLFs inside it are not
spelled out; what its fields announce is a choice of the reply (`framing`, `length`).
Hexadecimal digits are three, and `";"` is whatever may follow a size.

What is left out: a caller that starts a second response on the same connection
(`ReadResponse` is enabled once per connection).  `Reconnect` lets a client whose last
response left `body_left` and `body_error` behind read another.

### Run `client_reader`

* `PartsAreBody`, `EndIsReplys`: at every moment the caller holds a beginning of the
  body, and the reader says `DONE` or an error only when the whole reply says so.
* `ResponseFits`: the growing allocation always holds what is copied into it.
* `EndIsFinal`: no read goes past an announced body, and an end or an error stays,
  whatever is asked afterwards.
* `WaitsOnlyWhenCut`: the reader waits for the network only while the bytes that
  have arrived do not yet decide the reply.
* `CallReturns`: every call returns once the server sends no more.  That replies are
  finite is part of it: `httpclient_read_next_ex()` skips the lines of a trailer without a limit
  on their number, each with its own timeout (a finding).

Bounds (`HttpClient.cfg`, `MCHttpClient`): a buffer of 5 bytes is compacted inside a
chunked body of 13 and is just filled, or overfilled, by a line; heads of 4 bytes
fit or do not, alone or after an interim one; an announced length of 4 exceeds the
response's limit of 3, which an allocation of 1 reaches in more than one way.  The replies
are the heads with every framing, bodies shorter and longer than announced, one rich
chunked body (an extension, CR and LF as data, a trailer, bare LFs) cut at every byte,
and one chunked body for every rule it may break.  Each arrives in every possible cutting,
with a timeout, a failure or a close at any place.

Fairness: the client goes on within a call (`WF` of `Client`), because every wait has a
timeout.  `Breaks` gets none, so that no call ends by a failure alone; nor do the
network and the caller.

### Proofs: `HttpClientProofs`

All safety and action properties of the run, for any replies, any limits that the
code's assumptions allow, and any way in which the bytes arrive.  They follow from
two invariants.

`Types` says what each place in the code leaves in the variables.  Its heart is `Holds`: the
unread bytes of the buffer are the last ones that were taken, in their order, so that a
compaction neither loses nor moves one.

`Means` says what they mean.  What a reply means is a recursive function of all of its
bytes, of which the reader has seen a beginning; so `BodySays` speaks of every reply `w`
that begins with the bytes taken so far (`Seen`): its body is `parts`, followed by what the
reader's place, state and count say of the rest of `w` (`LeftAt`), and its verdict is that
of the rest.  `HeadSays` says the same while the head is being read, `DoneSays` and
`ErrorSays` that an end or an error was the reply's own, `ReturnSays` what a call may have
returned. To quantify over all continuations and not only over the reply itself is what
makes `WaitsOnlyWhenCut` follow: the bytes that have arrived, with the connection still
open, are such a continuation, and the verdict of what is left of it is `cut`.

The lemmas in between:

* `FoldIsHex`, `ChunkSizeIs`: the number that the code adds up digit by digit is the one that
  `HttpReply` defines, and a line is refused by the one with the error of the other;
* `RestIs`: the recursive function unfolds, one line or one chunk at a time;
* `LinesAgree`: the line that the code finds in its buffer is the one that begins at that
  place in the reply;
* `NothingLeft`, `FullIsTooLong`: a reader that finds no line has the rest cut, or one
  that is too long;
* `LengthPart`, `DataPart`, `ClosePart`: a part handed out is the beginning of what was
  left, and `Goes` composes such a step with what follows;
* `LengthBound`: a read of an announced body stays within it.

Only model-checked: `CallReturns` (liveness).

## 5. Requests on a server connection: `HttpRequest`

One connection after the other, as the worker and its handlers read them.  `buf`,
`pending`, `reader` and `keep` are `rw_buffer`, `pending`, `reader` and `keep_alive` of
`HTTP_USER_T`, `gone` is `peer_closed`; `fill` and `line` are locals of the loops.
`client` is what the client sends and how its connection ends, `sent`, `ended`, `got`
what of it has arrived and what was taken.  As in `HttpClient` the buffer holds places
instead of bytes, so that a byte of one request that turns up in another is seen.

`ReadRequest` begins `httpserver_read_request_ex()`, which brings back what is `pending`;
`HeadMore`, `HeadTooLong`, `HeadDone`, `HeadRefused`, `HeadTimesOut` and `HeadCut` are the
turns of its loop.  `ReadContent` begins `httpserver_read_content_ex()` and
`ReadAllContent` the loop that calls it until the end (`all`).  `ContentPayload` hands out
what came with the head, `ReadBody` reads a body of an announced length, and `TakeByte`,
`SizeLine`, `TrailerLine`, `TrailerEnds`, `DataMore`, `DataDone`, `Newline` and
`LineTooLong` read a chunked one; `ChunkSize` is what `strtoul()` makes of a line (`Long`
values) and `SizeLine` what is left of that in `chunk_left` (`Word` values).  `HeadOdd` is a
head in which `httpparse_headers()` does not find the end, and `HeadForgets` one whose
Content-Length `alloc_headers()` had no memory for.  `Answered` is the handler's return and
`httpserver_free_request()`; `HandlerFails` and `GiveUp` give the connection up.

`Requests` and `ChunksFrom` say what the same bytes mean when they are read all at once;
they model no code.

Run `server_request`:

* `ServesWhatIsAsked`: the requests that are served are the client's, in order, and a
  handler is given its own request's body;
* `NothingLost`: between two requests every byte behind the last one is kept;
* `EndIsBodys`: the end of a body, and the errors, are reported only when they are true;
* `ReadReturns`: every read returns once the client sends no more.  The wires are finite, and
  that is part of what the property says: the loop over a trailer's lines (httpserver.c 1271)
  has no limit, so that a client that goes on sending them keeps the call (a finding).

Bounds: a buffer of 8 bytes, so that heads and pipelined requests just fit it or do not;
lines of 5 bytes with their ends, which is what the longest size needs; bodies of up to 3,
and one chunk of 16 for a size of two digits.  An unsigned long has 512 values and
`chunk_left` 32, so that sizes of two and three digits are just too wide, lose their upper
half, or lose everything. The pipelines contain bodies that look like requests and like ends
of lines, one chunked body for every rule it may break, and one for every thing that
`strtoul()` takes and a size is not (blanks, signs, `0x`, a NUL); by the reading of RFC 9112
that the properties use these are malformed, and so are blanks before an extension.  Two of
the pipelines are cut at every byte, with a close or a reset, plain or over TLS.  Every
cutting by the network is explored.

Fairness: a reader goes on within a call, because every wait has a timeout.

The properties end at a few places, all findings, that ghost variables remember.  `strayed`:
chunks were left unread, by a handler or by the worker itself with a 401 or a 404, so that the
next request begins inside the body; or a handler has read on after an error within chunks,
which none of the repository does; or a length was forgotten for want of memory.  `misled`: a
line was taken for a size that it does not say (an empty one for the end of the body, a
malformed or a too wide one for another size), or the parser did not find the end of the head;
`ServesWhatIsAsked` checks that only a client that sent such a line or head leads to it.
`EndIsBodys` names one more exception: a body of an announced length that a
plain connection cuts looks whole.  The model goes on behind all of them, so that `TypeOK` and
`ReadReturns` hold there too.  `strays`, in `Clients`, is a bound for TLC and says on which
connections a handler may stray: the pipelines of up to 16 bytes and a body without its last
chunk; the theorems hold for every choice.

### Proofs: `HttpRequestProofs`

`TypeOK`, `ServesWhatIsAsked`, `NothingLost` and `EndIsBodys` without a hypothesis, for any
sizes of the buffer, the line and the contents, any clients, any handlers, and any way in
which the bytes arrive.  The inductive invariant is `Types /\ (strayed \/ Means)`: a
connection that has strayed ends before `Means` is asked of the next (`StrayedStep`), where
`NextConnection` makes it true again.

`Types` says what each place in the code leaves in the variables.  Its heart is `Layout`: the
bytes that were taken from the socket and not yet used lie one behind the other from place
`From` on, first those that the call has put at the buffer's start, then the line, then the
payload that came with a head, then the pending ones, and the last is `got`.  Whatever a step
moves from one of these to another, it only moves `From` when bytes are used; a lemma for each
move (`LayReceive`, `LayHeadDone`, ...) says so without the rest of the state.

`Means` says what these bytes mean.

* `RequestOK`: between requests the next one of the client begins at `From` (`NextIs`); within
  one, the request at hand is the one of its number (`Turn`), and its body is `parts` followed
  by what is left at `From` (`Left`, `Follows`).  What is left is read by the same functions
  as the whole, from the place, state and count of the reader.  When the request is freed and
  the connection kept, nothing is left, and `From` is the place behind it.
* `GoneOK`: when no more comes, nothing is left of what came.  A reset may take bytes with
  it, so that a body read on would have a hole in it; this is why it cannot be.
* `KeepOK`: a connection kept behind chunks has no byte of the next request, which would be
  lost.
* `LineSays`: no line ends before the one that the worker is reading.
* `ResultSays`: what the last read told the handler is true of the request.

The lemmas in between: `NatInd`, `ReadOfIs` and `RequestsOfIs` show that the recursive
readings exist and have their equations, `ChunksType` and `RestFromType` what they return;
`SizeInIs` and `SizeSays` that the size which the code finds in a line is that of the
reading, or the line is one that misleads; `LeftAlways`, an invariant of its own, that what
is left of a chunk fits its counter; `LengthGoesOn`, `DataGoesOn` and `DataEnds` that a part
handed out is the beginning of what was left; `LineEndsAt`, `LineGoesOn` and `LineIsLong`
that the code's line is the one that begins at `From`; `HeadHere` that the head it finds is;
`TurnBegins`, `TurnEnds` and `TurnIsLast` lead from one request to the next.

Only model-checked: `ReadReturns` (liveness).

## 6. Responses: `ResponseWriter`

`idx` and `size` are `write_idx` and `send_bytes`, `top` is the highest byte of `rw_buffer`
that was written, `wire` the frames that went out, `taken` what the calls took from the
handler.  Text is counted.  `WriteResponse` with `WriteContent` is
`httpserver_write_response()`; `ChunkedResponse`, `AppendFmt`, `AppendStr` with
`AppendPiece`, `ChunkedFlush` and `ChunkedComplete` are the calls of the same names. `Fill`
is `_chunked_alloc()` and `_chunked_commit()`, `Flush` the reset in `_chunked_flush()`.  A
write may fail whenever it is tried, with any part of its frames written.  A handler may
ignore any failure; `HandlerFails` is one that does not, or that fails by itself, and
`ErrorMisread` the one of `wnlog.c` (lines 346 and 352) that returns an error of the head,
of the text or of the method as a success: the response has then no end, and what is left in
`send_bytes` is counted to the next response's first chunk.  The history variable `misread`
counts these errors of a connection; no guard but the bound `MisreadsMax` reads it.

Run `server_writer`:

* `FramesAgree`: no chunk is empty, nothing follows the last chunk or a cut, and as long as
  `misread` is 0 a chunk has the bytes that it says;
* `NothingLost`: as long as `misread` is 0, as many bytes as were taken are on the wire and
  in the buffer, and a connection is used again only behind a whole response;
* `WriteReturns`: every append returns; this needs the loop's fairness, which the write
  timeout gives.

Bounds: a buffer of 48 bytes with the code's 32 and 8 bytes of reserve, which is full with
11 bytes in it, has room for 25 to 34 more when it is not, and for 40 when it is empty: the
lengths are these limits with their neighbours, 1, 80 and 86, so that appends just fit, just
do not, or take two buffers; three calls for each response, and one misread error for each
connection.

### Proofs: `ResponseWriterProofs`

For any buffer, texts and number of calls, `TypeOK` (the buffer is never overrun),
`FramesAgree` and `NothingLost`.  `IInv`: `BufferOK` ties the index to the size and keeps
room for the end of the chunk; `LoopOK` says that a loop has something to write, without
which it would make an empty chunk; `WireOK` that as long as the client reads, what is on
the wire has begun and not ended; `EmptyOK` where the buffer must be empty.  What they say
of the size holds as long as `misread` is 0.  The proof is under the hypothesis `HeadsFit`,
stated in each theorem: each head, a fold over the handler's headers, fits the buffer with
its framing fields.  The code truncates others (finding at `httpparse.c:665`).

`CountOK` adds for `NothingLost` that as long as nothing was cut, what was taken is the data
on the wire, what waits in the buffer, and what is left of a content that is being written.
The data on the wire is a fold over the frames; `DataAdds` is its equation, `DataOfNext`
what one more frame adds.

Only model-checked: `WriteReturns` (liveness).

## 7. Event streams: `LogStream`

The worker in `wrtlog_handler()` with `httpserver_stream_wait()`, and the logger's task in
`logger_cb()`, share one `HTTP_USER_T` without a lock.  `worker` and `logger` are their
places, `channel` whether the logger calls back, `sock` whether `user->socket` is the number
and not -1, `number` whose that number is by now, `gone` is `peer_closed`, `text` whether
`rw_buffer` has text.  Each read of `sock` and `gone` is a step of its own: `LogLine` and
`LogFlush`, `WaitCheck` and `ReadCheck` see them at different moments, and `LogAbort` and
`LogClear` are the close of the socket and the forgetting of its number. `WaitBegins`,
`WaitPasses`, `WaitReads`, `ReadByte`, `ReadPart`, `ReadFails`, `RecvOther` and `ReadOther`
are the turns of the wait; `StreamHead`, `ReplayLine`, `ReplayFlush`, `ChannelAdd`,
`ChannelRemove`, `StreamComplete` and `Close` those of the handler.

Assumed of the logger, which is not in the repository: removing a channel waits for its
callback to come back.  The handler relies on it, because the channel lies on its stack.

Run `log_stream`:

* `OneResponse`: the two threads never write at the same time, and nothing follows the
  end of a response;
* `ClosesOwn`: no thread closes a number that has become another connection's;
* `EndsForCause`: a stream ends early only for a stop or for the client;
* `StreamEnds`: a stop, a close or a failed write ends it, unless the worker is `"blocked"`.

A read from another connection does happen and is a finding (`httpserver.c:640`), so that
only closes are excluded: `RecvOther` is the `recv()` on a number that was closed and used
again since `select()` looked at it.  It waits for that connection's client without a
timeout, so that its return, `ReadOther`, has no fairness, and `StreamEnds` names the
exception.  The drain of section 3, which assumes that a stream ends at a stop, is without
an end there too; `parted` marks the TLS record in part that ends a stream without a cause,
a finding too.

Bounds: three waits, three lines, two bytes.  Fairness: both threads keep running; nothing
is asked of the client, of the log or of another connection's client.

### Proofs: `LogStreamProofs`

The four safety properties for streams of any length, without a hypothesis.  `IInv`: `Turns`
(the logger's only while the handler waits), `WireOK` (as long as a write may succeed the
response is open), `NumberOK` (a number is forgotten as soon as it is closed, but for the
logger's step between the two; whoever closes has seen the connection fail).

Only model-checked: `StreamEnds`.

## 8. The WebSocket client: `WebSocket`

The client as built with `HTTP_WEBSOCK`, used by one thread.  `sent` are the server's
frames, `pos` how many of their bytes were read, `frame` the one being read, `got` the
payloads that the caller was given, `buffer` who owns the payload, `flags` is
`client->status`.  `DecodeHead` and `Length` are `websock_decode()`, `ReadPayload` and
`Reply` `httpclient_websock_read()`, `WriteClose` `httpclient_websock_initiate_close()`.
`DecodeHalf`, `LengthCut`, `PayloadCut` and `DecodeAnything` are what the code does when a
read brings less than it wants: it goes on at the wrong place, where any two bytes are a
head.

Run `websocket`:

* `FramesInOrder`: the caller is given the data frames once, whole and in order;
* `CloseAnswered`: the library adds at most one close frame to those that the caller sends,
  none when the caller was first (`opener`), and the server's is answered;
* `TypeOK` has the ownership of the payload: the caller has one exactly when a read said so.

The first holds only as long as `lost` is `"no"`: frames that come with the upgrade's answer
(`early`), a timeout inside a frame (`cut`), a length of 64 bits (`long`), a mask, whose
frame is refused but not skipped (`masked`), and an allocation that fails (`memory`) lose
the place in the stream.  The first three are findings.  The second holds while no flag of
an earlier connection is set (`stale`), which is one as well; and it allows a close frame
for every call of the caller (`begun`), because nothing in
`httpclient_websock_initiate_close()` keeps a second call from sending another, a finding
too.

Bounds: any two frames of nine kinds on each connection, two closes of the caller
(`ClosesMax`), any cutting, any number of connections.

### Proofs: `WebSocketProofs`

`TypeOK`, `FramesInOrder` and `CloseAnswered` for any frames, any cutting and any number of
connections.  The invariant has two parts.  `Types` is about the payload: at each place in
the code it has one owner, and a failed read leaves none behind.  `Sound` says where in the
stream a read begins while nothing was lost: at the start of a frame (`AtStart`), behind its
first two bytes (`Headed`), or at its payload (`Reading`); what the caller has are then the
payloads of the frames before that place (`GotOK`), and a close frame before it was answered
(`CloseOK`). `Senders`, a small invariant of its own, counts the close frames: whoever was
first has set the flag that keeps the library from adding one. Where a frame starts is a sum
over the frames before it, a fold with its own equation.

## 9. Downloads: `Download`

`job` is what one thread was asked for: a download to memory or to a file, the test
download, `wget`, or an application's call of the client; `at` is its place.  `lastHost` and
`lastPort` are the statics of `httpdwnld.c`, `shared` says that the download points into
them, `config` is the client's TLS configuration, `socket`, `ssl`, `readBuffer` and `file`
what it holds, `sendTimeout` and `option` the timeout that the client remembers and that the
socket has.  The actions follow the calls: the URL (`UrlHost`, `LastPort`, `Resolve`,
`SetHostname`; a URL is a sequence of texts and of the marks `@`, `:`, `/` and `?`, which
`HostIn` and `PortIn` take apart as `httpparse_url_parse()` does), `httpclient_connect()`
(`Socket` to `Handshake`), the four kinds of request, the response, the callbacks
(`MemPart`, `FsPart`, `TestPart`), and `Close`, which every way out calls or skips as the
code does.  Other threads are the steps `OtherHost`, `OtherPort` and `Cancel`.  How a
response is read is `HttpClient`'s matter; here it is a status, parts, and an end or an
error.

Run `download`:

* `NothingLeaks`: whatever fails, everything is given back;
* `ResultIsWhole`: a number of bytes is returned only for a whole request and a whole
  body that was kept; a failed, cancelled or cut one does not look like it;
* `AsksItsHost`: the request goes to its URL's host and port and names that host.  What these
  are, `SaidHost` and `SaidPort` say by RFC 3986; they model no code.

The exceptions are in the properties: a file of `wget` that cannot be truncated, a file
written short, a host that another thread changed in between (`raced`), a URL with a mark
behind its authority that the parser takes for one of it (`Misparsed`), a port that is not
from 1 to 65535.  All are findings.

Bounds: twelve jobs, one of each kind and way, and eleven URLs with every part left out,
given or malformed, for `wget`; three of the numbers are not ports; bodies of up to three
bytes in parts of up to two, an allocation that grows by two.  No fairness, no liveness:
every wait is one step.

### Proofs: `DownloadProofs`

All four properties of the run, for any set of jobs, hosts and sizes.  `IInv`: `HeldOK`
(nothing of a connection is held before it is asked for), `SentOK` and `KeptOK` (how much
was sent and kept at each place), `ResultOK` (success only leaves when all is there),
`HostOK` and `PortOK` (where the name and the port come from).  A download points to the
shared host only when its URL has none; that is what makes the second half of `HostOK` immune
to the other threads.  `HostAgrees` and `PortAgrees` show that the parser's host and port are
those that the URL says unless it is `Misparsed`: the first `@` is then within the authority
or nowhere, so is the first `:` behind it, and a host without a port ends where the
authority does.

## 10. The web API: `WebApi`

Workers run the handler of `wwebapi.c` and an application calls `webapi_wot_json()` and
`webapi_post()` itself, without a lock, while the device changes its values.  `ready` is
`_upgrade_init`, `list` the list of resources, `value` the length of each value; per worker,
`idx` is how far its loop has come, `text` and `room` the length and the allocation of the
text.  `CheckInit`, `MarkInit`, `ApiInit` and `ResourcesSet` are the initialisation by the
first request, split where another worker can come between; `ResourceCount`, `ResourceAt`,
`Measured` and `Described` the two passes of a description; `FindResource`, `PrintValue`,
`Sized`, `Filled` and `Retry` those of a response; `ReadContent` to `SecondPassEnds` a post.

Run `web_api`:

* `ResponseIsWhole`: a response is the whole text with its NUL or none, however the values
  change;
* `PostInOrder`: what a post has applied is a beginning of this order: the body's data
  properties, as the body has them, and then its actions; each key once, and all of them when it
  reports success.  It is what the comment in `webapi_post_bulk_json()` promises.

Named exceptions, all findings: an object without items has no token behind its own, and a
pass reads one all the same (`NoItems`, `ReadPastTokens`): that may end the program or apply
anything, and the test for no items at the end of `webapi_post_bulk_json()` never holds; a
description during which the list changed (`moved`) may be cut, and one may find a counted
resource gone when two workers both initialised the API (`inits`).

Bounds: two workers; one resource of a data, a fixed and an action property; values of up to
two bytes.  The slack of a response is scaled with them (`SlackMin` 0, `SlackDiv` 3,
`RetriesMax` 2), so that a rendering may fit, not fit once, or never.  One body
of a post is the empty object.  The workers' symmetry is
sound, as the run has only invariants.

### Proofs: `WebApiProofs`

All three properties for any workers, resource, bounds and requests.  `IInv` follows a
description through its passes: while the list stays, the text has a known length after
each walk, the same in both (`TextOK`); the list goes only when a second worker has found
the API not ready (`ApiOK`).  `TriesOK` bounds the renderings.

`PostInv` says what a post has applied at each place: before the first pass nothing, in the
first pass the data properties up to the token it has come to (`DataUpTo`), in the second all of
them and the actions up to there (`ActionsUpTo`), always in the order of `Precedes` (`InOrder`),
and so a beginning of what was asked (`Beginning`).

## 11. Findings

`PROJECT.json` lists 38 differences between the code and its documentation, or plain
slips, each at its line.  Three have a run that shows them (`server_stop_kept`,
`server_drain_ends`, `server_tls_config`).  The others were met while modelling; where
they touch a property, the property names the exception, so that it says what holds
besides.

## 12. Not modelled

* The text of pages, headers and JSON documents, and the helpers that split strings
  (`httpparse.c`): the modules have messages as split.  Only the host and the port of a URL
  are found as the code finds them (`Download`).
* Certificates, entropy and the TLS protocol; a second server instance that shares the
  server's TLS configuration, and the mutex of its making.
* The streamed descriptions and the enum resolver of the web API, which render what the
  modelled ones render, piece by piece.
* The fields of a client's request head, and `httpclient_set_content_type()`, which only
  chooses the text of one of them: `Download` has the head as one write that may fail.
* Name resolution (one call with two outcomes), component registration (no state), the shell
  command `wsource` (a script engine outside the repository), the static pages, the vendored
  JSON parsers, and the watchdog, which only watches.
* The service wrapper of the tests is the caller's part of `WServer`; that it may stop an
  instance it has destroyed is left out.
