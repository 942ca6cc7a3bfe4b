------------------------------ MODULE WServer -------------------------------
(***************************************************************************)
(* The multithreaded web server, src/src/wserver_m.c: one instance, from   *)
(* httpserver_wserver_create() over httpserver_wserver_run() to            *)
(* httpserver_wserver_destroy().                                           *)
(*                                                                         *)
(* Three kinds of thread act on the instance.  The thread in run() accepts *)
(* connections, takes a slot of count_sem for each and starts a worker;    *)
(* main is its place in run().  A worker serves the requests of one        *)
(* connection; worker[c] is its place in _wserver_thread().  Any thread    *)
(* may call httpserver_wserver_stop().  They share inst->close, read       *)
(* without a lock; inst->count_sem; inst->running, under os_sys_lock; and  *)
(* the stream counter of httpserver.c, under os_sys_lock too.              *)
(*                                                                         *)
(* What a request says and what a handler does with it are left open: a    *)
(* request may ask to close the connection or not, a handler may succeed,  *)
(* fail, or hold its worker in an event stream.  Time is counted in the    *)
(* 500 ms reads of the request loop.                                       *)
(***************************************************************************)
EXTENDS Naturals, FiniteSets

CONSTANTS
  Conn,          (* connections, each also the HTTPSERVER_THREAD_T it gets    *)
  ThreadMax,     (* CFG_WSERVER_USER_THREAD_MAX                               *)
  StreamsMax,    (* CFG_HTTPSERVER_STREAMS_MAX                                *)
  ConnectTicks,  (* WSERVER_CONNECT_TIMEOUT in reads of 500 ms, 4 in the code *)
  KeepTicks      (* WSERVER_KEEPALIVE_TIMEOUT in such reads, 60 in the code   *)

ASSUME ConnFinite == IsFiniteSet(Conn)
ASSUME ThreadMaxAssumption == ThreadMax \in Nat \ {0}
ASSUME StreamsMaxAssumption == StreamsMax \in Nat /\ StreamsMax < ThreadMax
ASSUME TicksAssumption ==
  /\ ConnectTicks \in Nat \ {0}
  /\ KeepTicks \in Nat
  /\ ConnectTicks <= KeepTicks

None == "none"

VARIABLES
  main,      (* where the thread in httpserver_wserver_run() is            *)
  cur,       (* the connection that thread has accepted, or None           *)
  close,     (* inst->close                                                *)
  sem,       (* the count of inst->count_sem                               *)
  running,   (* inst->running                                              *)
  ssl,       (* inst->ssl is set: workers speak TLS                        *)
  tlsConf,   (* the server's TLS config is loaded                          *)
  ctrl,      (* the handlers' ctrl functions were told to start            *)
  streams,   (* _httpserver_streams                                        *)
  worker,    (* worker[c]: where c's thread is; "none" when it has none    *)
  keep,      (* keep[c]: user.keep_alive                                   *)
  ticks,     (* ticks[c]: the worker's timeout, in reads                   *)
  open       (* the accepted sockets that are open                         *)

instVars == <<close, ssl, tlsConf, ctrl>>
connVars == <<worker, keep, ticks, open>>
vars == <<main, cur, sem, running, streams, instVars, connVars>>

-----------------------------------------------------------------------------
(* The places of the two kinds of thread.                                  *)

Serving == {"loop", "select", "accepted", "semwait", "spawn"}
Draining == {"shut", "drain"}
MainPlaces == {"created", "stopping", "returned", "gone"} \cup Serving \cup Draining

(* A worker in one of these places speaks to its client, over the TLS       *)
(* config when inst->ssl is set.                                            *)
Talking == {"handshake", "top", "read", "decide", "auth", "content",
            "stream", "answered", "end"}
Holding == Talking \cup {"spawning", "signal"}     \* between sem wait and sem signal
Counted == Holding \cup {"done"}                   \* between running++ and running--
WorkerPlaces == Counted \cup {"none", "accepted"}

Holders == {c \in Conn : worker[c] \in Holding}
Live == {c \in Conn : worker[c] \in Counted}
Streaming == {c \in Conn : worker[c] = "stream"}
Kept == {c \in Conn : worker[c] \in Holding /\ keep[c]}

Go(c, from, to) ==
  /\ worker[c] = from
  /\ worker' = [worker EXCEPT ![c] = to]

GoMain(from, to) ==
  /\ main = from
  /\ main' = to

Init ==
  /\ main = "created"
  /\ cur = None
  /\ close = FALSE
  /\ sem = ThreadMax
  /\ running = 0
  /\ ssl \in BOOLEAN
  /\ tlsConf = ssl
  /\ ctrl = FALSE
  /\ streams = 0
  /\ worker = [c \in Conn |-> "none"]
  /\ keep = [c \in Conn |-> FALSE]
  /\ ticks = [c \in Conn |-> 0]
  /\ open = {}

-----------------------------------------------------------------------------
(* Slips a change of the code could make.  Each is a variant of the action *)
(* that its comment names, and breaks one of the properties below.         *)

(* SpawnFails without os_sem_signal(). *)
SpawnFailsKeepingSlot ==
  /\ GoMain("spawn", "loop")
  /\ running' = running - 1
  /\ worker' = [worker EXCEPT ![cur] = "none"]
  /\ open' = open \ {cur}
  /\ cur' = None
  /\ UNCHANGED <<sem, streams, instVars, keep, ticks>>

(* SpawnFails without inst->running--. *)
SpawnFailsStillRunning ==
  /\ GoMain("spawn", "loop")
  /\ sem' = sem + 1
  /\ worker' = [worker EXCEPT ![cur] = "none"]
  /\ open' = open \ {cur}
  /\ cur' = None
  /\ UNCHANGED <<running, streams, instVars, keep, ticks>>

(* Drained that waits for the slots instead of the workers. *)
DrainedBySlots ==
  /\ sem = ThreadMax
  /\ GoMain("drain", "stopping")
  /\ UNCHANGED <<cur, sem, running, streams, instVars, connVars>>

(* SelectTimesOut that tries again whatever close says. *)
SelectTimesOutAgain ==
  /\ main = "select"
  /\ UNCHANGED vars

(* ReadNothing that looks for a timeout below zero. *)
ReadNothingLate(c) ==
  /\ ~close
  /\ ticks' = [ticks EXCEPT ![c] = @ - 1]
  /\ Go(c, "read", IF ticks[c] < 1 THEN "end" ELSE "top")
  /\ UNCHANGED <<main, cur, sem, running, streams, instVars, keep, open>>

(* ReadNothing that restarts the timeout with every read. *)
ReadNothingRestarts(c) ==
  /\ ~close
  /\ Go(c, "read", "top")
  /\ UNCHANGED <<main, cur, sem, running, streams, instVars, keep, ticks, open>>

(* Decide that is content with one free worker. *)
DecideWithOneFree(c) ==
  /\ Go(c, "decide", "auth")
  /\ \E clientStays \in BOOLEAN :
       keep' = [keep EXCEPT ![c] = clientStays /\ sem >= 1]
  /\ UNCHANGED <<main, cur, sem, running, streams, instVars, ticks, open>>

(* StreamOpen that lets one stream too many in. *)
StreamOpenAtLimit(c) ==
  /\ streams <= StreamsMax
  /\ Go(c, "content", "stream")
  /\ streams' = streams + 1
  /\ UNCHANGED <<main, cur, sem, running, instVars, keep, ticks, open>>

-----------------------------------------------------------------------------
(* The caller: create, stop and destroy.                                   *)

(* The service makes a new instance, after the last one was destroyed, and *)
(* loads the TLS config for one that is to speak TLS.                      *)
Create ==
  /\ GoMain("gone", "created")
  /\ close' = FALSE
  /\ sem' = ThreadMax
  /\ running' = 0
  /\ ssl' \in BOOLEAN
  /\ tlsConf' = ssl'
  /\ UNCHANGED <<cur, ctrl, streams, connVars>>

Stop ==
  /\ main # "gone"
  /\ close' = TRUE
  /\ UNCHANGED <<main, cur, sem, running, ssl, tlsConf, ctrl, streams, connVars>>

Destroy ==
  /\ GoMain("returned", "gone")
  /\ UNCHANGED <<cur, sem, running, streams, instVars, connVars>>

-----------------------------------------------------------------------------
(* The thread in httpserver_wserver_run().                                 *)

(* close is cleared first; then the socket listens and the handlers start. *)
Begin ==
  /\ GoMain("created", "loop")
  /\ close' = FALSE
  /\ ctrl' = TRUE
  /\ UNCHANGED <<cur, sem, running, ssl, tlsConf, streams, connVars>>

(* httpserver_init() fails, or httpserver_listen() does: then              *)
(* httpserver_close() releases the TLS config too.                         *)
BeginFails ==
  /\ GoMain("created", "returned")
  /\ close' = FALSE
  /\ tlsConf' \in {tlsConf, FALSE}
  /\ UNCHANGED <<cur, sem, running, ssl, ctrl, streams, connVars>>

LoopEnds ==
  /\ close
  /\ GoMain("loop", "shut")
  /\ UNCHANGED <<cur, sem, running, streams, instVars, connVars>>

AllocThread ==
  /\ ~close
  /\ GoMain("loop", "select")
  /\ UNCHANGED <<cur, sem, running, streams, instVars, connVars>>

(* No memory for the next connection's thread: the loop is left with close *)
(* still clear.                                                            *)
AllocThreadFails ==
  /\ ~close
  /\ GoMain("loop", "shut")
  /\ UNCHANGED <<cur, sem, running, streams, instVars, connVars>>

(* A select or an accept that comes to nothing is tried again until close. *)
SelectTimesOut ==
  /\ close
  /\ GoMain("select", "loop")
  /\ UNCHANGED <<cur, sem, running, streams, instVars, connVars>>

ListenError ==
  /\ GoMain("select", "loop")
  /\ UNCHANGED <<cur, sem, running, streams, instVars, connVars>>

Accept(c) ==
  /\ worker[c] = "none"
  /\ c \notin open
  /\ GoMain("select", "accepted")
  /\ cur' = c
  /\ worker' = [worker EXCEPT ![c] = "accepted"]
  /\ open' = open \cup {c}
  /\ UNCHANGED <<sem, running, streams, instVars, keep, ticks>>

TakeConnection ==
  /\ ~close
  /\ GoMain("accepted", "semwait")
  /\ UNCHANGED <<cur, sem, running, streams, instVars, connVars>>

(* Stopped since the accept: the thread is freed, its socket stays open.   *)
AbandonConnection ==
  /\ close
  /\ GoMain("accepted", "loop")
  /\ worker' = [worker EXCEPT ![cur] = "none"]
  /\ cur' = None
  /\ UNCHANGED <<sem, running, streams, instVars, keep, ticks, open>>

TakeSlot ==
  /\ sem > 0
  /\ GoMain("semwait", "spawn")
  /\ sem' = sem - 1
  /\ running' = running + 1
  /\ worker' = [worker EXCEPT ![cur] = "spawning"]
  /\ UNCHANGED <<cur, streams, instVars, keep, ticks, open>>

(* No slot within two seconds: the client is turned away.                  *)
SlotTimesOut ==
  /\ sem = 0
  /\ GoMain("semwait", "loop")
  /\ worker' = [worker EXCEPT ![cur] = "none"]
  /\ open' = open \ {cur}
  /\ cur' = None
  /\ UNCHANGED <<sem, running, streams, instVars, keep, ticks>>

Spawn ==
  /\ GoMain("spawn", "loop")
  /\ worker' = [worker EXCEPT ![cur] = "handshake"]
  /\ ticks' = [ticks EXCEPT ![cur] = ConnectTicks]
  /\ cur' = None
  /\ UNCHANGED <<sem, running, streams, instVars, keep, open>>

SpawnFails ==
  /\ GoMain("spawn", "loop")
  /\ running' = running - 1
  /\ sem' = sem + 1
  /\ worker' = [worker EXCEPT ![cur] = "none"]
  /\ open' = open \ {cur}
  /\ cur' = None
  /\ UNCHANGED <<streams, instVars, keep, ticks>>

(* httpserver_close(): the listening socket and the TLS config go.         *)
CloseListener ==
  /\ GoMain("shut", "drain")
  /\ tlsConf' = FALSE
  /\ UNCHANGED <<cur, sem, running, close, ssl, ctrl, streams, connVars>>

Drained ==
  /\ running <= 0
  /\ GoMain("drain", "stopping")
  /\ UNCHANGED <<cur, sem, running, streams, instVars, connVars>>

StopHandlers ==
  /\ GoMain("stopping", "returned")
  /\ ctrl' = FALSE
  /\ UNCHANGED <<cur, sem, running, close, ssl, tlsConf, streams, connVars>>

-----------------------------------------------------------------------------
(* A worker.                                                               *)

(* A plain connection has no handshake; a TLS one may fail it, and ends.   *)
Handshake(c) ==
  /\ \/ Go(c, "handshake", "top")
     \/ ssl /\ Go(c, "handshake", "end")
  /\ UNCHANGED <<main, cur, sem, running, streams, instVars, keep, ticks, open>>

Top(c) ==
  /\ Go(c, "top", IF close THEN "end" ELSE "read")
  /\ UNCHANGED <<main, cur, sem, running, streams, instVars, keep, ticks, open>>

(* A read of 500 ms brought no whole request: the timeout runs down.       *)
ReadNothing(c) ==
  /\ ~close
  /\ ticks' = [ticks EXCEPT ![c] = @ - 1]
  /\ Go(c, "read", IF ticks[c] <= 1 THEN "end" ELSE "top")
  /\ UNCHANGED <<main, cur, sem, running, streams, instVars, keep, open>>

(* The connection is lost, the request is no request, or the server stops. *)
ReadEnds(c) ==
  /\ Go(c, "read", "end")
  /\ UNCHANGED <<main, cur, sem, running, streams, instVars, keep, ticks, open>>

ReadRequest(c) ==
  /\ ~close
  /\ Go(c, "read", "decide")
  /\ ticks' = [ticks EXCEPT ![c] = KeepTicks]
  /\ UNCHANGED <<main, cur, sem, running, streams, instVars, keep, open>>

(* Whether the connection stays open: not when the client asks to close it *)
(* and not when fewer than two other workers are free.                     *)
Decide(c) ==
  /\ Go(c, "decide", "auth")
  /\ \E clientStays \in BOOLEAN :
       keep' = [keep EXCEPT ![c] = clientStays /\ sem >= 2]
  /\ UNCHANGED <<main, cur, sem, running, streams, instVars, ticks, open>>

(* A 401 was sent, or could not be.                                        *)
Refuse(c) ==
  /\ \/ /\ keep[c]
        /\ Go(c, "auth", "top")
        /\ ticks' = [ticks EXCEPT ![c] = ConnectTicks]
     \/ Go(c, "auth", "end") /\ UNCHANGED ticks
  /\ UNCHANGED <<main, cur, sem, running, streams, instVars, keep, open>>

(* A 404 was sent, or could not be.                                        *)
NotFound(c) ==
  /\ Go(c, "auth", "answered") \/ Go(c, "auth", "end")
  /\ UNCHANGED <<main, cur, sem, running, streams, instVars, keep, ticks, open>>

RunHandler(c) ==
  /\ Go(c, "auth", "content")
  /\ UNCHANGED <<main, cur, sem, running, streams, instVars, keep, ticks, open>>

(* The handler's functions are done, or one of them failed.  Reading a     *)
(* chunked body may have given up keep_alive.                              *)
HandlerDone(c) ==
  /\ Go(c, "content", "answered") \/ Go(c, "content", "end")
  /\ \E stays \in BOOLEAN : keep' = [keep EXCEPT ![c] = @ /\ stays]
  /\ UNCHANGED <<main, cur, sem, running, streams, instVars, ticks, open>>

StreamOpen(c) ==
  /\ streams < StreamsMax
  /\ Go(c, "content", "stream")
  /\ streams' = streams + 1
  /\ UNCHANGED <<main, cur, sem, running, instVars, keep, ticks, open>>

StreamRefused(c) ==
  /\ streams >= StreamsMax
  /\ Go(c, "content", "answered") \/ Go(c, "content", "end")
  /\ keep' = [keep EXCEPT ![c] = FALSE]
  /\ UNCHANGED <<main, cur, sem, running, streams, instVars, ticks, open>>

(* The client goes, the time is up or the server stops; the handler then   *)
(* ends the response on what is left of the connection.                    *)
StreamEnds(c) ==
  /\ Go(c, "stream", "answered") \/ Go(c, "stream", "end")
  /\ streams' = IF streams > 0 THEN streams - 1 ELSE streams
  /\ UNCHANGED <<main, cur, sem, running, instVars, keep, ticks, open>>

(* httpserver_free_request() fails when some of the body is unread.        *)
Answered(c) ==
  /\ \/ keep[c] /\ Go(c, "answered", "top")
     \/ Go(c, "answered", "end")
  /\ UNCHANGED <<main, cur, sem, running, streams, instVars, keep, ticks, open>>

CloseConnection(c) ==
  /\ Go(c, "end", "signal")
  /\ open' = open \ {c}
  /\ UNCHANGED <<main, cur, sem, running, streams, instVars, keep, ticks>>

GiveSlot(c) ==
  /\ Go(c, "signal", "done")
  /\ sem' = sem + 1
  /\ UNCHANGED <<main, cur, running, streams, instVars, keep, ticks, open>>

(* _wserver_thread_complete(), after the thread has ended: its memory is   *)
(* freed, and the last use of inst is the count.                           *)
Complete(c) ==
  /\ Go(c, "done", "none")
  /\ running' = running - 1
  /\ keep' = [keep EXCEPT ![c] = FALSE]
  /\ ticks' = [ticks EXCEPT ![c] = 0]
  /\ UNCHANGED <<main, cur, sem, streams, instVars, open>>

-----------------------------------------------------------------------------
Caller == Create \/ Stop \/ Destroy

(* What the thread in run() does by itself.                                *)
Run ==
  \/ Begin \/ BeginFails
  \/ LoopEnds \/ AllocThread \/ AllocThreadFails \/ SelectTimesOut
  \/ TakeConnection \/ AbandonConnection
  \/ TakeSlot \/ SlotTimesOut \/ Spawn \/ SpawnFails
  \/ CloseListener \/ Drained \/ StopHandlers

(* What it does when the network has it do so.                             *)
Network == ListenError \/ \E c \in Conn : Accept(c)

Work(c) ==
  \/ Handshake(c) \/ Top(c)
  \/ ReadNothing(c) \/ ReadEnds(c) \/ ReadRequest(c)
  \/ Decide(c) \/ Refuse(c) \/ NotFound(c)
  \/ RunHandler(c) \/ HandlerDone(c)
  \/ StreamOpen(c) \/ StreamRefused(c) \/ StreamEnds(c)
  \/ Answered(c) \/ CloseConnection(c) \/ GiveSlot(c) \/ Complete(c)

Next == Caller \/ Run \/ Network \/ \E c \in Conn : Work(c)

Spec == Init /\ [][Next]_vars

(* The scheduler runs every thread of the server; a handler ends, and so   *)
(* does a stream, at the latest when its time is up.  Nothing is assumed   *)
(* of the clients and the network.                                         *)
Fairness ==
  /\ WF_vars(Run)
  /\ \A c \in Conn : WF_vars(Work(c))

LiveSpec == Spec /\ Fairness

-----------------------------------------------------------------------------
(* Every variable has its type. *)
TypeOK ==
  /\ main \in MainPlaces
  /\ cur \in Conn \cup {None}
  /\ close \in BOOLEAN
  /\ sem \in 0..ThreadMax
  /\ running \in Nat
  /\ ssl \in BOOLEAN
  /\ tlsConf \in BOOLEAN
  /\ ctrl \in BOOLEAN
  /\ streams \in 0..StreamsMax
  /\ worker \in [Conn -> WorkerPlaces]
  /\ keep \in [Conn -> BOOLEAN]
  /\ ticks \in [Conn -> 0..KeepTicks]
  /\ open \subseteq Conn

(* A slot of count_sem is free or held, on every path through run() and    *)
(* through a worker: none is lost and none is given back twice.            *)
SlotsAccounted == sem + Cardinality(Holders) = ThreadMax

(* inst->running counts the workers that were started, or are about to be, *)
(* and whose memory is not freed yet: what the drain waits for.            *)
RunningAccounted == running = Cardinality(Live)

(* The connections that are to stay open leave two workers to others, the  *)
(* keep-alive decision of _wserver_thread(): with two workers none stays.  *)
(* Each is decided on a count that changes right after it is read.         *)
KeptLeaveRoom == Kept # {} => Cardinality(Kept) + 2 <= ThreadMax

(* The streams are counted as they come and go, and never hold every       *)
(* worker: httpserver_stream_open() leaves one for other requests.         *)
StreamsLeaveWorker ==
  /\ streams = Cardinality(Streaming)
  /\ Cardinality(Streaming) < ThreadMax

(* Once the handlers are stopped, and when run() returns and the instance  *)
(* is freed, no worker is left to use either; a worker only runs while the *)
(* handlers are started.                                                   *)
DrainedBeforeStop ==
  /\ main \in {"created", "stopping", "returned", "gone"} => Live = {}
  /\ Live # {} => ctrl

(* A server that was told to stop returns from run(), whatever its clients *)
(* do: the accept loop ends and every worker drains.                       *)
StopEnds == (close /\ main \in Serving \cup Draining) ~> (main = "returned")

(* A worker does not wait for its client forever: the request loop ends in *)
(* a request or in the end of the connection.                              *)
SilenceEnds ==
  \A c \in Conn :
    (worker[c] \in {"top", "read"}) ~> (worker[c] \notin {"top", "read"})

(* The server is the pool of workers its caller relies on.                 *)
Stage ==
  IF main = "created" THEN "made"
  ELSE IF main \in Serving THEN "serving"
  ELSE IF main \in Draining THEN "draining"
  ELSE "over"

Pool == INSTANCE WorkerPool
          WITH Capacity <- ThreadMax, stage <- Stage, live <- Live, busy <- Holders

(* Every step of the server is a step of the pool, or none of its business. *)
PoolSpec == Pool!Spec

-----------------------------------------------------------------------------
(* What the code's comments say, and the code does not do.                 *)

(* "Signals the HTTP server to stop running": a stop is not forgotten as   *)
(* long as the instance exists.                                            *)
StopIsKept == [][close /\ main # "gone" => close']_vars

(* "The caller frees the instance and the TLS config when this returns, so *)
(* wait until every worker has completed": a worker that speaks TLS has    *)
(* its config.                                                             *)
TlsConfigOutlivesWorkers ==
  ssl /\ (\E c \in Conn : worker[c] \in Talking) => tlsConf

(* "A worker sees inst->close within a read timeout": the drain ends.      *)
DrainEnds == (main = "drain") ~> (main = "returned")

=============================================================================
