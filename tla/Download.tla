------------------------------ MODULE Download ------------------------------
(***************************************************************************)
(* Downloads, src/src/httpdwnld.c, and what they are built on: the         *)
(* connection and the request writer of src/src/httpclient.c, the parser   *)
(* of URLs and the TLS configuration that all clients share.               *)
(*                                                                         *)
(* One thread runs one download, post, wget or call after the other.      *)
(* Another thread parses URLs and asks for the configuration too, and a    *)
(* third may cancel.  How a response is read is HttpClient's matter: here  *)
(* it is a status, parts of a body, and an end or an error.                *)
(***************************************************************************)
EXTENDS Integers, Sequences, FiniteSetsExt

CONSTANTS
  Jobs,      (* what may be asked for: see JobsAssumption               *)
  Texts,     (* the pieces of a URL between its marks                    *)
  BadTexts,  (* those with a blank in them, or too long for a host name  *)
  Number,    (* of those that are numbers, what atoi() makes of them     *)
  Grow,      (* HTTPDWNLD_MEM_T.grow                                     *)
  PartMax,   (* bound: bytes of a part of a body                         *)
  ReadMax    (* bound: bytes of a body                                   *)

(* The kinds of downloads; "wget" of the shell; and an application that    *)
(* calls httpclient_*() itself, on a client it may have used before.       *)
Downloads == {"mem", "fs", "test"}
Kinds == Downloads \cup {"wget", "call"}
Methods == {"get", "post", "chunked", "stream"}

(* A URL behind its scheme and "//"; "?" is also "#".  A call has the name *)
(* of its host there.                                                      *)
Marks == {"@", ":", "/", "?"}
Tokens == Texts \cup Marks
NoName == <<>>
PortWord == 65536   (* how many values sin_port has *)

ASSUME TextsAssumption ==
  Texts \cap Marks = {} /\ DOMAIN Number \subseteq Texts /\ \A n \in DOMAIN Number : Number[n] \in Int
ASSUME JobsAssumption ==
  /\ Jobs \subseteq [kind : Kinds, good : BOOLEAN, https : BOOLEAN, url : Seq(Tokens),
                     method : Methods, len : Nat, path : BOOLEAN, limit : Nat]
  /\ \A job \in Jobs : job.method = "get" => job.len = 0
  /\ Grow \in Nat \ {0} /\ PartMax \in Nat \ {0} /\ ReadMax \in Nat

VARIABLES
  at,          (* where the thread is                                    *)
  job,         (* what it does                                           *)
  lastHost, lastPort,   (* _last_host, _last_port                        *)
  config,      (* the client's TLS configuration exists                  *)
  shared,      (* host points to _last_host, not into the URL            *)
  port,        (* of the download                                        *)
  peer,        (* the name that was resolved, and its port               *)
  hostname,    (* client->hostname                                       *)
  socket, ssl, readBuffer, file,   (* what the thread holds              *)
  sendTimeout, (* client->send_timeout                                   *)
  option,      (* SO_SNDTIMEO of the socket, as far as it is known       *)
  wire,        (* bytes of the request's body that were sent             *)
  framed,      (* the request was sent to its end                        *)
  read, part, stored, capacity,   (* bytes: read, of the last part, kept, *)
               (* and the room for them                                  *)
  body,        (* how the response's body ended                          *)
  cancel,      (* HTTPDWNLD_T.cancel                                     *)
  res,         (* the code that is returned, "OK" with the bytes read    *)
  raced,       (* _last_host changed while this download pointed to it   *)
  slips        (* what went wrong that no code returns                   *)

lastVars == <<lastHost, lastPort>>
nameVars == <<shared, port, peer, hostname, raced>>
heldVars == <<socket, ssl, readBuffer, file>>
timeVars == <<sendTimeout, option>>
sendVars == <<wire, framed>>
bodyVars == <<read, part, stored, capacity, body>>
vars == <<at, job, lastVars, config, nameVars, heldVars, timeVars, sendVars,
          bodyVars, cancel, res, slips>>
around == <<job, lastVars, config, nameVars, cancel>>

NoJob == [kind |-> "call", good |-> TRUE, https |-> FALSE, url |-> NoName,
          method |-> "get", len |-> 0, path |-> FALSE, limit |-> 0]

Init ==
  /\ at = "done" /\ job = NoJob /\ res = "none"
  /\ lastHost = NoName /\ lastPort = 0 /\ config = FALSE
  /\ shared = FALSE /\ port = 0 /\ peer = <<NoName, 0>> /\ hostname = NoName /\ raced = FALSE
  /\ socket = FALSE /\ ssl = FALSE /\ readBuffer = FALSE /\ file = FALSE
  /\ sendTimeout = "none" /\ option = "none" /\ wire = 0 /\ framed = FALSE
  /\ read = 0 /\ part = 0 /\ stored = 0 /\ capacity = 0 /\ body = "open"
  /\ cancel = FALSE /\ slips = {}

IsDownload == job.kind \in Downloads
Running == at # "done"

-----------------------------------------------------------------------------
(* httpparse_url_parse(), which searches for a mark through all of the URL. *)

(* Where one of the marks is, from a place on; behind the end if nowhere.  *)
Find(url, marks, from) == Min({i \in from..Len(url) : url[i] \in marks} \cup {Len(url) + 1})

HostBegins(url) == IF Find(url, {"@"}, 1) <= Len(url) THEN Find(url, {"@"}, 1) + 1 ELSE 1
Colon(url) == Find(url, {":"}, HostBegins(url))
HasPort(url) == Colon(url) <= Len(url)
HostEnds(url) == IF HasPort(url) THEN Colon(url) ELSE Find(url, {"/"}, HostBegins(url))
HostIn(url) == SubSeq(url, HostBegins(url), HostEnds(url) - 1)

(* atoi(), of which nothing is looked at: 0 where there is no number. *)
Atoi(text) == IF text # <<>> /\ text[1] \in DOMAIN Number THEN Number[text[1]] ELSE 0
PortText(url) == SubSeq(url, Colon(url) + 1, Find(url, {"/"}, Colon(url) + 1) - 1)

(* No port is the scheme's when a host is named. *)
Scheme(https) == IF https THEN 443 ELSE 80
PortIn(https, url) ==
  IF HasPort(url) THEN Atoi(PortText(url)) ELSE IF HostIn(url) # NoName THEN Scheme(https) ELSE 0

-----------------------------------------------------------------------------
(* What the same URL says by RFC 3986: its authority ends at the first "/" *)
(* or "?", and the host, its credentials and its port are within it.       *)

Ends(url) == Find(url, {"/", "?"}, 1)
SaidBegins(url) == IF Find(url, {"@"}, 1) < Ends(url) THEN Find(url, {"@"}, 1) + 1 ELSE 1
SaidColon(url) == Find(url, {":"}, SaidBegins(url))
SaysPort(url) == SaidColon(url) < Ends(url)
SaidHost(url) == SubSeq(url, SaidBegins(url), (IF SaysPort(url) THEN SaidColon(url) ELSE Ends(url)) - 1)
SaidPort(url) == SubSeq(url, SaidColon(url) + 1, Ends(url) - 1)

(* The URLs that the parser takes for others: with a "@" behind the        *)
(* authority and none in it, or without a port and with a ":" or a "?"     *)
(* behind the host.                                                        *)
Misparsed(url) ==
  \/ Find(url, {"@"}, 1) \in Ends(url)..Len(url)
  \/ ~SaysPort(url) /\ (SaidColon(url) <= Len(url) \/ (Ends(url) <= Len(url) /\ url[Ends(url)] = "?"))

-----------------------------------------------------------------------------
(* The other threads.                                                      *)

(* Another download's httpdwnld_url_parse(), which takes no lock. *)
OtherHost(j) ==
  /\ j.kind \in Downloads /\ j.good
  /\ lastHost' = HostIn(j.url) /\ HostIn(j.url) \notin {NoName, lastHost}
  /\ raced' = (raced \/ (Running /\ shared))
  /\ UNCHANGED <<at, job, lastPort, config, shared, port, peer, hostname, heldVars,
                 timeVars, sendVars, bodyVars, cancel, res, slips>>

OtherPort(j) ==
  /\ j.kind \in Downloads /\ j.good
  /\ lastPort' = PortIn(j.https, j.url) /\ PortIn(j.https, j.url) \notin {0, lastPort}
  /\ UNCHANGED <<at, job, lastHost, config, nameVars, heldVars, timeVars, sendVars,
                 bodyVars, cancel, res, slips>>

Cancel ==
  /\ Running /\ IsDownload /\ ~cancel /\ cancel' = TRUE
  /\ UNCHANGED <<at, job, lastVars, config, nameVars, heldVars, timeVars, sendVars,
                 bodyVars, res, slips>>

-----------------------------------------------------------------------------
(* What is asked for, and the URL.                                         *)

(* httpdwnld_*_init() and the call; the client of a download is new. *)
Start(j) ==
  /\ ~Running /\ job' = j
  /\ at' = (IF j.kind = "call" THEN "config" ELSE "url")
  /\ shared' = FALSE /\ port' = 0 /\ raced' = FALSE
  /\ peer' = (IF j.kind = "call" THEN <<j.url, 0>> ELSE <<NoName, 0>>)
  /\ hostname' = (IF j.kind = "call" THEN j.url ELSE NoName)
  /\ sendTimeout' \in (IF j.kind = "call" THEN {"none", sendTimeout} ELSE {"none"})
  /\ wire' = 0 /\ framed' = FALSE /\ read' = 0 /\ part' = 0
  /\ stored' = 0 /\ capacity' = 0 /\ body' = "open"
  /\ cancel' = FALSE /\ res' = "none" /\ slips' = {}
  /\ UNCHANGED <<lastVars, config, heldVars, option>>

(* A return before the client has anything to close: only wget has a file. *)
Return(code) == at' = "done" /\ res' = code /\ file' = FALSE

UrlFails ==
  /\ at = "url" /\ ~job.good /\ Return("PARM")
  /\ UNCHANGED <<job, lastVars, config, nameVars, socket, ssl, readBuffer, timeVars,
                 sendVars, bodyVars, cancel, slips>>

(* Mutant of UrlHost: every download points to the copy. *)
UrlHostCopied ==
  /\ at = "url" /\ job.good
  /\ port' = PortIn(job.https, job.url)
  /\ IF IsDownload
     THEN /\ at' = "port"
          /\ shared' = TRUE
          /\ lastHost' = (IF HostIn(job.url) # NoName THEN HostIn(job.url) ELSE lastHost)
     ELSE at' = "open" /\ UNCHANGED <<shared, lastHost>>
  /\ UNCHANGED <<job, lastPort, config, peer, hostname, raced, heldVars, timeVars, sendVars,
                 bodyVars, cancel, res, slips>>

(* The copy is of up to 127 characters; a longer host is too long for the  *)
(* client, and so is its copy.                                             *)
UrlHost ==
  /\ at = "url" /\ job.good
  /\ port' = PortIn(job.https, job.url)
  /\ IF IsDownload
     THEN /\ at' = "port"
          /\ shared' = (HostIn(job.url) = NoName)
          /\ lastHost' = (IF HostIn(job.url) # NoName THEN HostIn(job.url) ELSE lastHost)
     ELSE at' = "open" /\ UNCHANGED <<shared, lastHost>>
  /\ UNCHANGED <<job, lastPort, config, peer, hostname, raced, heldVars, timeVars, sendVars,
                 bodyVars, cancel, res, slips>>

LastPort ==
  /\ at = "port" /\ at' = "resolve"
  /\ port' = (IF port # 0 THEN port ELSE IF lastPort # 0 THEN lastPort ELSE Scheme(job.https))
  /\ lastPort' = (IF port # 0 THEN port ELSE lastPort)
  /\ UNCHANGED <<job, lastHost, config, shared, peer, hostname, raced, heldVars, timeVars,
                 sendVars, bodyVars, cancel, res, slips>>

(* wget opens its file first; where it is opened and cannot be truncated,  *)
(* it stays open.                                                          *)
WgetOpen ==
  /\ at = "open"
  /\ \/ at' = "resolve" /\ file' = TRUE /\ UNCHANGED <<res, slips>>
     \/ Return("ERROR") /\ UNCHANGED slips
     \/ at' = "done" /\ res' = "ERROR" /\ file' = TRUE /\ slips' = {"untruncated"}
  /\ UNCHANGED <<job, lastVars, config, nameVars, socket, ssl, readBuffer, timeVars,
                 sendVars, bodyVars, cancel>>

Host == IF shared THEN lastHost ELSE HostIn(job.url)

(* Of the port sixteen bits are left. *)
Resolve ==
  /\ at = "resolve"
  /\ \/ at' = "name" /\ Host # NoName /\ peer' = <<Host, port % PortWord>> /\ UNCHANGED <<res, file>>
     \/ Return("HOST") /\ UNCHANGED peer
  /\ UNCHANGED <<job, lastVars, config, shared, port, hostname, raced, socket, ssl, readBuffer,
                 timeVars, sendVars, bodyVars, cancel, slips>>

(* httpclient_set_hostname() reads the name again; one of several texts    *)
(* may be too long as well.                                                *)
SetHostname ==
  /\ at = "name"
  /\ \/ /\ Len(Host) > 1 \/ \E i \in DOMAIN Host : Host[i] \in BadTexts
        /\ hostname' = NoName /\ Return("PARM")
     \/ /\ \A i \in DOMAIN Host : Host[i] \notin BadTexts
        /\ hostname' = Host /\ at' = "config" /\ UNCHANGED <<res, file>>
  /\ UNCHANGED <<job, lastVars, config, shared, port, peer, raced, socket, ssl, readBuffer,
                 timeVars, sendVars, bodyVars, cancel, slips>>

(* mbedtlsutils_get_client_config(), under its mutex. *)
GetConfig ==
  /\ at = "config"
  /\ \/ ~job.https /\ at' = "socket" /\ UNCHANGED <<config, res, file>>
     \/ job.https /\ config' = TRUE /\ at' = "socket" /\ UNCHANGED <<res, file>>
     \/ job.https /\ ~config /\ Return("SSL_CONNECT") /\ UNCHANGED config
  /\ UNCHANGED <<job, lastVars, nameVars, socket, ssl, readBuffer, timeVars, sendVars,
                 bodyVars, cancel, slips>>

-----------------------------------------------------------------------------
(* httpclient_connect().                                                   *)

Leave(code) == at' = "close" /\ res' = code

SocketKeepsTimeout ==
  /\ at = "socket"
  /\ \/ /\ socket' = TRUE /\ option' = "none" /\ UNCHANGED sendTimeout
        /\ at' = (IF job.https THEN "tls" ELSE "connect") /\ UNCHANGED res
     \/ Leave("ERROR") /\ UNCHANGED <<socket, timeVars>>
  /\ UNCHANGED <<around, ssl, readBuffer, file, sendVars, bodyVars, slips>>

Socket ==
  /\ at = "socket"
  /\ \/ /\ socket' = TRUE /\ sendTimeout' = "none" /\ option' = "none"
        /\ at' = (IF job.https THEN "tls" ELSE "connect") /\ UNCHANGED res
     \/ Leave("ERROR") /\ UNCHANGED <<socket, timeVars>>
  /\ UNCHANGED <<around, ssl, readBuffer, file, sendVars, bodyVars, slips>>

(* The TLS context is allocated, set up, and given the name. *)
TlsSetup ==
  /\ at = "tls"
  /\ \/ ssl' = TRUE /\ at' = "connect" /\ UNCHANGED res
     \/ \E code \in {"MEMORY", "PARM"} :
          Leave(code) /\ ssl' \in {FALSE} \cup (IF hostname # NoName THEN {TRUE} ELSE {})
  /\ UNCHANGED <<around, socket, readBuffer, file, timeVars, sendVars, bodyVars, slips>>

Connect ==
  /\ at = "connect"
  /\ \/ at' = (IF ssl THEN "handshake" ELSE "connected") /\ UNCHANGED <<socket, res>>
     \/ \E code \in {"TIMEOUT", "CONNECTION"} : Leave(code) /\ socket' = FALSE
  /\ UNCHANGED <<around, ssl, readBuffer, file, timeVars, sendVars, bodyVars, slips>>

(* httpclient_set_send_timeout(): the stack may refuse the option.         *)
SetSendTimeout(timeout) ==
  IF sendTimeout = timeout THEN UNCHANGED timeVars
  ELSE sendTimeout' = timeout /\ option' \in {timeout, "refused"}

TlsError == {"TIMEOUT", "MEMORY", "CONNECTION"}
HandshakeError == TlsError \cup {"SSL_TRUST", "PARM", "SSL_CONNECT"}
WaitError == {"ERROR", "CONNECTION", "TIMEOUT"}

(* As many waits as it takes, or until one or the handshake fails. *)
Handshake ==
  /\ at = "handshake"
  /\ SetSendTimeout("connect")
  /\ \/ at' = "connected" /\ UNCHANGED res
     \/ \E code \in HandshakeError \cup WaitError : Leave(code)
  /\ UNCHANGED <<around, heldVars, sendVars, bodyVars, slips>>

(* The callback of a download learns of the connection. *)
Connected ==
  /\ at = "connected"
  /\ IF IsDownload /\ cancel THEN Leave("CANCELED") ELSE at' = "head" /\ UNCHANGED res
  /\ UNCHANGED <<around, heldVars, timeVars, sendVars, bodyVars, slips>>

-----------------------------------------------------------------------------
(* The request.                                                            *)

(* Whatever httpclient_write() sends, in as many pieces, it sends all of   *)
(* it or fails, and what fails is closed.                                  *)
WriteError == {"TIMEOUT", "CONNECTION"} \cup (IF ssl THEN {"MEMORY"} ELSE {})
Writes(next) ==
  /\ SetSendTimeout("send")
  /\ \/ at' = next /\ UNCHANGED res
     \/ \E code \in WriteError : Leave(code)

(* httpclient_send_head(): the endpoint is looked at, the connection too,  *)
(* and the head must fit its buffer.                                       *)
SendHead ==
  /\ at = "head"
  /\ Writes(IF job.method = "get" THEN "response" ELSE "body")
  /\ framed' = (at' = "response")
  /\ UNCHANGED <<around, heldVars, wire, bodyVars, slips>>

SendHeadFails ==
  /\ at = "head"
  /\ \E code \in {"PARM", "CONNECTION", "MEMORY", "LENGTH"} : Leave(code)
  /\ UNCHANGED <<around, heldVars, timeVars, sendVars, bodyVars, slips>>

(* httpclient_post(). *)
PostBody ==
  /\ at = "body" /\ job.method = "post"
  /\ Writes("response")
  /\ framed' = (at' = "response") /\ wire' = (IF framed' THEN job.len ELSE wire)
  /\ UNCHANGED <<around, heldVars, bodyVars, slips>>

(* httpclient_post_chunked(): the body as one chunk if there is any, and   *)
(* the last chunk.                                                         *)
PostChunk ==
  /\ at = "body" /\ job.method = "chunked" /\ wire < job.len
  /\ Writes("body")
  /\ wire' = (IF at' = "body" THEN job.len ELSE wire)
  /\ UNCHANGED <<around, heldVars, framed, bodyVars, slips>>

PostLastChunk ==
  /\ at = "body" /\ job.method = "chunked" /\ wire = job.len
  /\ Writes("response") /\ framed' = (at' = "response")
  /\ UNCHANGED <<around, heldVars, wire, bodyVars, slips>>

(* httpclient_write_stream(): the application's stream sends some of what  *)
(* is left, or more, and says how much, or fails with a code of its own.  *)
StreamBody ==
  /\ at = "body" /\ job.method = "stream" /\ wire < job.len
  /\ SetSendTimeout("send")
  /\ \E n \in 1..(job.len - wire + 1) : wire' = wire + n
  /\ UNCHANGED <<at, res, around, heldVars, framed, bodyVars, slips>>

StreamFails ==
  /\ at = "body" /\ job.method = "stream" /\ wire < job.len
  /\ SetSendTimeout("send")
  /\ \E code \in WriteError \cup {"ERROR"} : Leave(code)
  /\ UNCHANGED <<around, heldVars, sendVars, bodyVars, slips>>

StreamEnds ==
  /\ at = "body" /\ job.method = "stream" /\ wire >= job.len
  /\ IF wire > job.len THEN Leave("ERROR") /\ UNCHANGED framed
     ELSE at' = "response" /\ framed' = TRUE /\ UNCHANGED res
  /\ UNCHANGED <<around, heldVars, timeVars, wire, bodyVars, slips>>

-----------------------------------------------------------------------------
(* The response.                                                           *)

ReadError == {"TIMEOUT", "CONNECTION", "HEADER", "CONTENT", "LENGTH", "MEMORY", "ERROR"}

(* The head, and its status: wget and a download want a 2xx. *)
ReadResponse ==
  /\ at = "response"
  /\ \/ readBuffer' = TRUE /\ at' = "status" /\ UNCHANGED res
     \/ readBuffer' = TRUE /\ job.kind # "call"
          /\ Leave(IF job.kind = "wget" THEN "ERROR" ELSE "CONTENT")
     \/ readBuffer' \in BOOLEAN /\ \E code \in ReadError : Leave(code)
  /\ UNCHANGED <<around, socket, ssl, file, timeVars, sendVars, bodyVars, slips>>

(* The callback of a download to the file system opens the file. *)
StatusCb ==
  /\ at = "status"
  /\ IF job.kind = "fs"
     THEN \E opens \in (IF job.path THEN BOOLEAN ELSE {FALSE}) :
            /\ file' = opens
            /\ IF cancel THEN Leave("CANCELED")
               ELSE IF job.path /\ ~opens THEN Leave("FILE")
               ELSE at' = "next" /\ UNCHANGED res
     ELSE at' = "next" /\ UNCHANGED <<file, res>>
  /\ UNCHANGED <<around, socket, ssl, readBuffer, timeVars, sendVars, bodyVars, slips>>

(* A part of n bytes is read, and given to the callback. *)
ReadNext(n) ==
  /\ at = "next" /\ read + n <= ReadMax
  /\ at' = "part" /\ part' = n /\ read' = read + n
  /\ UNCHANGED <<around, res, heldVars, timeVars, sendVars, stored, capacity, body, slips>>

ReadEnds ==
  /\ at = "next" /\ Leave("OK") /\ body' = "whole"
  /\ UNCHANGED <<around, heldVars, timeVars, sendVars, read, part, stored, capacity, slips>>

ReadFailsAfterParts ==
  /\ at = "next" /\ (\E code \in ReadError : Leave(IF read > 0 THEN "OK" ELSE code))
  /\ body' = "cut"
  /\ UNCHANGED <<around, heldVars, timeVars, sendVars, read, part, stored, capacity, slips>>

ReadFails ==
  /\ at = "next" /\ (\E code \in ReadError : Leave(code)) /\ body' = "cut"
  /\ UNCHANGED <<around, heldVars, timeVars, sendVars, read, part, stored, capacity, slips>>

(* What a callback returns: a cancelled download goes before its errors.   *)
CbReturns(code) ==
  LET returned == IF cancel THEN "CANCELED" ELSE code
  IN  IF returned = "OK" THEN at' = "next" /\ UNCHANGED res ELSE Leave(returned)

(* httpdwnld_mem_download_cb(): it grows by steps until the part fits.     *)
Fits(room) ==
  /\ room >= stored + part
  /\ room = capacity \/ room - Grow < stored + part

MemPart ==
  /\ at = "part" /\ job.kind = "mem"
  /\ \E room \in {capacity + i * Grow : i \in 0..(read + 1)} :
       /\ Fits(room)
       /\ \/ capacity' = room /\ stored' = stored + part /\ CbReturns("OK")
          \/ room > capacity /\ Leave("NOMEM") /\ UNCHANGED <<stored, capacity>>
  /\ UNCHANGED <<around, heldVars, timeVars, sendVars, read, part, body, slips>>

(* httpdwnld_fs_download_cb(): the limit is checked for what was written   *)
(* before; what is written of the part counts, and it may be less.        *)
FsPart ==
  /\ at = "part" /\ job.kind = "fs"
  /\ \/ job.limit # 0 /\ stored > job.limit /\ Leave("FULL") /\ UNCHANGED <<stored, slips>>
     \/ /\ job.limit = 0 \/ stored <= job.limit
        /\ \/ stored' = stored + part /\ CbReturns("OK") /\ UNCHANGED slips
           \/ file /\ CbReturns("FAIL") /\ UNCHANGED <<stored, slips>>
           \/ file /\ slips' = slips \cup {"short"} /\ CbReturns("OK")
                /\ \E n \in 0..(part - 1) : stored' = stored + n
  /\ UNCHANGED <<around, heldVars, timeVars, sendVars, read, part, capacity, body>>

TestPart ==
  /\ at = "part" /\ job.kind = "test"
  /\ stored' = stored + part /\ CbReturns("OK")
  /\ UNCHANGED <<around, heldVars, timeVars, sendVars, read, part, capacity, body, slips>>

(* wget writes to its file, an application keeps what it is given. *)
OtherPart ==
  /\ at = "part" /\ ~IsDownload
  /\ \/ stored' = stored + part /\ at' = "next" /\ UNCHANGED res
     \/ job.kind = "wget" /\ Leave("ERROR") /\ UNCHANGED stored
  /\ UNCHANGED <<around, heldVars, timeVars, sendVars, read, part, capacity, body, slips>>

-----------------------------------------------------------------------------
(* httpclient_read_complete_ex() and httpclient_close(), which every way   *)
(* out of the above calls, and the caller's file.                          *)

CloseOfSocket ==
  /\ at = "close" /\ at' = "done"
  /\ ssl' = (ssl /\ ~socket) /\ socket' = FALSE /\ readBuffer' = FALSE /\ file' = FALSE
  /\ UNCHANGED <<around, res, timeVars, sendVars, bodyVars, slips>>

Close ==
  /\ at = "close" /\ at' = "done"
  /\ ssl' = FALSE /\ socket' = FALSE /\ readBuffer' = FALSE /\ file' = FALSE
  /\ UNCHANGED <<around, res, timeVars, sendVars, bodyVars, slips>>

Next ==
  \/ \E j \in Jobs : OtherHost(j) \/ OtherPort(j)
  \/ Cancel
  \/ \E j \in Jobs : Start(j)
  \/ UrlFails \/ UrlHost \/ LastPort \/ WgetOpen \/ Resolve \/ SetHostname \/ GetConfig
  \/ Socket \/ TlsSetup \/ Connect \/ Handshake \/ Connected
  \/ SendHead \/ SendHeadFails \/ PostBody \/ PostChunk \/ PostLastChunk
  \/ StreamBody \/ StreamFails \/ StreamEnds
  \/ ReadResponse \/ StatusCb \/ ReadEnds \/ ReadFails
  \/ \E n \in 1..PartMax : ReadNext(n)
  \/ MemPart \/ FsPart \/ TestPart \/ OtherPart \/ Close

Spec == Init /\ [][Next]_vars

-----------------------------------------------------------------------------
(* Each variable has its type, what is kept fits where it is kept, and the *)
(* client knows the timeout of its socket unless the stack refused it.     *)
TypeOK ==
  /\ at \in {"done", "url", "port", "open", "resolve", "name", "config", "socket", "tls",
             "connect", "handshake", "connected", "head", "body", "response", "status",
             "next", "part", "close"}
  /\ job \in Jobs \cup {NoJob} /\ {config, shared, framed, cancel, raced} \subseteq BOOLEAN
  /\ {socket, ssl, readBuffer, file} \subseteq BOOLEAN
  /\ lastPort \in Int /\ port \in Int /\ peer[2] \in 0..PortWord-1 /\ slips \subseteq {"untruncated", "short"}
  /\ wire \in 0..(job.len + 1) /\ read \in 0..ReadMax /\ stored \in 0..read /\ part \in 0..PartMax
  /\ body \in {"open", "whole", "cut"}
  /\ job.kind = "mem" => stored <= capacity /\ capacity < stored + Grow
  /\ socket => option \in {sendTimeout, "refused"}

(* Whichever step of a download, a wget or a call fails, its socket, TLS   *)
(* context, receive buffer and file are given back when it returns         *)
(* (httpclient_connect() leaves some of them to httpclient_close(), and    *)
(* three returns of httpdwnld_download() skip it), except wget's file that *)
(* cannot be truncated.                                                    *)
NothingLeaks ==
  at = "done" => ~socket /\ ~ssl /\ ~readBuffer /\ (file => "untruncated" \in slips)

(* A download that returns a number of bytes, not an error, was asked for  *)
(* with a whole request, was answered to the end of the body, and kept     *)
(* every byte of it: no failed, cancelled or cut short one looks like it.  *)
(* A file written short is the exception.                                  *)
ResultIsWhole ==
  at = "done" /\ res = "OK" =>
    /\ framed /\ wire = job.len /\ body = "whole"
    /\ stored = read \/ "short" \in slips

(* The request goes to the host and port of its URL and says so in its     *)
(* Host field, whatever other downloads parse: the port that the URL names *)
(* when it is one, the scheme's when it names none.  The exceptions are    *)
(* the URLs that httpparse_url_parse() misparses.  A URL without a host    *)
(* goes to one host throughout, unless another download took its place.    *)
AsksItsHost ==
  at \in {"head", "body", "response", "next", "part"} =>
    /\ job.kind # "call" /\ ~Misparsed(job.url) =>
         /\ SaidHost(job.url) # NoName => peer[1] = SaidHost(job.url) /\ hostname = SaidHost(job.url)
         /\ SaidHost(job.url) # NoName /\ ~SaysPort(job.url) => peer[2] = Scheme(job.https)
         /\ \A n \in DOMAIN Number :
              SaysPort(job.url) /\ SaidPort(job.url) = <<n>> /\ Number[n] \in 1..PortWord-1 => peer[2] = Number[n]
    /\ ~raced => peer[1] = hostname

=============================================================================
