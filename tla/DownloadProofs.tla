--------------------------- MODULE DownloadProofs ---------------------------
(***************************************************************************)
(* Downloads, for any set of requests, any other threads, and parts and    *)
(* bodies of any size: what a download returns is what it kept, it goes to *)
(* the host of its URL, and it gives back what it took.                    *)
(***************************************************************************)
EXTENDS Download, WellFoundedInduction, TLAPS

(* The places in their order: those without a connection, those where the  *)
(* name of the host is known, and those where the request is sent.         *)
Unconnected == {"url", "port", "open", "resolve", "name", "config"}
Connecting == {"socket", "tls", "connect", "handshake", "connected"}
Named == Connecting \cup {"config", "head", "body", "response", "status", "next", "part"}
Answering == {"response", "status", "next", "part"}
Places == Unconnected \cup Named \cup {"done", "close"}

(* The job is one that was asked for.                                      *)
JobOK == (at # "done" => job \in Jobs) /\ job \in Jobs \cup {NoJob}

Flags ==
  /\ config \in BOOLEAN /\ shared \in BOOLEAN /\ framed \in BOOLEAN
  /\ cancel \in BOOLEAN /\ raced \in BOOLEAN
  /\ socket \in BOOLEAN /\ ssl \in BOOLEAN /\ readBuffer \in BOOLEAN /\ file \in BOOLEAN

Words ==
  /\ at \in Places
  /\ lastPort \in Int /\ port \in Int /\ peer[2] \in 0..PortWord-1
  /\ slips \subseteq {"untruncated", "short"}
  /\ body \in {"open", "whole", "cut"}

(* What is held: nothing of a connection before it is asked for, and       *)
(* nothing when the call has returned.                                     *)
HeldOK ==
  /\ at \in Unconnected \cup {"socket", "done"} => ~socket /\ ~ssl /\ ~readBuffer
  /\ at = "done" => (file => "untruncated" \in slips)
  /\ socket => option \in {sendTimeout, "refused"}

(* What was sent of the request's body, up to its end.                     *)
SentOK ==
  /\ wire \in Nat /\ wire <= job.len + 1
  /\ at \in Unconnected \cup Connecting \cup {"head"} => wire = 0
  /\ at = "body" => job.method # "get" /\ (job.method # "stream" => wire <= job.len)
  /\ at = "body" /\ job.method = "post" => wire = 0
  /\ at \in Answering => framed /\ wire = job.len

(* What was read of the response's body, and kept.                         *)
KeptOK ==
  /\ read \in 0..ReadMax /\ part \in 0..PartMax /\ stored \in Nat /\ capacity \in Nat
  /\ stored <= read
  /\ at \in Unconnected \cup Connecting \cup {"head", "body", "response", "status"}
       => read = 0 /\ stored = 0
  /\ at = "part" => stored + part <= read
  /\ at = "part" => stored + part = read \/ "short" \in slips
  /\ at = "next" => stored = read \/ "short" \in slips
  /\ capacity < stored + Grow
  /\ job.kind = "mem" => stored <= capacity

(* Success is only on its way out, or returned, when all is there.         *)
ResultOK ==
  at \in {"close", "done"} /\ res = "OK" =>
    /\ framed /\ wire = job.len /\ body = "whole"
    /\ stored = read \/ "short" \in slips

(* The host that the download points to, and the one it was resolved from. *)
HostOK ==
  /\ shared => HostIn(job.url) = NoName
  /\ at = "name" /\ ~raced => peer[1] = Host
  /\ at = "name" /\ HostIn(job.url) # NoName => peer[1] = HostIn(job.url)
  /\ at \in Named => (~raced => peer[1] = hostname)
  /\ at \in Named /\ job.kind # "call" /\ HostIn(job.url) # NoName =>
       peer[1] = HostIn(job.url) /\ hostname = HostIn(job.url)

(* The port of the URL, where it has one or a host.                        *)
PortOK ==
  job.kind # "call" /\ PortIn(job.https, job.url) # 0 =>
    /\ at \in {"port", "open", "resolve", "name"} => port = PortIn(job.https, job.url)
    /\ at \in Named \cup {"name"} => peer[2] = PortIn(job.https, job.url) % PortWord

(* An application's call has its client ready.                             *)
CallOK == at \in {"url", "port", "open", "resolve", "name"} => job.kind # "call"

IInv ==
  /\ JobOK /\ Flags /\ Words
  /\ HeldOK /\ SentOK /\ KeptOK /\ ResultOK /\ HostOK /\ PortOK /\ CallOK

-----------------------------------------------------------------------------
(* Where the parser finds a mark, and that what it makes of a URL is what  *)
(* the URL says, but for those that are misparsed.                         *)
LEMMA NatMin ==
  ASSUME NEW T \in SUBSET Nat, T # {}
  PROVE  \E x \in T : \A y \in T : x <= y
<1> DEFINE R == OpToRel(<, Nat)
<1>1. \A x, y \in Nat : x < y => <<x, y>> \in R
  BY DEF OpToRel
<1>2. IsWellFoundedOn(R, Nat)
  BY NatLessThanWellFounded
<1> HIDE DEF R
<1>3. PICK x \in T : \A y \in T : ~(<<y, x>> \in R)
  BY <1>2, WFMin
<1>4. ASSUME NEW y \in T PROVE x <= y
  <2>1. x \in Nat /\ y \in Nat /\ ~(y < x)
    BY <1>1, <1>3
  <2> QED
    BY <2>1
<1> QED
  BY <1>4

LEMMA MinOf ==
  ASSUME NEW s \in SUBSET Nat, s # {}
  PROVE  Min(s) \in s /\ \A y \in s : Min(s) <= y
<1>1. \E x \in s : \A y \in s : x <= y
  BY NatMin
<1> QED
  BY <1>1 DEF Min

LEMMA FindIs ==
  ASSUME NEW url \in Seq(Tokens), NEW marks, NEW from \in 1..Len(url)+1
  PROVE  /\ Find(url, marks, from) \in from..Len(url)+1
         /\ Find(url, marks, from) <= Len(url) => url[Find(url, marks, from)] \in marks
         /\ \A i \in from..Find(url, marks, from)-1 : url[i] \notin marks
<1> DEFINE s == {i \in from..Len(url) : url[i] \in marks} \cup {Len(url) + 1}
<1>1. Min(s) \in s /\ \A y \in s : Min(s) <= y
  <2>1. s \in SUBSET Nat /\ s # {}
    OBVIOUS
  <2> QED
    BY <2>1, MinOf
<1>2. Find(url, marks, from) = Min(s)
  BY DEF Find
<1>3. \A i \in from..Min(s)-1 : url[i] \notin marks
  BY <1>1
<1> QED
  BY <1>1, <1>2, <1>3

LEMMA ModIs ==
  ASSUME NEW m \in Nat \ {0}, NEW p \in Int
  PROVE  p % m \in 0..m-1 /\ (p \in 0..m-1 => p % m = p)
OBVIOUS

LEMMA PortWordIs == PortWord \in Nat \ {0} /\ 80 \in 1..PortWord-1 /\ 443 \in 1..PortWord-1
BY DEF PortWord

LEMMA PortIsInt == \A https, url : PortIn(https, url) \in Int
BY TextsAssumption DEF PortIn, Atoi, Scheme

(* The host, and whether there is a port.                                  *)
LEMMA HostAgrees ==
  ASSUME NEW url \in Seq(Tokens), ~Misparsed(url)
  PROVE  /\ HostIn(url) = SaidHost(url) /\ (HasPort(url) <=> SaysPort(url))
         /\ Colon(url) = SaidColon(url)
<1> DEFINE a == Find(url, {"@"}, 1)
           e == Ends(url)
           b == HostBegins(url)
           c == Colon(url)
<1>1. Len(url) \in Nat /\ 1 \in 1..Len(url)+1
  OBVIOUS
<1>2. a \in 1..Len(url)+1
  BY <1>1, FindIs
<1>3. /\ e \in 1..Len(url)+1 /\ (e <= Len(url) => url[e] \in {"/", "?"})
      /\ \A i \in 1..e-1 : url[i] \notin {"/", "?"}
  BY <1>1, FindIs DEF Ends
<1>4. a < e \/ a = Len(url) + 1
  BY <1>2, <1>3 DEF Misparsed
<1>5. SaidBegins(url) = b /\ b \in 1..e
  BY <1>1, <1>2, <1>3, <1>4 DEF SaidBegins, HostBegins
<1>6. SaidColon(url) = c
  BY <1>5 DEF SaidColon, Colon
<1>7. c \in b..Len(url)+1
  BY <1>3, <1>5, FindIs DEF Colon
<1>8. HasPort(url) <=> SaysPort(url)
  BY <1>1, <1>3, <1>6, <1>7 DEF HasPort, SaysPort, Misparsed
<1>9. ~HasPort(url) => Find(url, {"/"}, b) = e
  <2> DEFINE f == Find(url, {"/"}, b)
  <2> SUFFICES ASSUME ~HasPort(url) PROVE f = e
    OBVIOUS
  <2>1. e <= Len(url) => url[e] = "/"
    BY <1>3, <1>8 DEF Misparsed
  <2>2. f \in b..Len(url)+1 /\ (f <= Len(url) => url[f] \in {"/"}) /\ \A i \in b..f-1 : url[i] \notin {"/"}
    BY <1>3, <1>5, FindIs
  <2> HIDE DEF f, e, b
  <2>3. ~(f < e)
    BY <1>1, <1>3, <1>5, <2>2
  <2>4. ~(e < f)
    BY <1>1, <1>3, <1>5, <2>1, <2>2
  <2> QED
    BY <1>1, <1>3, <1>5, <2>2, <2>3, <2>4
<1> QED
  BY <1>5, <1>6, <1>8, <1>9 DEF HostIn, SaidHost, HostEnds

(* The port, where the URL names a number.                                 *)
LEMMA PortAgrees ==
  ASSUME NEW url \in Seq(Tokens), ~Misparsed(url), SaysPort(url), NEW n \in DOMAIN Number,
         SaidPort(url) = <<n>>
  PROVE  HasPort(url) /\ Atoi(PortText(url)) = Number[n]
<1> DEFINE c == Colon(url)
           f == Find(url, {"/"}, c + 1)
<1>1. HasPort(url) /\ SaidColon(url) = c
  BY HostAgrees
<1>2. c \in Nat /\ c + 1 \in 1..Len(url)+1 /\ Ends(url) \in 1..Len(url)+1
  <2>1. Len(url) \in Nat /\ 1 \in 1..Len(url)+1
    OBVIOUS
  <2>2. Find(url, {"@"}, 1) \in 1..Len(url)+1 /\ Ends(url) \in 1..Len(url)+1
    BY <2>1, FindIs DEF Ends
  <2>3. HostBegins(url) \in 1..Len(url)+1
    BY <2>1, <2>2 DEF HostBegins
  <2>4. c \in HostBegins(url)..Len(url)+1
    BY <2>3, FindIs DEF Colon
  <2> QED
    BY <1>1, <2>1, <2>2, <2>3, <2>4 DEF HasPort
<1> HIDE DEF c
<1>3. SubSeq(url, c + 1, Ends(url) - 1) = <<n>>
  BY <1>1 DEF SaidPort
<1>4. Ends(url) - 1 = c + 1 /\ url[c + 1] = n
  <2> DEFINE e == Ends(url)
             t == SubSeq(url, c + 1, e - 1)
  <2>0. t = <<n>>
    BY <1>3
  <2>1. Len(t) = 1 /\ t[1] = n
    <3>1. Len(<<n>>) = 1 /\ <<n>>[1] = n
      OBVIOUS
    <3> QED
      BY <2>0, <3>1
  <2> HIDE DEF e
  <2>2. e \in 1..Len(url)+1
    BY <1>2 DEF e
  <2>3. Len(t) = IF c + 1 <= e - 1 THEN e - 1 - c ELSE 0
    BY <1>2, <2>2
  <2>4. e - 1 = c + 1
    BY <1>2, <2>1, <2>2, <2>3
  <2>5. t[1] = url[c + 1]
    BY <1>2, <2>2, <2>4
  <2> QED
    BY <2>1, <2>4, <2>5 DEF e
<1>5. f \in c+1..Len(url)+1 /\ (f <= Len(url) => url[f] \in {"/"})
  BY <1>2, FindIs
<1>6. n # "/"
  BY TextsAssumption DEF Marks
<1>7. f # c + 1
  BY <1>2, <1>4, <1>5, <1>6
<1> HIDE DEF f
<1>8. PortText(url) = SubSeq(url, c + 1, f - 1)
  BY DEF PortText, f, c
<1>9. Len(PortText(url)) >= 1 /\ PortText(url)[1] = n
  BY <1>2, <1>4, <1>5, <1>7, <1>8
<1>10. PortText(url) # <<>>
  BY <1>9
<1> QED
  BY <1>1, <1>9, <1>10 DEF Atoi

-----------------------------------------------------------------------------
(* What is known of a job.                                                 *)
LEMMA JobFacts ==
  ASSUME JobOK
  PROVE  /\ job.len \in Nat /\ job.url \in Seq(Tokens)
         /\ job.kind \in Kinds /\ job.method \in Methods
         /\ job.method = "get" => job.len = 0
<1>1. CASE job \in Jobs
  BY <1>1, JobsAssumption
<1>2. CASE job = NoJob
  BY <1>2 DEF NoJob, Kinds, Methods, NoName
<1> QED
  BY <1>1, <1>2 DEF JobOK

LEMMA InitOK == Init => IInv
<1> SUFFICES ASSUME Init
             PROVE  IInv
  OBVIOUS
<1>1. JobOK /\ Words
  BY DEF Init, JobOK, Words, Places, PortWord
<1>2. Flags
  BY Zenon DEF Init, Flags
<1>3. HeldOK /\ ResultOK /\ HostOK /\ CallOK
  BY DEF Init, HeldOK, ResultOK, HostOK, CallOK, Unconnected, Named, Connecting
<1>4. SentOK /\ KeptOK
  BY JobsAssumption DEF Init, SentOK, KeptOK, NoJob, Unconnected, Connecting, Answering
<1>5. PortOK
  BY DEF Init, PortOK, NoJob
<1> QED
  BY <1>1, <1>2, <1>3, <1>4, <1>5 DEF IInv

-----------------------------------------------------------------------------
(* The other threads.                                                      *)
LEMMA OthersOK ==
  ASSUME IInv, (\E j \in Jobs : OtherHost(j) \/ OtherPort(j)) \/ Cancel
  PROVE  IInv'
<1> USE DEF IInv
<1>1. ASSUME NEW j \in Jobs, OtherHost(j) PROVE IInv'
  <2>1. HostOK'
    BY <1>1 DEF OtherHost, HostOK, Host, Running, heldVars, timeVars, sendVars, bodyVars, Named, Connecting
  <2>2. Flags'
    <3>1. raced' \in BOOLEAN
      BY <1>1, Zenon DEF OtherHost
    <3> QED
      BY <1>1, <3>1 DEF OtherHost, Flags, heldVars, sendVars
  <2> QED
    BY <1>1, <2>1, <2>2 DEF OtherHost, JobOK, Words, HeldOK, SentOK, KeptOK, ResultOK, PortOK, CallOK,
       heldVars, timeVars, sendVars, bodyVars
<1>2. ASSUME NEW j \in Jobs, OtherPort(j) PROVE IInv'
  <2>1. HostOK' /\ PortOK'
    BY <1>2 DEF OtherPort, nameVars, HostOK, Host, PortOK
  <2>2. Flags'
    BY <1>2 DEF OtherPort, Flags, nameVars, heldVars, sendVars
  <2> QED
    BY <1>2, <2>1, <2>2, PortIsInt DEF OtherPort, nameVars, JobOK, Words, HeldOK, SentOK, KeptOK, ResultOK, CallOK,
       heldVars, timeVars, sendVars, bodyVars
<1>3. CASE Cancel
  <2>1. HostOK' /\ PortOK'
    BY <1>3 DEF Cancel, lastVars, nameVars, HostOK, Host, PortOK
  <2>2. Flags'
    BY <1>3 DEF Cancel, Flags, nameVars, heldVars, sendVars
  <2> QED
    BY <1>3, <2>1, <2>2 DEF Cancel, lastVars, nameVars, JobOK, Words, HeldOK, SentOK, KeptOK, ResultOK,
       CallOK,
       heldVars, timeVars, sendVars, bodyVars
<1> QED
  BY <1>1, <1>2, <1>3

(* A new request.                                                          *)
LEMMA StartOK ==
  ASSUME IInv, NEW j \in Jobs, Start(j)
  PROVE  IInv'
<1> USE DEF IInv
<1>1. JobOK' /\ Words'
  <2>1. peer'[2] = 0 /\ 0 \in 0..PortWord-1 /\ at' \in Places /\ job' \in Jobs
    BY DEF Start, PortWord, Places, Unconnected, Named, Connecting
  <2> QED
    BY <2>1 DEF Start, JobOK, Words, lastVars
<1>2. Flags'
  BY DEF Start, Flags, heldVars
<1>3. HeldOK'
  BY DEF Start, HeldOK, Running, Unconnected, heldVars
<1>4. SentOK' /\ KeptOK'
  BY JobsAssumption DEF Start, SentOK, KeptOK, Unconnected, Connecting, Answering
<1>5. ResultOK' /\ CallOK'
  BY DEF Start, ResultOK, CallOK
<1>6. HostOK' /\ PortOK'
  <2>1. peer'[1] = hostname' /\ at' \in {"config", "url"} /\ (at' = "config" => job'.kind = "call")
    BY DEF Start
  <2> QED
    BY <2>1 DEF Start, HostOK, PortOK, Named, Connecting
<1> QED
  BY <1>1, <1>2, <1>3, <1>4, <1>5, <1>6

-----------------------------------------------------------------------------
(* The URL, the name of the host, and the configuration.                   *)
LEMMA UrlOK ==
  ASSUME IInv, UrlFails \/ UrlHost \/ LastPort \/ WgetOpen \/ Resolve \/ SetHostname \/ GetConfig
  PROVE  IInv'
<1> USE DEF IInv, Return
<1>0. UNCHANGED <<job, socket, ssl, readBuffer, timeVars, sendVars, bodyVars, cancel>>
  BY DEF UrlFails, UrlHost, LastPort, WgetOpen, Resolve, SetHostname, GetConfig, heldVars
<1>1. at \in Unconnected /\ at' \in Unconnected \cup {"socket", "done"}
  BY DEF UrlFails, UrlHost, LastPort, WgetOpen, Resolve, SetHostname, GetConfig, Unconnected
<1>2. JobOK'
  BY <1>0, <1>1 DEF JobOK, Unconnected
<1>3. SentOK' /\ KeptOK'
  BY <1>0, <1>1 DEF SentOK, KeptOK, Unconnected, Connecting, Answering, sendVars, bodyVars
<1>4. at' = "done" => res' # "OK"
  BY <1>1 DEF UrlFails, UrlHost, LastPort, WgetOpen, Resolve, SetHostname, GetConfig
<1>5. ResultOK'
  BY <1>1, <1>4 DEF ResultOK, Unconnected
<1>6. Words'
  <2>1. PortIn(job.https, job.url) \in Int /\ Scheme(job.https) \in Int
    BY PortIsInt DEF Scheme
  <2>2. lastPort' \in Int /\ port' \in Int
    BY <2>1 DEF UrlFails, UrlHost, LastPort, WgetOpen, Resolve, SetHostname, GetConfig, Words, lastVars,
       nameVars
  <2>4. peer'[2] \in 0..PortWord-1
    <3>1. port % PortWord \in 0..PortWord-1
      <4>1. PortWord \in Nat \ {0} /\ port \in Int
        BY PortWordIs DEF Words
      <4> QED
        BY <4>1, ModIs
    <3> QED
      BY <3>1 DEF UrlFails, UrlHost, LastPort, WgetOpen, Resolve, SetHostname, GetConfig, Words, nameVars
  <2>3. slips' \subseteq {"untruncated", "short"}
    BY DEF UrlFails, UrlHost, LastPort, WgetOpen, Resolve, SetHostname, GetConfig, Words
  <2> QED
    BY <1>0, <1>1, <2>2, <2>3, <2>4 DEF Words, Places, Named, Connecting, bodyVars
<1>7. Flags'
  <2>1. shared' \in BOOLEAN /\ config' \in BOOLEAN /\ raced' \in BOOLEAN
    <3>1. CASE UrlHost
      <4>1. shared' \in BOOLEAN
        BY <3>1, Zenon DEF UrlHost, Flags
      <4> QED
        BY <3>1, <4>1 DEF UrlHost, Flags
    <3>2. CASE UrlFails \/ LastPort \/ WgetOpen \/ Resolve \/ SetHostname \/ GetConfig
      BY <3>2 DEF UrlFails, LastPort, WgetOpen, Resolve, SetHostname, GetConfig, Flags, nameVars
    <3> QED
      BY <3>1, <3>2
  <2>2. file' \in BOOLEAN
    BY DEF UrlFails, UrlHost, LastPort, WgetOpen, Resolve, SetHostname, GetConfig, Flags, heldVars
  <2> QED
    BY <1>0, <2>1, <2>2 DEF Flags, sendVars
<1>8. HeldOK'
  BY <1>0, <1>1 DEF UrlFails, UrlHost, LastPort, WgetOpen, Resolve, SetHostname, GetConfig, HeldOK,
     Unconnected,
     timeVars
<1>9. CallOK'
  BY <1>0 DEF UrlFails, UrlHost, LastPort, WgetOpen, Resolve, SetHostname, GetConfig, CallOK
<1>10. HostOK'
  <2>1. CASE UrlHost
    BY <2>1 DEF UrlHost, HostOK, Named, Connecting
  <2>2. CASE LastPort \/ UrlFails \/ WgetOpen
    BY <2>2 DEF LastPort, UrlFails, WgetOpen, HostOK, Named, Connecting, nameVars, lastVars
  <2>3. CASE Resolve
    BY <2>3 DEF Resolve, HostOK, Named, Connecting, Host, lastVars
  <2>4. CASE SetHostname
    BY <2>4 DEF SetHostname, HostOK, Named, Connecting, Host, lastVars
  <2>5. CASE GetConfig
    BY <2>5 DEF GetConfig, HostOK, Named, Connecting, nameVars, lastVars
  <2> QED
    BY <2>1, <2>2, <2>3, <2>4, <2>5
<1>11. PortOK'
  <2>1. CASE UrlHost
    BY <2>1, JobFacts DEF UrlHost, PortOK, Named, Connecting
  <2>2. CASE LastPort
    BY <2>2 DEF LastPort, PortOK, Named, Connecting
  <2>3. CASE UrlFails \/ WgetOpen
    BY <2>3 DEF UrlFails, WgetOpen, PortOK, Named, Connecting, nameVars
  <2>4. CASE Resolve
    BY <2>4 DEF Resolve, PortOK, Named, Connecting
  <2>5. CASE SetHostname \/ GetConfig
    BY <2>5 DEF SetHostname, GetConfig, PortOK, Named, Connecting, nameVars
  <2> QED
    BY <2>1, <2>2, <2>3, <2>4, <2>5
<1> QED
  BY <1>2, <1>3, <1>5, <1>6, <1>7, <1>8, <1>9, <1>10, <1>11

(* From the connection on, the job, the host and the port stay; a call     *)
(* that is left is not gone on with.                                       *)
Under == Connecting \cup Answering \cup {"head", "body"}
LEMMA AroundOK ==
  ASSUME IInv, UNCHANGED around, at \in Under \cup {"close"}, at' \in Under \cup {"close", "done"},
         at = "close" => at' = "done"
  PROVE  JobOK' /\ HostOK' /\ PortOK' /\ CallOK'
<1> USE DEF IInv, Under, Connecting, Answering, Named, around
<1>1. JobOK' /\ CallOK'
  BY DEF JobOK, CallOK
<1>2. HostOK'
  BY DEF HostOK, nameVars
<1>3. PortOK'
  BY DEF PortOK, nameVars
<1> QED
  BY <1>1, <1>2, <1>3

-----------------------------------------------------------------------------
(* The connection.                                                         *)
LEMMA TimeoutOK ==
  ASSUME NEW t, SetSendTimeout(t), socket => option \in {sendTimeout, "refused"}, socket' => socket
  PROVE  socket' => option' \in {sendTimeout', "refused"}
BY DEF SetSendTimeout, timeVars

LEMMA ConnectOK ==
  ASSUME IInv, Socket \/ TlsSetup \/ Connect \/ Handshake \/ Connected
  PROVE  IInv'
<1> USE DEF IInv, Leave
<1>0. UNCHANGED <<around, readBuffer, file, sendVars, bodyVars, slips>>
  BY DEF Socket, TlsSetup, Connect, Handshake, Connected, heldVars
<1>1. at \in Connecting /\ at' \in Connecting \cup {"head", "close"} /\ (at' = "close" => res' # "OK")
  BY DEF Socket, TlsSetup, Connect, Handshake, Connected, Connecting, HandshakeError, TlsError, WaitError
<1>2. JobOK' /\ HostOK' /\ PortOK' /\ CallOK'
  BY <1>0, <1>1, AroundOK DEF Under, Connecting
<1>3. SentOK' /\ KeptOK'
  BY <1>0, <1>1 DEF SentOK, KeptOK, Unconnected, Connecting, Answering, sendVars, bodyVars, around
<1>4. ResultOK'
  BY <1>1 DEF ResultOK, Connecting
<1>5. Words'
  BY <1>0, <1>1 DEF Words, Places, Named, Connecting, bodyVars, around, lastVars, nameVars
<1>6. Flags'
  <2>1. socket' \in BOOLEAN /\ ssl' \in BOOLEAN
    BY DEF Socket, TlsSetup, Connect, Handshake, Connected, Flags, heldVars
  <2> QED
    BY <1>0, <2>1 DEF Flags, sendVars, around, nameVars
<1>7. HeldOK'
  <2>1. at' \notin Unconnected \cup {"socket", "done"}
    BY DEF Socket, TlsSetup, Connect, Handshake, Connected, Unconnected
  <2>2. socket' => option' \in {sendTimeout', "refused"}
    BY TimeoutOK DEF Socket, TlsSetup, Connect, Handshake, Connected, HeldOK, heldVars, timeVars
  <2> QED
    BY <2>1, <2>2 DEF HeldOK
<1> QED
  BY <1>2, <1>3, <1>4, <1>5, <1>6, <1>7

-----------------------------------------------------------------------------
(* The request.                                                            *)
Asking == SendHead \/ SendHeadFails \/ PostBody \/ PostChunk \/ PostLastChunk
            \/ StreamBody \/ StreamFails \/ StreamEnds

LEMMA AskOK ==
  ASSUME IInv, Asking
  PROVE  IInv'
<1> USE DEF IInv, Leave, Writes, WriteError
<1>0. UNCHANGED <<around, heldVars, bodyVars, slips>>
  BY DEF Asking, SendHead, SendHeadFails, PostBody, PostChunk, PostLastChunk, StreamBody, StreamFails,
     StreamEnds
<1>1. at \in {"head", "body"} /\ at' \in {"body", "response", "close"}
  BY DEF Asking, SendHead, SendHeadFails, PostBody, PostChunk, PostLastChunk, StreamBody, StreamFails,
     StreamEnds
<1>2. JobOK' /\ HostOK' /\ PortOK' /\ CallOK'
  BY <1>0, <1>1, AroundOK DEF Under, Answering
<1>3. at' = "close" => res' # "OK"
  BY <1>1 DEF Asking, SendHead, SendHeadFails, PostBody, PostChunk, PostLastChunk, StreamBody,
     StreamFails, StreamEnds
<1>4. ResultOK'
  BY <1>1, <1>3 DEF ResultOK
<1>5. Words' /\ KeptOK'
  BY <1>0, <1>1 DEF Words, Places, Named, KeptOK, bodyVars, around, lastVars, nameVars, Unconnected,
     Connecting
<1>6. SentOK'
  <2>0. UNCHANGED job
    BY <1>0 DEF around
  <2>1. CASE SendHead
    <3>1. at' = "response" => framed' /\ job.method = "get"
      BY <2>1, Zenon DEF SendHead
    <3>2. at = "head" /\ at' \in {"body", "response", "close"} /\ wire' = wire /\ (at' = "body" => job.method # "get")
      BY <2>1 DEF SendHead
    <3> QED
      BY <2>0, <3>1, <3>2, JobFacts DEF SentOK, Unconnected, Connecting, Answering
  <2>2. CASE SendHeadFails \/ StreamFails
    BY <2>0, <2>2 DEF SendHeadFails, StreamFails, SentOK, sendVars, Unconnected, Connecting, Answering
  <2>3. CASE PostBody
    <3>1. /\ at' = "response" => framed' /\ wire' = job.len
          /\ wire' = job.len \/ wire' = wire
      BY <2>3, Zenon DEF PostBody
    <3>2. at = "body" /\ at' \in {"response", "close"}
      BY <2>3 DEF PostBody
    <3> QED
      BY <2>0, <3>1, <3>2, JobFacts DEF SentOK, Unconnected, Connecting, Answering
  <2>4. CASE PostChunk
    BY <2>0, <2>4, JobFacts DEF PostChunk, SentOK, Unconnected, Connecting, Answering
  <2>5. CASE PostLastChunk
    <3>1. at' = "response" => framed'
      BY <2>5, Zenon DEF PostLastChunk
    <3>2. at = "body" /\ at' \in {"response", "close"} /\ wire' = wire /\ wire = job.len
      BY <2>5 DEF PostLastChunk
    <3> QED
      BY <2>0, <3>1, <3>2, JobFacts DEF SentOK, Unconnected, Connecting, Answering
  <2>6. CASE StreamBody
    BY <2>0, <2>6, JobFacts DEF StreamBody, SentOK, Unconnected, Connecting, Answering
  <2>7. CASE StreamEnds
    BY <2>0, <2>7, JobFacts DEF StreamEnds, SentOK, Unconnected, Connecting, Answering
  <2> QED
    BY <2>1, <2>2, <2>3, <2>4, <2>5, <2>6, <2>7 DEF Asking
<1>7. Flags'
  <2>1. framed' \in BOOLEAN
    BY Zenon DEF Asking, SendHead, SendHeadFails, PostBody, PostChunk, PostLastChunk, StreamBody, StreamFails,
       StreamEnds, Flags, sendVars
  <2> QED
    BY <1>0, <2>1 DEF Flags, around, nameVars, heldVars
<1>8. HeldOK'
  <2>1. socket' => option' \in {sendTimeout', "refused"}
    BY <1>0, TimeoutOK DEF Asking, SendHead, SendHeadFails, PostBody, PostChunk, PostLastChunk, StreamBody,
       StreamFails, StreamEnds, HeldOK, heldVars, timeVars
  <2> QED
    BY <1>1, <2>1 DEF HeldOK, Unconnected
<1> QED
  BY <1>2, <1>4, <1>5, <1>6, <1>7, <1>8

-----------------------------------------------------------------------------
(* The response.                                                           *)
Taking == ReadResponse \/ StatusCb \/ ReadEnds \/ ReadFails \/ (\E n \in 1..PartMax : ReadNext(n))
            \/ MemPart \/ FsPart \/ TestPart \/ OtherPart

(* What a callback does to a download that is to go on.                    *)
LEMMA CbOK ==
  ASSUME NEW code \in {"OK", "FAIL"}, CbReturns(code)
  PROVE  /\ at' \in {"next", "close"}
         /\ at' = "close" => res' # "OK"
BY DEF CbReturns, Leave

(* More kept needs no less room.                                           *)
LEMMA RoomStays ==
  ASSUME NEW r \in Nat, NEW p \in Nat, NEW s \in Nat, NEW t \in Nat, NEW c \in Nat, NEW g \in Nat,
         s <= t, t <= s + p, s + p <= r, c < s + g
  PROVE  t <= r /\ c < t + g
OBVIOUS

LEMMA TakeOK ==
  ASSUME IInv, Taking
  PROVE  IInv'
<1> USE DEF IInv
<1>0. UNCHANGED <<around, socket, ssl, timeVars, sendVars>>
  BY DEF Taking, ReadResponse, StatusCb, ReadNext, ReadEnds, ReadFails, MemPart, FsPart, TestPart,
     OtherPart, heldVars
<1>1. /\ at \in Answering /\ at' \in Answering \cup {"close"}
      /\ at' = "close" => res' # "OK" \/ (ReadEnds /\ at = "next")
  BY CbOK DEF Taking, ReadResponse, StatusCb, ReadNext, ReadEnds, ReadFails, MemPart, FsPart, TestPart,
     OtherPart, Answering, Leave, ReadError
<1>2. JobOK' /\ HostOK' /\ PortOK' /\ CallOK'
  BY <1>0, <1>1, AroundOK DEF Under, Answering
<1>3. SentOK'
  BY <1>0, <1>1 DEF SentOK, sendVars, around, Answering, Unconnected, Connecting
<1>4. HeldOK'
  BY <1>0, <1>1 DEF HeldOK, timeVars, Answering, Unconnected
<1>5. slips \subseteq slips' /\ slips' \subseteq {"untruncated", "short"} /\ body' \in {"open", "whole", "cut"}
  BY DEF Taking, ReadResponse, StatusCb, ReadNext, ReadEnds, ReadFails, MemPart, FsPart, TestPart,
     OtherPart, Words, bodyVars
<1>6. Words'
  BY <1>0, <1>1, <1>5 DEF Words, Places, Named, around, lastVars, nameVars, Answering
<1>7. Flags'
  <2>1. readBuffer' \in BOOLEAN /\ file' \in BOOLEAN
    BY DEF Taking, ReadResponse, StatusCb, ReadNext, ReadEnds, ReadFails, MemPart, FsPart, TestPart,
       OtherPart, Flags, heldVars
  <2> QED
    BY <1>0, <2>1 DEF Flags, around, nameVars, sendVars
<1>8. ResultOK'
  <2>1. CASE at' = "close" /\ res' = "OK"
    BY <1>0, <1>1, <2>1 DEF ReadEnds, SentOK, KeptOK, ResultOK, Answering, sendVars, around
  <2> QED
    BY <1>1, <2>1 DEF ResultOK, Answering
<1>9. KeptOK'
  <2>0. UNCHANGED job /\ Grow \in Nat \ {0} /\ PartMax \in Nat \ {0} /\ ReadMax \in Nat
    BY <1>0, JobsAssumption DEF around
  <2> USE DEF KeptOK, Leave, Answering, Unconnected, Connecting
  <2>1. CASE ReadResponse \/ StatusCb
    BY <2>0, <2>1 DEF ReadResponse, StatusCb, bodyVars
  <2>2. CASE ReadEnds \/ ReadFails
    BY <2>0, <2>2 DEF ReadEnds, ReadFails
  <2>3. ASSUME NEW n \in 1..PartMax, ReadNext(n) PROVE KeptOK'
    BY <2>0, <2>3 DEF ReadNext
  <2>4. CASE MemPart
    <3>1. PICK i \in 0..(read + 1) :
            /\ Fits(capacity + i * Grow)
            /\ \/ capacity' = capacity + i * Grow /\ stored' = stored + part /\ CbReturns("OK")
               \/ Leave("NOMEM") /\ UNCHANGED <<stored, capacity>>
      BY <2>4 DEF MemPart
    <3>2. i * Grow \in Nat
      BY <2>0
    <3>3. at = "part" /\ job.kind = "mem" /\ read' = read /\ part' = part /\ slips' = slips
      BY <2>4 DEF MemPart
    <3>4. at' \in {"next", "close"}
      BY <3>1, CbOK
    <3> HIDE DEF Leave
    <3> DEFINE room == capacity + i * Grow
    <3>5. room \in Nat /\ room >= stored + part /\ (room = capacity \/ room - Grow < stored + part)
      BY <3>1, <3>2 DEF Fits
    <3>6. (capacity' = room /\ stored' = stored + part) \/ (capacity' = capacity /\ stored' = stored /\ at' = "close")
      BY <3>1 DEF Leave
    <3> HIDE DEF room
    <3> QED
      BY <2>0, <3>3, <3>4, <3>5, <3>6
  <2>5. CASE FsPart
    <3>1. at = "part" /\ job.kind = "fs" /\ read' = read /\ part' = part /\ capacity' = capacity
      BY <2>5 DEF FsPart
    <3>2. at' \in {"next", "close"}
      BY <2>5, CbOK DEF FsPart
    <3>3. /\ stored' \in Nat /\ stored <= stored' /\ stored' <= stored + part
          /\ stored' = stored + part \/ stored' = stored \/ "short" \in slips'
      BY <2>0, <2>5 DEF FsPart
    <3>4. stored' = stored + part \/ at' = "close" \/ "short" \in slips'
      <4>1. CASE CbReturns("FAIL")
        BY <4>1 DEF CbReturns
      <4>2. CASE ~CbReturns("FAIL")
        BY <2>5, <4>2 DEF FsPart
      <4> QED
        BY <4>1, <4>2
    <3>5. stored' <= read /\ capacity < stored' + Grow
      <4>1. /\ read \in Nat /\ part \in Nat /\ stored \in Nat /\ capacity \in Nat /\ Grow \in Nat
            /\ stored + part <= read /\ capacity < stored + Grow
        BY <2>0, <3>1
      <4>2. stored' \in Nat /\ stored <= stored' /\ stored' <= stored + part
        BY <3>3
      <4> QED
        BY <4>1, <4>2, RoomStays
    <3>6. at' = "next" => stored' = read \/ "short" \in slips'
      BY <1>5, <3>1, <3>4
    <3> QED
      BY <2>0, <3>1, <3>2, <3>3, <3>5, <3>6
  <2>6. CASE TestPart
    BY <2>0, <2>6, CbOK DEF TestPart
  <2>7. CASE OtherPart
    BY <2>0, <2>7 DEF OtherPart, IsDownload, Downloads
  <2> QED
    BY <2>1, <2>2, <2>3, <2>4, <2>5, <2>6, <2>7 DEF Taking
<1> QED
  BY <1>2, <1>3, <1>4, <1>6, <1>7, <1>8, <1>9

(* Every way out of a call with a connection.                              *)
LEMMA CloseOK ==
  ASSUME IInv, Close
  PROVE  IInv'
<1> USE DEF IInv
<1>1. JobOK' /\ HostOK' /\ PortOK' /\ CallOK'
  BY AroundOK DEF Close, Under
<1>2. Words' /\ HeldOK' /\ ResultOK'
  BY DEF Close, Words, HeldOK, ResultOK, Places, around, lastVars, nameVars, timeVars, sendVars, bodyVars
<1>3. SentOK' /\ KeptOK'
  BY DEF Close, SentOK, KeptOK, around, sendVars, bodyVars, Unconnected, Connecting, Answering
<1>4. Flags'
  BY DEF Close, Flags, around, nameVars, sendVars
<1> QED
  BY <1>1, <1>2, <1>3, <1>4

-----------------------------------------------------------------------------
LEMMA StepOK == IInv /\ [Next]_vars => IInv'
<1> SUFFICES ASSUME IInv, [Next]_vars
             PROVE  IInv'
  OBVIOUS
<1>1. CASE Next
  BY <1>1, OthersOK, StartOK, UrlOK, ConnectOK, AskOK, TakeOK, CloseOK DEF Next, Asking, Taking
<1>2. CASE UNCHANGED vars
  <2> USE DEF IInv, vars, lastVars, nameVars, heldVars, timeVars, sendVars, bodyVars
  <2>1. JobOK' /\ Flags' /\ Words'
    BY <1>2 DEF JobOK, Flags, Words
  <2>2. HeldOK' /\ SentOK' /\ KeptOK' /\ ResultOK'
    BY <1>2 DEF HeldOK, SentOK, KeptOK, ResultOK
  <2>3. HostOK' /\ PortOK' /\ CallOK'
    BY <1>2 DEF HostOK, Host, PortOK, CallOK
  <2> QED
    BY <2>1, <2>2, <2>3
<1> QED
  BY <1>1, <1>2

THEOREM Invariance == Spec => []IInv
BY InitOK, StepOK, PTL DEF Spec

(* TypeOK: whatever the sizes, a memory download has room for what it       *)
(* keeps and no whole step of room to spare, and a socket has the timeout  *)
(* that the client remembers for it.                                       *)
THEOREM TypeCorrect == Spec => []TypeOK
<1>1. IInv => TypeOK
  <2> SUFFICES ASSUME IInv PROVE TypeOK
    OBVIOUS
  <2>1. {config, shared, framed, cancel, raced} \subseteq BOOLEAN /\ {socket, ssl, readBuffer, file} \subseteq BOOLEAN
    BY Zenon DEF IInv, Flags
  <2>2. wire \in 0..(job.len + 1) /\ stored \in 0..read
    BY JobFacts DEF IInv, SentOK, KeptOK
  <2>3. job.kind = "mem" => stored <= capacity /\ capacity < stored + Grow
    BY DEF IInv, KeptOK
  <2> QED
    BY <2>1, <2>2, <2>3 DEF IInv, JobOK, Words, Places, Unconnected, Named, Connecting, KeptOK, HeldOK, TypeOK
<1> QED
  BY <1>1, Invariance, PTL

(* NothingLeaks: whichever step fails, in whatever order of requests, what  *)
(* was taken is given back.                                                *)
THEOREM LeakCorrect == Spec => []NothingLeaks
<1>1. IInv => NothingLeaks
  BY DEF IInv, HeldOK, NothingLeaks
<1> QED
  BY <1>1, Invariance, PTL

(* ResultIsWhole: a number of bytes is returned only for a body that was    *)
(* read to its end and kept, for any sizes of bodies and parts.            *)
THEOREM ResultCorrect == Spec => []ResultIsWhole
<1>1. IInv => ResultIsWhole
  BY DEF IInv, ResultOK, ResultIsWhole
<1> QED
  BY <1>1, Invariance, PTL

(* AsksItsHost: for any URLs, and requests of any number of other threads.  *)
THEOREM HostCorrect == Spec => []AsksItsHost
<1>1. IInv => AsksItsHost
  <2> SUFFICES ASSUME IInv, at \in {"head", "body", "response", "next", "part"} PROVE AsksItsHost
    BY DEF AsksItsHost
  <2> DEFINE url == job.url
  <2>1. at \in Named /\ url \in Seq(Tokens)
    BY JobFacts DEF Named, IInv
  <2>2. ~raced => peer[1] = hostname
    BY <2>1 DEF IInv, HostOK
  <2>3. ASSUME job.kind # "call", ~Misparsed(url)
        PROVE  /\ SaidHost(url) # NoName => peer[1] = SaidHost(url) /\ hostname = SaidHost(url)
               /\ SaidHost(url) # NoName /\ ~SaysPort(url) => peer[2] = Scheme(job.https)
               /\ \A n \in DOMAIN Number :
                    SaysPort(url) /\ SaidPort(url) = <<n>> /\ Number[n] \in 1..PortWord-1 => peer[2] = Number[n]
    <3>1. HostIn(url) = SaidHost(url) /\ (HasPort(url) <=> SaysPort(url))
      BY <2>1, <2>3, HostAgrees
    <3>2. \A p \in 1..PortWord-1 : p % PortWord = p /\ p # 0
      <4> SUFFICES ASSUME NEW p \in 1..PortWord-1 PROVE p % PortWord = p /\ p # 0
        OBVIOUS
      <4>1. PortWord \in Nat \ {0} /\ p \in Int /\ p \in 0..PortWord-1 /\ p # 0
        BY PortWordIs
      <4> QED
        BY <4>1, ModIs
    <3>3. \A p \in 1..PortWord-1 : PortIn(job.https, url) = p => peer[2] = p
      BY <2>1, <2>3, <3>2 DEF IInv, PortOK
    <3>4. SaidHost(url) # NoName => peer[1] = SaidHost(url) /\ hostname = SaidHost(url)
      BY <2>1, <2>3, <3>1 DEF IInv, HostOK
    <3>5. SaidHost(url) # NoName /\ ~SaysPort(url) => peer[2] = Scheme(job.https)
      <4>1. Scheme(job.https) \in 1..PortWord-1
        BY PortWordIs DEF Scheme
      <4> QED
        BY <3>1, <3>3, <4>1 DEF PortIn
    <3>6. \A n \in DOMAIN Number :
            SaysPort(url) /\ SaidPort(url) = <<n>> /\ Number[n] \in 1..PortWord-1 => peer[2] = Number[n]
      BY <2>1, <2>3, <3>3, PortAgrees DEF PortIn
    <3> QED
      BY <3>4, <3>5, <3>6
  <2> QED
    BY <2>2, <2>3 DEF AsksItsHost
<1> QED
  BY <1>1, Invariance, PTL

=============================================================================
