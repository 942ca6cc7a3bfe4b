--------------------------- MODULE MCHttpRequest ----------------------------
(* The server's side of a few connections, for TLC.                        *)
EXTENDS HttpRequest

Get == <<"G", "E0">>
GetLong == <<"G", "h", "h", "E0">>
TooLong == <<"G">> \o [k \in 1..7 |-> "h"] \o <<"E0">>
Post == <<"G", "E2", "d", "d">>
PostBig == <<"G", "E4", "d", "d", "d", "d">>
Chunk(size, data) == <<size, "CR", "LF">> \o data \o <<"CR", "LF">>
LastChunk == <<"0", "CR", "LF", "CR", "LF">>
Chunked(body) == <<"G", "EC">> \o body

(* Requests of every kind, one after the other on a connection.  Data and  *)
(* an unread body may look like a request or like the end of a line.       *)
Pipelines ==
  {Get \o GetLong \o Get,
   Post \o Get \o Post,
   PostBig \o Get,
   Get \o TooLong,
   <<"G", "E2", "G", "E0">> \o Get,
   Get \o <<"G", "EB">>,
   <<"G", "EL", "d">>,
   Chunked(LastChunk) \o Get,
   Chunked(Chunk("1", <<"d">>) \o LastChunk) \o Post,
   Chunked(Chunk("2", <<"CR", "LF">>) \o Chunk("2", <<"G", "E0">>) \o LastChunk),
   Chunked(<<"1", ";", "CR", "LF", "d", "CR", "LF", "0", "CR", "LF", "h", "CR", "LF", "CR", "LF">>),
   Chunked(<<"1", "0", "0", "CR", "LF">>),
   Chunked(<<"d", "CR", "LF">>),
   Chunked(<<"1", "CR", "LF", "d", "d", "CR", "LF">>),
   Chunked(<<"0", "CR", "LF", "h", "h", "h", "h", "CR", "LF">>),
   Chunked(<<"CR", "LF">>),
   Chunked(<<"CR", "LF">> \o Chunk("1", <<"d">>) \o LastChunk) \o Get,
   Post \o Chunked(Chunk("1", <<"d">>) \o <<"CR", "LF">>) \o Get,
   <<"G", "EO">> \o Get, Get \o <<"G", "h", "EO", "G", "E0">>}

(* Size lines that strtoul() takes, and two that it does not. *)
Sizes == {<<"2", "0">>, <<"2", "1">>, <<"1", "0", "0">>, <<"2", "2", "2">>, <<"-", "1">>, <<"-", "0">>,
          <<"+", "1">>, <<" ", "1">>, <<"LF", "1">>, <<"0", "x", "1">>, <<"1", "NUL", "h">>,
          <<"0", "x">>, <<" ", "+">>}
Odd == {Chunked(size \o <<"CR", "LF", "d", "CR", "LF">>) \o Get : size \in Sizes}

(* Chunks larger than the buffer, whose sizes have two digits. *)
Large == Chunked(<<"1", "0", "CR", "LF">> \o [k \in 1..16 |-> "d"] \o <<"CR", "LF">> \o LastChunk)

Cut(w) == {SubSeq(w, 1, n) : n \in 1..Len(w)-1}
Pieces == UNION {Cut(w) : w \in {Post \o Get, Chunked(Chunk("2", <<"d", "d">>) \o LastChunk)}}
Short == Chunked(Chunk("1", <<"d">>))

(* Handlers stray on the pipelines that are short enough for it.           *)
MCClients ==
  [wire : Odd \cup {w \in Pipelines : Len(w) <= 16}, ending : {"open"}, tls : {FALSE}, strays : {TRUE}]
  \cup [wire : {Large} \cup {w \in Pipelines : Len(w) > 16}, ending : {"open"}, tls : {FALSE}, strays : {FALSE}]
  \cup [wire : Pieces, ending : Endings, tls : BOOLEAN, strays : {FALSE}]
  \cup [wire : {Short}, ending : Endings, tls : BOOLEAN, strays : {TRUE}]

=============================================================================
