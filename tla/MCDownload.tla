----------------------------- MODULE MCDownload -----------------------------
(* One request of each kind, and URLs of many shapes, for TLC. *)
EXTENDS Download

MCNumber == [n \in {"80", "8080", "65616", "-1", "0"} |->
               CASE n = "80" -> 80 [] n = "8080" -> 8080 [] n = "65616" -> 65616 [] n = "-1" -> -1 [] n = "0" -> 0]

Job(kind, https, url, method, len) ==
  [kind |-> kind, good |-> TRUE, https |-> https, url |-> url,
   method |-> method, len |-> len, path |-> kind = "fs", limit |-> 0]
Get(kind, https, url) == Job(kind, https, url, "get", 0)

(* Every part of a URL left out, given or malformed, and its marks where   *)
(* the parser takes them for others.                                       *)
Odd == {<<"h1", "/", "x", "@", "h2", ":", "80">>, <<"h1", "/", "x", ":", "8080">>, <<"h1", "?", "x">>,
        <<"h1", ":", "65616", "/">>, <<"h1", ":", "-1">>, <<"h1", ":", "0", "/", "x">>, <<"h1", ":", "/">>,
        <<"h1", ":", "x", "80", "/">>, <<"x", ":", "x", "@", "h2", ":", "8080", "?", "x", "@", ":", "h1">>,
        <<>>, <<"@", "/", "h1">>}

MCJobs ==
  {
    Get("mem", TRUE, <<"h1">>), Get("mem", FALSE, <<"/", "x">>),
    [Get("test", FALSE, <<"h1">>) EXCEPT !.good = FALSE],
    Get("test", FALSE, <<"no name", ":", "8080", "/">>), Get("test", TRUE, <<":", "8080", "/", "x">>),
    [Get("fs", FALSE, <<"h1", ":", "80", "/", "x">>) EXCEPT !.limit = 1],
    [Get("fs", FALSE, <<"/", "x">>) EXCEPT !.path = FALSE],
    Job("mem", FALSE, <<"x", ":", "x", "@", "h2", ":", "8080", "/">>, "stream", 2),
    Get("wget", TRUE, <<"h2", "/", "x">>),
    Job("call", TRUE, <<"h1">>, "post", 1), Job("call", FALSE, <<"h2">>, "chunked", 1),
    Job("call", FALSE, <<"h2">>, "chunked", 0)
  }
  \cup {Get("wget", FALSE, url) : url \in Odd}

=============================================================================
