---------------------------- MODULE MCHttpClient ----------------------------
(* The response reader with a few replies, for TLC.                        *)
EXTENDS HttpClient

Reply(wire, framing, length, ending) ==
  [wire |-> wire, framing |-> framing, length |-> length, ending |-> ending]
Endings == {"open", "close", "reset", "urgent"}

(* Heads: a final one, one after an interim one, one with a stray byte, and *)
(* heads that end just at their limit and just past it.                    *)
Short == <<"final">>
Interim == <<"interim", "h", "final">>
Stray == <<"h", "bad">>
Longest == <<"h", "h", "h", "final">>
TooLong == <<"interim", "h", "h", "h", "final">>

Heads ==
  {Reply(h, f, 0, e) : h \in {Interim, Stray, Longest, TooLong, <<"h">>},
                       f \in {"none", "HEADER", "CONTENT", "LENGTH"}, e \in Endings}

Data(n) == [k \in 1..n |-> "d"]

(* Announced bodies, shorter or longer than what comes, and bodies that run *)
(* until the connection is closed.                                         *)
Lengths ==
  {Reply(h \o Data(n), "length", k, e) : h \in {Short, Interim}, n \in 0..3, k \in {0, 1, 2, 4}, e \in Endings}
Closes ==
  {Reply(h \o Data(n), "close", 0, e) : h \in {Short, Interim}, n \in 0..4, e \in Endings}

(* A chunked body with data that looks like a line end, an extension, a     *)
(* trailer and bare LFs, and every way to cut it.                          *)
Rich == <<"2", ";", "LF", "CR", "LF", "CR", "LF", "0", "LF", "d", "LF", "CR", "LF">>
Cut == {Reply(Short \o SubSeq(Rich, 1, n), "chunked", 0, "close") : n \in 0..Len(Rich)}
       \cup {Reply(Short \o Rich, "chunked", 0, e) : e \in {"reset", "urgent"}}

(* Two chunks; more than the body; a size with no digits, with something    *)
(* after it, above the limit; a chunk that is not ended; a line that just   *)
(* fits the buffer, and one that does not.                                 *)
Chunks ==
  {<<"1", "LF", "d", "CR", "LF", "1", "LF", "d", "CR", "LF", "0", "LF", "LF">>,
   <<"0", "LF", "LF", "d", "d">>,
   <<";", "LF">>,
   <<"1", "d", "LF">>,
   <<"1", "2", "LF">>,
   <<"1", "LF", "d", "d", "d", "1", "LF", "d">>,
   <<"1", "LF", "d", "CR", "d">>,
   <<"0", ";", "d", "d", "LF", "LF">>,
   <<"0", ";", "d", "d", "d", "LF", "LF">>,
   <<"0", "LF", "d", "d", "d", "d", "d">>}
Wholes == {Reply(Short \o c, "chunked", 0, "open") : c \in Chunks}

MCReplies == Heads \cup Lengths \cup Closes \cup Cut \cup Wholes
MCRetries == {Reply(Short \o <<"0", "LF", "LF">>, "chunked", 0, "open"),
              Reply(Short \o <<"d">>, "close", 0, "close")}

=============================================================================
