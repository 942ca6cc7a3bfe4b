-------------------------- MODULE MCResponseWriter --------------------------
(* A small buffer and small headers, for TLC. *)
EXTENDS ResponseWriter

MCHeaderSize == [h \in Headers \cup {"status"} |-> 2]
MCHandlerHeaders == {<<>>, <<3, 4>>}
(* The limits: a buffer is full with 11 bytes in it, one that is not full    *)
(* has room for 25 to 34 more, and an empty one for 40.                     *)
MCLengths == {1, 9, 10, 11, 25, 26, 27, 33, 34, 35, 39, 40, 41, 80, 86}

=============================================================================
