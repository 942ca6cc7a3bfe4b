----------------------------- MODULE MCWebSocket -----------------------------
(* Frames that the code tells apart, for TLC. *)
EXTENDS WebSocket

Frame(op, form, len) == [op |-> op, form |-> form, len |-> len]
MCFrames ==
  {Frame(op, "short", len) : op \in {1, CloseCode}, len \in {0, 2}}
    \cup {Frame(9, "short", 1), Frame(11, "short", 1), Frame(0, "two", 2), Frame(2, "eight", 1),
          Frame(1, "masked", 1)}

=============================================================================
