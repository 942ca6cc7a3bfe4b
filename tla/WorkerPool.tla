----------------------------- MODULE WorkerPool -----------------------------
(***************************************************************************)
(* What the web server promises its caller, with nothing of how it does    *)
(* it.  A server is made, serves, drains and is over.  While it serves, it *)
(* admits connections, each to a worker of its own, and no more than       *)
(* Capacity of them are busy at a time; a worker that gave back its slot   *)
(* may still be winding down.  The server is over only when no worker is   *)
(* left: its memory may be freed then.                                     *)
(***************************************************************************)
EXTENDS Naturals, FiniteSets

CONSTANTS
  Conn,      (* the connections a worker may be started for *)
  Capacity   (* the number of workers that may be busy      *)

VARIABLES
  stage,     (* where the server is in its life          *)
  live,      (* the connections that have a worker       *)
  busy       (* those of them that hold a worker's slot  *)

vars == <<stage, live, busy>>

TypeOK ==
  /\ stage \in {"made", "serving", "draining", "over"}
  /\ live \subseteq Conn
  /\ busy \subseteq live

Init ==
  /\ stage = "made"
  /\ live = {}
  /\ busy = {}

Begin ==
  /\ stage = "made"
  /\ stage' = "serving"
  /\ UNCHANGED <<live, busy>>

Admit(c) ==
  /\ stage = "serving"
  /\ c \notin live
  /\ Cardinality(busy) < Capacity
  /\ live' = live \cup {c}
  /\ busy' = busy \cup {c}
  /\ UNCHANGED stage

(* The slot comes back before the worker has gone. *)
Release(c) ==
  /\ c \in busy
  /\ busy' = busy \ {c}
  /\ UNCHANGED <<stage, live>>

Leave(c) ==
  /\ c \in live
  /\ live' = live \ {c}
  /\ busy' = busy \ {c}
  /\ UNCHANGED stage

Drain ==
  /\ stage = "serving"
  /\ stage' = "draining"
  /\ UNCHANGED <<live, busy>>

(* Over: after a drain, or at once when the server cannot begin. *)
Finish ==
  /\ stage \in {"made", "draining"}
  /\ live = {}
  /\ stage' = "over"
  /\ UNCHANGED <<live, busy>>

Remake ==
  /\ stage = "over"
  /\ stage' = "made"
  /\ UNCHANGED <<live, busy>>

Next ==
  \/ Begin \/ Drain \/ Finish \/ Remake
  \/ \E c \in Conn : Admit(c) \/ Release(c) \/ Leave(c)

Spec == Init /\ [][Next]_vars

=============================================================================
