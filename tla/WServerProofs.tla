--------------------------- MODULE WServerProofs ----------------------------
(***************************************************************************)
(* The web server, for any number of connections, slots and streams: its   *)
(* slots and workers are accounted for, kept connections leave room, and   *)
(* nothing is stopped or freed under a worker.  Therefore it implements    *)
(* the pool of workers.                                                    *)
(***************************************************************************)
EXTENDS WServer, FiniteSetTheorems, TLAPS

(* The thread in run() has a connection in hand exactly in these places.   *)
InHand ==
  /\ main \in {"accepted", "semwait"} => cur \in Conn /\ worker[cur] = "accepted"
  /\ main = "spawn" => cur \in Conn /\ worker[cur] = "spawning"
  /\ \A c \in Conn :
       /\ worker[c] = "accepted" => main \in {"accepted", "semwait"} /\ c = cur
       /\ worker[c] = "spawning" => main = "spawn" /\ c = cur

(* A worker in the request loop has time left.                             *)
Timed == {"handshake", "top", "read", "decide", "auth", "content", "stream", "answered"}
TimeLeft == \A c \in Conn : worker[c] \in Timed => ticks[c] > 0

(* A thread that has not started keeps nothing open.                       *)
Fresh ==
  \A c \in Conn : worker[c] \in {"none", "accepted", "spawning"} => ~keep[c]

CtrlStarted == main \in Serving \cup Draining \cup {"stopping"} => ctrl

IInv ==
  /\ TypeOK
  /\ SlotsAccounted
  /\ RunningAccounted
  /\ KeptLeaveRoom
  /\ StreamsLeaveWorker
  /\ DrainedBeforeStop
  /\ InHand
  /\ TimeLeft
  /\ Fresh
  /\ CtrlStarted

-----------------------------------------------------------------------------
(* What moving one worker does to the counts.                              *)

Moved(n, from, to) == IF from = to THEN n ELSE IF to THEN n + 1 ELSE n - 1

(* A part of the connections, picked by where their workers are, changes   *)
(* by the worker that moves.                                               *)
LEMMA MoveCount ==
  ASSUME NEW W, NEW c \in Conn, NEW to,
         worker \in [Conn -> WorkerPlaces],
         worker' = [worker EXCEPT ![c] = to]
  PROVE  LET S == {d \in Conn : worker[d] \in W}
             T == {d \in Conn : worker'[d] \in W}
         IN  /\ Cardinality(S) \in Nat
             /\ Cardinality(T) \in Nat
             /\ Cardinality(T) = Moved(Cardinality(S), worker[c] \in W, to \in W)
<1> DEFINE S == {d \in Conn : worker[d] \in W}
           T == {d \in Conn : worker'[d] \in W}
<1>1. IsFiniteSet(S) /\ IsFiniteSet(T)
  BY ConnFinite, FS_Subset, S \in SUBSET Conn, T \in SUBSET Conn
<1>2. Cardinality(S) \in Nat /\ Cardinality(T) \in Nat
  BY <1>1, FS_CardinalityType
<1>3. CASE to \in W
  <2>1. T = S \cup {c}
    BY <1>3
  <2>2. Cardinality(T) = IF c \in S THEN Cardinality(S) ELSE Cardinality(S) + 1
    BY <1>1, <2>1, FS_AddElement
  <2> QED
    BY <1>2, <1>3, <2>2 DEF Moved
<1>4. CASE to \notin W
  <2>1. T = S \ {c}
    BY <1>4
  <2>2. Cardinality(T) = IF c \in S THEN Cardinality(S) - 1 ELSE Cardinality(S)
    BY <1>1, <2>1, FS_RemoveElement
  <2> QED
    BY <1>2, <1>4, <2>2 DEF Moved
<1> QED
  BY <1>2, <1>3, <1>4

(* The three counted parts, when worker c moves to another place.          *)
LEMMA Counts ==
  ASSUME NEW c \in Conn, NEW to,
         worker \in [Conn -> WorkerPlaces],
         worker' = [worker EXCEPT ![c] = to]
  PROVE  /\ Cardinality(Holders) \in Nat /\ Cardinality(Holders') \in Nat
         /\ Cardinality(Live) \in Nat /\ Cardinality(Live') \in Nat
         /\ Cardinality(Streaming) \in Nat /\ Cardinality(Streaming') \in Nat
         /\ Cardinality(Holders') = Moved(Cardinality(Holders), worker[c] \in Holding, to \in Holding)
         /\ Cardinality(Live') = Moved(Cardinality(Live), worker[c] \in Counted, to \in Counted)
         /\ Cardinality(Streaming') = Moved(Cardinality(Streaming), worker[c] = "stream", to = "stream")
<1>1. /\ Cardinality(Holders) \in Nat /\ Cardinality(Holders') \in Nat
      /\ Cardinality(Holders') = Moved(Cardinality(Holders), worker[c] \in Holding, to \in Holding)
  BY MoveCount DEF Holders
<1>2. /\ Cardinality(Live) \in Nat /\ Cardinality(Live') \in Nat
      /\ Cardinality(Live') = Moved(Cardinality(Live), worker[c] \in Counted, to \in Counted)
  BY MoveCount DEF Live
<1>3. /\ Cardinality(Streaming) \in Nat /\ Cardinality(Streaming') \in Nat
      /\ Cardinality(Streaming')
           = Moved(Cardinality(Streaming), worker[c] \in {"stream"}, to \in {"stream"})
  <2>1. Streaming = {d \in Conn : worker[d] \in {"stream"}}
    BY DEF Streaming
  <2>2. Streaming' = {d \in Conn : worker'[d] \in {"stream"}}
    BY DEF Streaming
  <2> QED
    BY <2>1, <2>2, MoveCount
<1> QED
  BY <1>1, <1>2, <1>3 DEF Moved

(* Fewer connections that stay leave as much room.                         *)
LEMMA FewerKept ==
  ASSUME KeptLeaveRoom, Kept' \subseteq Kept
  PROVE  KeptLeaveRoom'
<1>1. IsFiniteSet(Kept)
  BY ConnFinite, FS_Subset, Kept \in SUBSET Conn DEF Kept
<1>2. Cardinality(Kept') <= Cardinality(Kept) /\ IsFiniteSet(Kept')
  BY <1>1, FS_Subset
<1>3. Cardinality(Kept) \in Nat /\ Cardinality(Kept') \in Nat
  BY <1>1, <1>2, FS_CardinalityType
<1> QED
  BY <1>2, <1>3, ThreadMaxAssumption DEF KeptLeaveRoom

-----------------------------------------------------------------------------
(* Steps of one worker between its places that change no count.            *)
LEMMA QuietStep ==
  ASSUME IInv, NEW c \in Conn, NEW to \in (Talking \cup {"signal"}) \ {"stream"},
         worker[c] \in Talking \ {"stream"},
         worker' = [worker EXCEPT ![c] = to],
         UNCHANGED <<main, cur, sem, running, streams, instVars>>,
         keep' \in [Conn -> BOOLEAN], \A d \in Conn \ {c} : keep'[d] => keep[d],
         KeptLeaveRoom',
         ticks' \in [Conn -> 0..KeepTicks], to \in Timed => ticks'[c] > 0,
         \A d \in Conn \ {c} : ticks'[d] = ticks[d],
         open' \subseteq Conn
  PROVE  IInv'
<1> USE DEF IInv
<1>1. TypeOK'
  BY DEF TypeOK, instVars, WorkerPlaces, Counted, Holding
<1>2. Holders' = Holders /\ Live' = Live /\ Streaming' = Streaming
  BY DEF TypeOK, Holders, Live, Streaming, Counted, Holding
<1>3. SlotsAccounted' /\ RunningAccounted' /\ StreamsLeaveWorker'
  BY <1>2 DEF SlotsAccounted, RunningAccounted, StreamsLeaveWorker
<1>4. DrainedBeforeStop' /\ CtrlStarted'
  BY <1>2 DEF DrainedBeforeStop, CtrlStarted, instVars
<1>5. InHand' /\ TimeLeft' /\ Fresh'
  BY DEF TypeOK, InHand, TimeLeft, Fresh, Talking
<1> QED
  BY <1>1, <1>3, <1>4, <1>5

(* A quiet step that keeps no connection it did not keep.                  *)
LEMMA QuietStepKeepingLess ==
  ASSUME IInv, NEW c \in Conn, NEW to \in (Talking \cup {"signal"}) \ {"stream"},
         worker[c] \in Talking \ {"stream"},
         worker' = [worker EXCEPT ![c] = to],
         UNCHANGED <<main, cur, sem, running, streams, instVars>>,
         keep' \in [Conn -> BOOLEAN], \A d \in Conn : keep'[d] => keep[d],
         ticks' \in [Conn -> 0..KeepTicks], to \in Timed => ticks'[c] > 0,
         \A d \in Conn \ {c} : ticks'[d] = ticks[d],
         open' \subseteq Conn
  PROVE  IInv'
<1>1. Kept' \subseteq Kept
  BY DEF IInv, TypeOK, Kept, Holding
<1>2. KeptLeaveRoom'
  BY <1>1, FewerKept DEF IInv
<1> QED
  BY <1>2, QuietStep

-----------------------------------------------------------------------------
(* The steps of a worker.                                                  *)
LEMMA WorkStep ==
  ASSUME IInv, NEW c \in Conn, Work(c)
  PROVE  IInv'
<1> USE DEF Go
<1> TypeOK
  BY DEF IInv
<1> worker \in [Conn -> WorkerPlaces]
  BY DEF TypeOK
<1> ticks[c] \in 0..KeepTicks /\ (worker[c] \in Timed => ticks[c] > 0)
  BY DEF IInv, TypeOK, TimeLeft
<1>1. CASE Handshake(c)
  BY <1>1, QuietStepKeepingLess DEF Handshake, Talking, Timed, TypeOK, instVars
<1>2. CASE Top(c)
  BY <1>2, QuietStepKeepingLess DEF Top, Talking, Timed, TypeOK, instVars
<1>3. CASE ReadNothing(c)
  <2>1. ticks' \in [Conn -> 0..KeepTicks]
    BY <1>3, TicksAssumption DEF ReadNothing, TypeOK, Timed
  <2>2. CASE ticks[c] <= 1
    BY <1>3, <2>1, <2>2, QuietStepKeepingLess DEF ReadNothing, Talking, Timed, TypeOK, instVars
  <2>3. CASE ~(ticks[c] <= 1)
    <3>1. ticks'[c] > 0
      BY <1>3, <2>3 DEF ReadNothing, TypeOK
    <3> QED
      BY <1>3, <2>1, <2>3, <3>1, QuietStepKeepingLess
         DEF ReadNothing, Talking, Timed, TypeOK, instVars
  <2> QED
    BY <2>2, <2>3
<1>4. CASE ReadEnds(c)
  BY <1>4, QuietStepKeepingLess DEF ReadEnds, Talking, Timed, TypeOK, instVars
<1>5. CASE ReadRequest(c)
  <2>1. ticks' \in [Conn -> 0..KeepTicks] /\ ticks'[c] > 0
        /\ \A d \in Conn \ {c} : ticks'[d] = ticks[d]
    BY <1>5, TicksAssumption DEF ReadRequest, TypeOK
  <2> QED
    BY <1>5, <2>1, QuietStepKeepingLess DEF ReadRequest, Talking, Timed, TypeOK, instVars
<1>6. CASE Decide(c)
  <2>1. PICK stays \in BOOLEAN : keep' = [keep EXCEPT ![c] = stays /\ sem >= 2]
    BY <1>6 DEF Decide
  <2>2. KeptLeaveRoom'
    <3>1. CASE keep'[c]
      <4>1. sem >= 2
        BY <2>1, <3>1 DEF TypeOK
      <4>2. Kept' \subseteq Holders
        BY <1>6 DEF Decide, Kept, Holders, Holding, Talking, TypeOK
      <4>3. IsFiniteSet(Holders)
        BY ConnFinite, FS_Subset, Holders \in SUBSET Conn DEF Holders
      <4>4. IsFiniteSet(Kept') /\ Cardinality(Kept') <= Cardinality(Holders)
        BY <4>2, <4>3, FS_Subset
      <4>5. Cardinality(Holders) \in Nat /\ Cardinality(Kept') \in Nat
        BY <4>3, <4>4, FS_CardinalityType
      <4>6. sem + Cardinality(Holders) = ThreadMax
        BY DEF IInv, SlotsAccounted
      <4> QED
        BY <4>1, <4>4, <4>5, <4>6, ThreadMaxAssumption DEF KeptLeaveRoom, TypeOK
    <3>2. CASE ~keep'[c]
      <4>1. Kept' \subseteq Kept
        BY <1>6, <2>1, <3>2 DEF Decide, Kept, Holding, TypeOK
      <4> QED
        BY <4>1, FewerKept DEF IInv
    <3> QED
      BY <3>1, <3>2
  <2>3. keep' \in [Conn -> BOOLEAN] /\ \A d \in Conn \ {c} : keep'[d] => keep[d]
    BY <2>1 DEF TypeOK
  <2> QED
    BY <1>6, <2>2, <2>3, QuietStep DEF Decide, Talking, Timed, TypeOK, instVars
<1>7. CASE Refuse(c)
  <2>1. ticks' \in [Conn -> 0..KeepTicks] /\ ticks'[c] > 0
        /\ \A d \in Conn \ {c} : ticks'[d] = ticks[d]
    BY <1>7, TicksAssumption DEF Refuse, TypeOK, Timed
  <2>2. worker[c] = "auth" /\ \E to \in {"top", "end"} : worker' = [worker EXCEPT ![c] = to]
    BY <1>7 DEF Refuse
  <2>3. PICK to \in {"top", "end"} : worker' = [worker EXCEPT ![c] = to]
    BY <2>2
  <2> QED
    BY <1>7, <2>1, <2>2, <2>3, QuietStepKeepingLess DEF Refuse, Talking, TypeOK, instVars
<1>8. CASE NotFound(c)
  BY <1>8, QuietStepKeepingLess DEF NotFound, Talking, Timed, TypeOK, instVars
<1>9. CASE RunHandler(c)
  BY <1>9, QuietStepKeepingLess DEF RunHandler, Talking, Timed, TypeOK, instVars
<1>10. CASE HandlerDone(c)
  <2>1. keep' \in [Conn -> BOOLEAN] /\ \A d \in Conn : keep'[d] => keep[d]
    BY <1>10 DEF HandlerDone, TypeOK
  <2> QED
    BY <1>10, <2>1, QuietStepKeepingLess DEF HandlerDone, Talking, Timed, TypeOK, instVars
<1>11. CASE StreamOpen(c)
  <2>1. Cardinality(Streaming') = Cardinality(Streaming) + 1 /\ Cardinality(Streaming) \in Nat
        /\ Cardinality(Holders') = Cardinality(Holders)
        /\ Cardinality(Live') = Cardinality(Live)
    <3>1. worker' = [worker EXCEPT ![c] = "stream"] /\ worker[c] = "content"
      BY <1>11 DEF StreamOpen
    <3>2. worker[c] \in Holding /\ worker[c] \in Counted /\ worker[c] # "stream"
          /\ "stream" \in Holding /\ "stream" \in Counted
      BY <3>1 DEF Holding, Counted, Talking
    <3> QED
      BY <3>1, <3>2, Counts DEF TypeOK, Moved
  <2>2. TypeOK'
    BY <1>11, StreamsMaxAssumption
       DEF StreamOpen, TypeOK, WorkerPlaces, Counted, Holding, Talking, instVars
  <2>3. SlotsAccounted' /\ RunningAccounted'
    BY <1>11, <2>1 DEF IInv, StreamOpen, SlotsAccounted, RunningAccounted
  <2>4. StreamsLeaveWorker'
    BY <1>11, <2>1, StreamsMaxAssumption, ThreadMaxAssumption
       DEF IInv, StreamOpen, StreamsLeaveWorker, TypeOK
  <2>5. Kept' \subseteq Kept /\ Live' = Live
    BY <1>11 DEF StreamOpen, Kept, Live, Counted, Holding, Talking, TypeOK
  <2>6. KeptLeaveRoom'
    BY <2>5, FewerKept DEF IInv
  <2>7. DrainedBeforeStop' /\ CtrlStarted'
    BY <1>11, <2>5 DEF IInv, StreamOpen, DrainedBeforeStop, CtrlStarted, instVars
  <2>8. InHand' /\ TimeLeft' /\ Fresh'
    BY <1>11 DEF IInv, StreamOpen, InHand, TimeLeft, Timed, Fresh, TypeOK
  <2> QED
    BY <2>2, <2>3, <2>4, <2>6, <2>7, <2>8 DEF IInv
<1>12. CASE StreamRefused(c)
  <2>1. keep' \in [Conn -> BOOLEAN] /\ \A d \in Conn : keep'[d] => keep[d]
    BY <1>12 DEF StreamRefused, TypeOK
  <2> QED
    BY <1>12, <2>1, QuietStepKeepingLess DEF StreamRefused, Talking, Timed, TypeOK, instVars
<1>13. CASE StreamEnds(c)
  <2>0. PICK to \in {"answered", "end"} :
          worker' = [worker EXCEPT ![c] = to] /\ worker[c] = "stream"
    BY <1>13 DEF StreamEnds
  <2>1. Cardinality(Streaming') + 1 = Cardinality(Streaming)
        /\ Cardinality(Streaming) \in Nat /\ Cardinality(Streaming') \in Nat
        /\ Cardinality(Holders') = Cardinality(Holders)
        /\ Cardinality(Live') = Cardinality(Live)
    <3>1. worker[c] \in Holding /\ worker[c] \in Counted /\ worker[c] = "stream"
          /\ to \in Holding /\ to \in Counted /\ to # "stream"
      BY <2>0 DEF Holding, Counted, Talking
    <3>2. /\ Cardinality(Holders) \in Nat /\ Cardinality(Holders') \in Nat
          /\ Cardinality(Live) \in Nat /\ Cardinality(Live') \in Nat
          /\ Cardinality(Streaming) \in Nat /\ Cardinality(Streaming') \in Nat
          /\ Cardinality(Holders') = Moved(Cardinality(Holders), worker[c] \in Holding, to \in Holding)
          /\ Cardinality(Live') = Moved(Cardinality(Live), worker[c] \in Counted, to \in Counted)
          /\ Cardinality(Streaming') = Moved(Cardinality(Streaming), worker[c] = "stream", to = "stream")
      BY <2>0, Counts
    <3> QED
      BY <3>1, <3>2 DEF Moved
  <2>2. TypeOK'
    <3>1. streams' \in 0..StreamsMax
      BY <1>13, StreamsMaxAssumption DEF StreamEnds, TypeOK
    <3>2. to \in WorkerPlaces
      BY DEF WorkerPlaces, Counted, Holding, Talking
    <3> QED
      BY <1>13, <2>0, <3>1, <3>2 DEF StreamEnds, TypeOK, instVars
  <2>3. SlotsAccounted' /\ RunningAccounted'
    BY <1>13, <2>1 DEF IInv, StreamEnds, SlotsAccounted, RunningAccounted
  <2>4. StreamsLeaveWorker'
    BY <1>13, <2>1, ThreadMaxAssumption DEF IInv, StreamEnds, StreamsLeaveWorker, TypeOK
  <2>5. Kept' \subseteq Kept /\ Live' = Live
    BY <1>13, <2>0 DEF StreamEnds, Kept, Live, Counted, Holding, Talking, TypeOK
  <2>6. KeptLeaveRoom'
    BY <2>5, FewerKept DEF IInv
  <2>7. DrainedBeforeStop' /\ CtrlStarted'
    BY <1>13, <2>5 DEF IInv, StreamEnds, DrainedBeforeStop, CtrlStarted, instVars
  <2>8. InHand' /\ TimeLeft' /\ Fresh'
    BY <1>13, <2>0 DEF IInv, StreamEnds, InHand, TimeLeft, Timed, Fresh, TypeOK
  <2> QED
    BY <2>2, <2>3, <2>4, <2>6, <2>7, <2>8 DEF IInv
<1>14. CASE Answered(c)
  BY <1>14, QuietStepKeepingLess DEF Answered, Talking, Timed, TypeOK, instVars
<1>15. CASE CloseConnection(c)
  BY <1>15, QuietStepKeepingLess DEF CloseConnection, Talking, Timed, TypeOK, instVars
<1>16. CASE GiveSlot(c)
  <2>0. worker' = [worker EXCEPT ![c] = "done"] /\ worker[c] = "signal"
    BY <1>16 DEF GiveSlot
  <2>1. Cardinality(Holders') + 1 = Cardinality(Holders)
        /\ Cardinality(Holders') \in Nat /\ Cardinality(Holders) \in Nat
        /\ Cardinality(Streaming') = Cardinality(Streaming)
        /\ Cardinality(Live') = Cardinality(Live)
        /\ Cardinality(Streaming) \in Nat /\ Cardinality(Live) \in Nat
    <3>1. worker[c] \in Holding /\ worker[c] \in Counted /\ worker[c] # "stream"
          /\ "done" \notin Holding /\ "done" \in Counted
      BY <2>0 DEF Holding, Counted, Talking
    <3>2. /\ Cardinality(Holders) \in Nat /\ Cardinality(Holders') \in Nat
          /\ Cardinality(Live) \in Nat /\ Cardinality(Live') \in Nat
          /\ Cardinality(Streaming) \in Nat /\ Cardinality(Streaming') \in Nat
          /\ Cardinality(Holders') = Moved(Cardinality(Holders), worker[c] \in Holding, "done" \in Holding)
          /\ Cardinality(Live') = Moved(Cardinality(Live), worker[c] \in Counted, "done" \in Counted)
          /\ Cardinality(Streaming') = Moved(Cardinality(Streaming), worker[c] = "stream", "done" = "stream")
      BY <2>0, Counts
    <3> QED
      BY <3>1, <3>2 DEF Moved
  <2>2. SlotsAccounted' /\ sem' \in 0..ThreadMax
    BY <1>16, <2>1, ThreadMaxAssumption DEF IInv, GiveSlot, SlotsAccounted, TypeOK
  <2>3. TypeOK'
    BY <1>16, <2>2 DEF GiveSlot, TypeOK, WorkerPlaces, Counted, instVars
  <2>4. RunningAccounted' /\ StreamsLeaveWorker'
    BY <1>16, <2>1 DEF IInv, GiveSlot, RunningAccounted, StreamsLeaveWorker
  <2>5. Kept' \subseteq Kept /\ Live' = Live
    BY <1>16 DEF GiveSlot, Kept, Live, Counted, Holding, Talking, TypeOK
  <2>6. KeptLeaveRoom'
    BY <2>5, FewerKept DEF IInv
  <2>7. DrainedBeforeStop' /\ CtrlStarted'
    BY <1>16, <2>5 DEF IInv, GiveSlot, DrainedBeforeStop, CtrlStarted, instVars
  <2>8. InHand' /\ TimeLeft' /\ Fresh'
    BY <1>16 DEF IInv, GiveSlot, InHand, TimeLeft, Timed, Fresh, TypeOK
  <2> QED
    BY <2>2, <2>3, <2>4, <2>6, <2>7, <2>8 DEF IInv
<1>17. CASE Complete(c)
  <2>0. worker' = [worker EXCEPT ![c] = "none"] /\ worker[c] = "done"
    BY <1>17 DEF Complete
  <2>1. Cardinality(Live') + 1 = Cardinality(Live)
        /\ Cardinality(Live') \in Nat /\ Cardinality(Live) \in Nat
        /\ Cardinality(Streaming') = Cardinality(Streaming)
        /\ Cardinality(Holders') = Cardinality(Holders)
        /\ Cardinality(Streaming) \in Nat /\ Cardinality(Holders) \in Nat
    <3>1. worker[c] \notin Holding /\ worker[c] \in Counted /\ worker[c] # "stream"
          /\ "none" \notin Holding /\ "none" \notin Counted
      BY <2>0 DEF Holding, Counted, Talking
    <3>2. /\ Cardinality(Holders) \in Nat /\ Cardinality(Holders') \in Nat
          /\ Cardinality(Live) \in Nat /\ Cardinality(Live') \in Nat
          /\ Cardinality(Streaming) \in Nat /\ Cardinality(Streaming') \in Nat
          /\ Cardinality(Holders') = Moved(Cardinality(Holders), worker[c] \in Holding, "none" \in Holding)
          /\ Cardinality(Live') = Moved(Cardinality(Live), worker[c] \in Counted, "none" \in Counted)
          /\ Cardinality(Streaming') = Moved(Cardinality(Streaming), worker[c] = "stream", "none" = "stream")
      BY <2>0, Counts
    <3> QED
      BY <3>1, <3>2 DEF Moved
  <2>2. RunningAccounted' /\ running' \in Nat
    BY <1>17, <2>1 DEF IInv, Complete, RunningAccounted, TypeOK
  <2>3. TypeOK'
    BY <1>17, <2>2, TicksAssumption DEF Complete, TypeOK, WorkerPlaces, instVars
  <2>4. SlotsAccounted' /\ StreamsLeaveWorker'
    BY <1>17, <2>1 DEF IInv, Complete, SlotsAccounted, StreamsLeaveWorker
  <2>5. Kept' \subseteq Kept /\ Live' \subseteq Live
    BY <1>17 DEF Complete, Kept, Live, Counted, Holding, Talking, TypeOK
  <2>6. KeptLeaveRoom'
    BY <2>5, FewerKept DEF IInv
  <2>7. DrainedBeforeStop' /\ CtrlStarted'
    BY <1>17, <2>5 DEF IInv, Complete, DrainedBeforeStop, CtrlStarted, instVars
  <2>8. InHand' /\ TimeLeft' /\ Fresh'
    BY <1>17 DEF IInv, Complete, InHand, TimeLeft, Timed, Fresh, TypeOK
  <2> QED
    BY <2>2, <2>3, <2>4, <2>6, <2>7, <2>8 DEF IInv
<1> QED
  BY <1>1, <1>2, <1>3, <1>4, <1>5, <1>6, <1>7, <1>8, <1>9, <1>10, <1>11, <1>12,
     <1>13, <1>14, <1>15, <1>16, <1>17 DEF Work

-----------------------------------------------------------------------------
(* The steps of the thread in run(), of its caller and of the network.     *)

(* Steps that leave the connections and the counts alone.                  *)
LEMMA MainStep ==
  ASSUME IInv, UNCHANGED <<cur, sem, running, streams, connVars>>,
         main' \in MainPlaces,
         close' \in BOOLEAN, ssl' \in BOOLEAN, tlsConf' \in BOOLEAN, ctrl' \in BOOLEAN,
         InHand', DrainedBeforeStop', CtrlStarted'
  PROVE  IInv'
<1>1. TypeOK'
  BY DEF IInv, TypeOK, connVars
<1>2. Holders' = Holders /\ Live' = Live /\ Streaming' = Streaming /\ Kept' = Kept
  BY DEF Holders, Live, Streaming, Kept, connVars
<1>3. SlotsAccounted' /\ RunningAccounted' /\ StreamsLeaveWorker' /\ KeptLeaveRoom'
  BY <1>2 DEF IInv, SlotsAccounted, RunningAccounted, StreamsLeaveWorker, KeptLeaveRoom
<1>4. TimeLeft' /\ Fresh'
  BY DEF IInv, TimeLeft, Fresh, connVars
<1> QED
  BY <1>1, <1>3, <1>4 DEF IInv

(* No worker is counted, none holds a slot, and none streams.              *)
LEMMA NoneCounted ==
  ASSUME Live = {}
  PROVE  /\ Holders = {} /\ Streaming = {} /\ Kept = {}
         /\ Cardinality(Live) = 0 /\ Cardinality(Holders) = 0 /\ Cardinality(Streaming) = 0
<1>1. Holders = {} /\ Streaming = {} /\ Kept = {}
  BY DEF Live, Holders, Streaming, Kept, Counted, Holding, Talking
<1> QED
  BY <1>1, FS_EmptySet

LEMMA CallerStep ==
  ASSUME IInv, Caller
  PROVE  IInv'
<1>1. CASE Create
  <2>1. Live = {} /\ Live' = {} /\ Holders' = Holders /\ Streaming' = Streaming /\ Kept' = Kept
    BY <1>1 DEF IInv, Create, GoMain, DrainedBeforeStop, Live, Holders, Streaming, Kept, connVars
  <2>2. TypeOK'
    <3>1. sem' \in 0..ThreadMax /\ running' \in Nat
      BY <1>1, ThreadMaxAssumption DEF Create
    <3>2. ssl' \in BOOLEAN /\ tlsConf' \in BOOLEAN /\ close' \in BOOLEAN /\ main' \in MainPlaces
      BY <1>1, Zenon DEF Create, GoMain, MainPlaces
    <3> QED
      BY <1>1, <3>1, <3>2 DEF IInv, Create, TypeOK, connVars
  <2>3. SlotsAccounted' /\ RunningAccounted' /\ StreamsLeaveWorker' /\ KeptLeaveRoom'
    BY <1>1, <2>1, NoneCounted, ThreadMaxAssumption
       DEF IInv, Create, SlotsAccounted, RunningAccounted, StreamsLeaveWorker, KeptLeaveRoom
  <2>4. DrainedBeforeStop' /\ InHand' /\ TimeLeft' /\ Fresh' /\ CtrlStarted'
    BY <1>1, <2>1 DEF IInv, Create, GoMain, DrainedBeforeStop, InHand, TimeLeft, Fresh,
       CtrlStarted, Serving, Draining, connVars
  <2> QED
    BY <2>2, <2>3, <2>4 DEF IInv
<1>2. CASE Stop
  <2>1. InHand' /\ DrainedBeforeStop' /\ CtrlStarted'
    BY <1>2 DEF IInv, Stop, InHand, DrainedBeforeStop, CtrlStarted, Live, connVars
  <2> QED
    BY <1>2, <2>1, MainStep DEF IInv, Stop, TypeOK
<1>3. CASE Destroy
  <2>1. InHand' /\ DrainedBeforeStop' /\ CtrlStarted'
    BY <1>3 DEF IInv, Destroy, GoMain, InHand, DrainedBeforeStop, CtrlStarted, Live,
       Serving, Draining, connVars, instVars
  <2> QED
    BY <1>3, <2>1, MainStep DEF IInv, Destroy, GoMain, TypeOK, MainPlaces, instVars
<1> QED
  BY <1>1, <1>2, <1>3 DEF Caller

(* Steps that move the connection in hand between places outside the pool. *)
LEMMA HandStep ==
  ASSUME IInv, NEW c \in Conn, NEW to \in {"none", "accepted"},
         worker[c] \in {"none", "accepted"},
         worker' = [worker EXCEPT ![c] = to],
         UNCHANGED <<sem, running, streams, instVars, keep, ticks>>,
         main \in Serving, main' \in Serving,
         cur' \in Conn \cup {None}, open' \subseteq Conn, InHand'
  PROVE  IInv'
<1>1. TypeOK'
  BY DEF IInv, TypeOK, MainPlaces, WorkerPlaces, instVars
<1>2. Holders' = Holders /\ Live' = Live /\ Streaming' = Streaming /\ Kept' = Kept
  BY DEF IInv, TypeOK, Holders, Live, Streaming, Kept, Counted, Holding, Talking
<1>3. SlotsAccounted' /\ RunningAccounted' /\ StreamsLeaveWorker' /\ KeptLeaveRoom'
  BY <1>2 DEF IInv, SlotsAccounted, RunningAccounted, StreamsLeaveWorker, KeptLeaveRoom
<1>4. DrainedBeforeStop' /\ CtrlStarted' /\ TimeLeft' /\ Fresh'
  BY <1>2 DEF IInv, TypeOK, DrainedBeforeStop, CtrlStarted, TimeLeft, Timed, Fresh,
     Serving, instVars
<1> QED
  BY <1>1, <1>3, <1>4 DEF IInv

LEMMA NetworkStep ==
  ASSUME IInv, Network
  PROVE  IInv'
<1>1. CASE ListenError
  <2>1. InHand' /\ DrainedBeforeStop' /\ CtrlStarted'
    BY <1>1 DEF IInv, ListenError, GoMain, InHand, DrainedBeforeStop, CtrlStarted, Live,
       Serving, Draining, connVars, instVars
  <2> QED
    BY <1>1, <2>1, MainStep DEF IInv, ListenError, GoMain, TypeOK, MainPlaces, Serving, instVars
<1>2. ASSUME NEW c \in Conn, Accept(c) PROVE IInv'
  <2>1. InHand'
    BY <1>2 DEF IInv, Accept, GoMain, InHand, TypeOK
  <2> QED
    BY <1>2, <2>1, HandStep DEF IInv, Accept, GoMain, TypeOK, Serving
<1> QED
  BY <1>1, <1>2 DEF Network

LEMMA RunStep ==
  ASSUME IInv, Run
  PROVE  IInv'
<1> USE DEF GoMain
<1> TypeOK /\ worker \in [Conn -> WorkerPlaces]
  BY DEF IInv, TypeOK
<1>1. CASE Begin
  <2>1. InHand' /\ DrainedBeforeStop' /\ CtrlStarted'
    BY <1>1 DEF IInv, Begin, InHand, DrainedBeforeStop, CtrlStarted, Live, connVars
  <2> QED
    BY <1>1, <2>1, MainStep DEF Begin, TypeOK, MainPlaces, Serving
<1>2. CASE BeginFails
  <2>1. InHand' /\ DrainedBeforeStop' /\ CtrlStarted'
    BY <1>2 DEF IInv, BeginFails, InHand, DrainedBeforeStop, CtrlStarted, Live,
       Serving, Draining, connVars
  <2> QED
    BY <1>2, <2>1, MainStep DEF BeginFails, TypeOK, MainPlaces
<1>3. CASE LoopEnds \/ AllocThread \/ AllocThreadFails \/ SelectTimesOut
  <2>1. InHand' /\ DrainedBeforeStop' /\ CtrlStarted'
    BY <1>3 DEF IInv, LoopEnds, AllocThread, AllocThreadFails, SelectTimesOut, InHand,
       DrainedBeforeStop, CtrlStarted, Live, Serving, Draining, connVars, instVars
  <2> QED
    BY <1>3, <2>1, MainStep DEF LoopEnds, AllocThread, AllocThreadFails, SelectTimesOut,
       TypeOK, MainPlaces, Serving, Draining, instVars
<1>4. CASE TakeConnection
  <2>1. InHand' /\ DrainedBeforeStop' /\ CtrlStarted'
    BY <1>4 DEF IInv, TakeConnection, InHand, DrainedBeforeStop, CtrlStarted, Live,
       Serving, Draining, connVars, instVars
  <2> QED
    BY <1>4, <2>1, MainStep DEF TakeConnection, TypeOK, MainPlaces, Serving, instVars
<1>5. CASE AbandonConnection
  <2>1. cur \in Conn /\ worker[cur] = "accepted"
    BY <1>5 DEF IInv, InHand, AbandonConnection
  <2>2. InHand'
    BY <1>5, <2>1 DEF IInv, InHand, AbandonConnection, TypeOK
  <2> QED
    BY <1>5, <2>1, <2>2, HandStep DEF AbandonConnection, TypeOK, Serving, connVars
<1>6. CASE SlotTimesOut
  <2>1. cur \in Conn /\ worker[cur] = "accepted"
    BY <1>6 DEF IInv, InHand, SlotTimesOut
  <2>2. InHand'
    BY <1>6, <2>1 DEF IInv, InHand, SlotTimesOut, TypeOK
  <2> QED
    BY <1>6, <2>1, <2>2, HandStep DEF SlotTimesOut, TypeOK, Serving
<1>7. CASE TakeSlot
  <2>1. cur \in Conn /\ worker[cur] = "accepted" /\ worker' = [worker EXCEPT ![cur] = "spawning"]
    BY <1>7 DEF IInv, InHand, TakeSlot
  <2>2. /\ Cardinality(Holders) \in Nat /\ Cardinality(Live) \in Nat
        /\ Cardinality(Holders') = Cardinality(Holders) + 1
        /\ Cardinality(Live') = Cardinality(Live) + 1
        /\ Cardinality(Streaming') = Cardinality(Streaming)
    <3>1. /\ Cardinality(Holders) \in Nat /\ Cardinality(Live) \in Nat
          /\ Cardinality(Holders') = Moved(Cardinality(Holders), worker[cur] \in Holding, "spawning" \in Holding)
          /\ Cardinality(Live') = Moved(Cardinality(Live), worker[cur] \in Counted, "spawning" \in Counted)
          /\ Cardinality(Streaming') = Moved(Cardinality(Streaming), worker[cur] = "stream", "spawning" = "stream")
      BY <2>1, Counts
    <3> QED
      BY <2>1, <3>1 DEF Moved, Holding, Counted, Talking
  <2>3. TypeOK'
    <3>1. sem' \in 0..ThreadMax /\ running' \in Nat
      BY <1>7, ThreadMaxAssumption DEF TakeSlot, TypeOK
    <3>2. main' \in MainPlaces /\ worker' \in [Conn -> WorkerPlaces]
      BY <1>7, <2>1 DEF TakeSlot, TypeOK, MainPlaces, Serving, WorkerPlaces, Counted, Holding
    <3> QED
      BY <1>7, <3>1, <3>2 DEF TakeSlot, TypeOK, instVars
  <2>4. SlotsAccounted' /\ RunningAccounted' /\ StreamsLeaveWorker'
    BY <1>7, <2>2, ThreadMaxAssumption
       DEF IInv, TakeSlot, SlotsAccounted, RunningAccounted, StreamsLeaveWorker, TypeOK
  <2>5. Kept' \subseteq Kept
    BY <1>7, <2>1 DEF IInv, TakeSlot, Kept, Fresh, TypeOK
  <2>6. KeptLeaveRoom'
    BY <2>5, FewerKept DEF IInv
  <2>7. DrainedBeforeStop' /\ CtrlStarted'
    BY <1>7 DEF IInv, TakeSlot, DrainedBeforeStop, CtrlStarted, Serving, Draining, instVars
  <2>8. InHand' /\ TimeLeft' /\ Fresh'
    BY <1>7, <2>1 DEF IInv, TakeSlot, InHand, TimeLeft, Timed, Fresh, TypeOK
  <2> QED
    BY <2>3, <2>4, <2>6, <2>7, <2>8 DEF IInv
<1>8. CASE Spawn
  <2>1. cur \in Conn /\ worker[cur] = "spawning" /\ worker' = [worker EXCEPT ![cur] = "handshake"]
    BY <1>8 DEF IInv, InHand, Spawn
  <2>2. Holders' = Holders /\ Live' = Live /\ Streaming' = Streaming /\ Kept' = Kept
    BY <1>8, <2>1 DEF Spawn, Holders, Live, Streaming, Kept, Counted, Holding, Talking, TypeOK
  <2>3. TypeOK'
    <3>1. ConnectTicks \in 0..KeepTicks
      BY TicksAssumption
    <3>2. ticks' \in [Conn -> 0..KeepTicks]
      BY <1>8, <2>1, <3>1 DEF IInv, Spawn, TypeOK
    <3>3. main' \in MainPlaces
      BY <1>8 DEF Spawn, MainPlaces, Serving
    <3>4. worker' \in [Conn -> WorkerPlaces]
      BY <2>1 DEF IInv, TypeOK, WorkerPlaces, Counted, Holding, Talking
    <3> QED
      BY <1>8, <3>2, <3>3, <3>4 DEF IInv, Spawn, TypeOK, instVars
  <2>4. SlotsAccounted' /\ RunningAccounted' /\ StreamsLeaveWorker' /\ KeptLeaveRoom'
    BY <1>8, <2>2
       DEF IInv, Spawn, SlotsAccounted, RunningAccounted, StreamsLeaveWorker, KeptLeaveRoom
  <2>5. DrainedBeforeStop' /\ CtrlStarted'
    BY <1>8, <2>2 DEF IInv, Spawn, DrainedBeforeStop, CtrlStarted, Serving, Draining, instVars
  <2>6. InHand' /\ Fresh'
    BY <1>8, <2>1 DEF IInv, Spawn, InHand, Fresh, TypeOK
  <2>7. TimeLeft'
    BY <1>8, <2>1, TicksAssumption DEF IInv, Spawn, TimeLeft, TypeOK
  <2> QED
    BY <2>3, <2>4, <2>5, <2>6, <2>7 DEF IInv
<1>9. CASE SpawnFails
  <2>1. cur \in Conn /\ worker[cur] = "spawning" /\ worker' = [worker EXCEPT ![cur] = "none"]
    BY <1>9 DEF IInv, InHand, SpawnFails
  <2>2. /\ Cardinality(Holders') \in Nat /\ Cardinality(Live') \in Nat
        /\ Cardinality(Holders) = Cardinality(Holders') + 1
        /\ Cardinality(Live) = Cardinality(Live') + 1
        /\ Cardinality(Streaming') = Cardinality(Streaming)
    <3>1. /\ Cardinality(Holders) \in Nat /\ Cardinality(Live) \in Nat
          /\ Cardinality(Holders') \in Nat /\ Cardinality(Live') \in Nat
          /\ Cardinality(Holders') = Moved(Cardinality(Holders), worker[cur] \in Holding, "none" \in Holding)
          /\ Cardinality(Live') = Moved(Cardinality(Live), worker[cur] \in Counted, "none" \in Counted)
          /\ Cardinality(Streaming') = Moved(Cardinality(Streaming), worker[cur] = "stream", "none" = "stream")
      BY <2>1, Counts
    <3> QED
      BY <2>1, <3>1 DEF Moved, Holding, Counted, Talking
  <2>3. /\ SlotsAccounted' /\ sem' \in 0..ThreadMax
        /\ RunningAccounted' /\ running' \in Nat
        /\ StreamsLeaveWorker'
    BY <1>9, <2>2, ThreadMaxAssumption
       DEF IInv, SpawnFails, SlotsAccounted, RunningAccounted, StreamsLeaveWorker, TypeOK
  <2>4. TypeOK'
    BY <1>9, <2>3 DEF SpawnFails, TypeOK, MainPlaces, Serving, WorkerPlaces, instVars
  <2>5. Kept' \subseteq Kept /\ Live' \subseteq Live
    BY <1>9, <2>1 DEF SpawnFails, Kept, Live, Counted, Holding, Talking, TypeOK
  <2>6. KeptLeaveRoom'
    BY <2>5, FewerKept DEF IInv
  <2>7. DrainedBeforeStop' /\ CtrlStarted'
    BY <1>9, <2>5 DEF IInv, SpawnFails, DrainedBeforeStop, CtrlStarted, Serving, Draining, instVars
  <2>8. InHand' /\ TimeLeft' /\ Fresh'
    BY <1>9, <2>1 DEF IInv, SpawnFails, InHand, TimeLeft, Timed, Fresh, TypeOK
  <2> QED
    BY <2>3, <2>4, <2>6, <2>7, <2>8 DEF IInv
<1>10. CASE CloseListener
  <2>1. InHand' /\ DrainedBeforeStop' /\ CtrlStarted'
    BY <1>10 DEF IInv, CloseListener, InHand, DrainedBeforeStop, CtrlStarted, Live,
       Serving, Draining, connVars
  <2> QED
    BY <1>10, <2>1, MainStep DEF CloseListener, TypeOK, MainPlaces, Draining
<1>11. CASE Drained
  <2>1. Live = {}
    <3>1. IsFiniteSet(Live)
      BY ConnFinite, FS_Subset, Live \in SUBSET Conn DEF Live
    <3>2. Cardinality(Live) = 0
      BY <1>11, <3>1, FS_CardinalityType DEF IInv, Drained, RunningAccounted
    <3> QED
      BY <3>1, <3>2, FS_EmptySet
  <2>2. InHand' /\ DrainedBeforeStop' /\ CtrlStarted'
    BY <1>11, <2>1 DEF IInv, Drained, InHand, DrainedBeforeStop, CtrlStarted, Live,
       Serving, Draining, connVars, instVars
  <2> QED
    BY <1>11, <2>2, MainStep DEF Drained, TypeOK, MainPlaces, instVars
<1>12. CASE StopHandlers
  <2>1. InHand' /\ DrainedBeforeStop' /\ CtrlStarted'
    BY <1>12 DEF IInv, StopHandlers, InHand, DrainedBeforeStop, CtrlStarted, Live,
       Serving, Draining, connVars
  <2> QED
    BY <1>12, <2>1, MainStep DEF StopHandlers, TypeOK, MainPlaces
<1> QED
  BY <1>1, <1>2, <1>3, <1>4, <1>5, <1>6, <1>7, <1>8, <1>9, <1>10, <1>11, <1>12 DEF Run

-----------------------------------------------------------------------------
LEMMA InitIInv == Init => IInv
<1> SUFFICES ASSUME Init PROVE IInv
  OBVIOUS
<1>1. Live = {}
  BY DEF Init, Live, Counted, Holding, Talking
<1>2. TypeOK
  <2>1. sem \in 0..ThreadMax /\ running \in Nat /\ streams \in 0..StreamsMax
        /\ ticks \in [Conn -> 0..KeepTicks]
    BY ThreadMaxAssumption, StreamsMaxAssumption, TicksAssumption DEF Init
  <2>2. ssl \in BOOLEAN /\ tlsConf \in BOOLEAN /\ close \in BOOLEAN /\ ctrl \in BOOLEAN
    BY Zenon DEF Init
  <2>3. main \in MainPlaces /\ worker \in [Conn -> WorkerPlaces] /\ keep \in [Conn -> BOOLEAN]
    BY DEF Init, MainPlaces, WorkerPlaces
  <2> QED
    BY <2>1, <2>2, <2>3 DEF Init, TypeOK
<1>3. SlotsAccounted /\ RunningAccounted /\ StreamsLeaveWorker /\ KeptLeaveRoom
  BY <1>1, NoneCounted, ThreadMaxAssumption
     DEF Init, SlotsAccounted, RunningAccounted, StreamsLeaveWorker, KeptLeaveRoom
<1>4. DrainedBeforeStop /\ InHand /\ TimeLeft /\ Fresh /\ CtrlStarted
  BY <1>1 DEF Init, DrainedBeforeStop, InHand, TimeLeft, Timed, Fresh, CtrlStarted,
     Serving, Draining
<1> QED
  BY <1>2, <1>3, <1>4 DEF IInv

LEMMA NextIInv == IInv /\ [Next]_vars => IInv'
<1> SUFFICES ASSUME IInv, [Next]_vars PROVE IInv'
  OBVIOUS
<1>1. CASE Next
  BY <1>1, CallerStep, RunStep, NetworkStep, WorkStep DEF Next
<1>2. CASE UNCHANGED vars
  <2>1. InHand' /\ DrainedBeforeStop' /\ CtrlStarted'
    BY <1>2 DEF IInv, vars, instVars, connVars, InHand, DrainedBeforeStop, CtrlStarted, Live
  <2> QED
    BY <1>2, <2>1, MainStep DEF IInv, TypeOK, vars, instVars
<1> QED
  BY <1>1, <1>2

(* The inductive invariant holds in every behaviour.                       *)
THEOREM Invariance == Spec => []IInv
BY InitIInv, NextIInv, PTL DEF Spec

(* Every variable keeps its type: no slot is given back twice, and the     *)
(* worker's timeout never runs below zero.                                 *)
THEOREM TypeCorrect == Spec => []TypeOK
BY Invariance, PTL DEF IInv

(* Each slot of count_sem is free or held by one worker.                   *)
THEOREM SlotsCorrect == Spec => []SlotsAccounted
BY Invariance, PTL DEF IInv

(* inst->running counts the workers whose memory is in use.                *)
THEOREM RunningCorrect == Spec => []RunningAccounted
BY Invariance, PTL DEF IInv

(* The connections that stay open leave two workers to others.             *)
THEOREM KeptCorrect == Spec => []KeptLeaveRoom
BY Invariance, PTL DEF IInv

(* The streams never hold every worker.                                    *)
THEOREM StreamsCorrect == Spec => []StreamsLeaveWorker
BY Invariance, PTL DEF IInv

(* No worker is left when the handlers stop, and when run() returns.       *)
THEOREM DrainCorrect == Spec => []DrainedBeforeStop
BY Invariance, PTL DEF IInv

-----------------------------------------------------------------------------
(* The web server implements the pool of workers, for any number of        *)
(* connections and slots: each of its steps is a step of WorkerPool or     *)
(* leaves the pool as it is.                                               *)

(* A slot can only be taken while fewer than Capacity workers hold one.    *)
LEMMA RoomForOneMore ==
  ASSUME IInv, sem > 0
  PROVE  Cardinality(Holders) < ThreadMax
<1>1. IsFiniteSet(Holders)
  BY ConnFinite, FS_Subset, Holders \in SUBSET Conn DEF Holders
<1>2. Cardinality(Holders) \in Nat
  BY <1>1, FS_CardinalityType
<1> QED
  BY <1>2, ThreadMaxAssumption DEF IInv, SlotsAccounted, TypeOK

(* The pool counts as the server does.                                     *)
LEMMA SameCount == ASSUME NEW S PROVE Pool!Cardinality(S) = Cardinality(S)
BY DEF Cardinality, Pool!Cardinality

(* A worker that moves among the places that hold a slot is not seen.      *)
LEMMA HoldingStep ==
  ASSUME IInv, NEW c \in Conn, NEW to \in Holding, worker[c] \in Holding,
         worker' = [worker EXCEPT ![c] = to], main' = main
  PROVE  UNCHANGED Pool!vars
<1>1. Holders' = Holders /\ Live' = Live
  BY DEF IInv, TypeOK, Holders, Live, Counted
<1> QED
  BY <1>1 DEF Pool!vars, Stage

LEMMA WorkRefines ==
  ASSUME IInv, NEW c \in Conn, Work(c)
  PROVE  [Pool!Next]_(Pool!vars)
<1> worker \in [Conn -> WorkerPlaces]
  BY DEF IInv, TypeOK
<1> USE DEF Go
<1>1. CASE GiveSlot(c)
  <2>1. worker[c] = "signal" /\ worker' = [worker EXCEPT ![c] = "done"] /\ main' = main
    BY <1>1 DEF GiveSlot
  <2>2. Live' = Live
    BY <2>1 DEF Live, Counted, Holding
  <2>3. Holders' = Holders \ {c} /\ c \in Holders
    BY <2>1 DEF Holders, Holding, Talking
  <2>4. Pool!Release(c)
    BY <2>1, <2>2, <2>3 DEF Pool!Release, Stage
  <2> QED
    BY <2>4 DEF Pool!Next
<1>2. CASE Complete(c)
  <2>1. worker[c] = "done" /\ worker' = [worker EXCEPT ![c] = "none"] /\ main' = main
    BY <1>2 DEF Complete
  <2>2. Live' = Live \ {c} /\ c \in Live
    BY <2>1 DEF Live, Counted, Holding, Talking
  <2>3. Holders' = Holders /\ c \notin Holders
    BY <2>1 DEF Holders, Holding, Talking
  <2>4. Pool!Leave(c)
    BY <2>1, <2>2, <2>3 DEF Pool!Leave, Stage
  <2> QED
    BY <2>4 DEF Pool!Next
<1>3. CASE ~GiveSlot(c) /\ ~Complete(c)
  <2>1. main' = main
    BY <1>3 DEF Work, Handshake, Top, ReadNothing, ReadEnds, ReadRequest, Decide, Refuse, NotFound,
       RunHandler, HandlerDone, StreamOpen, StreamRefused, StreamEnds, Answered, CloseConnection
  <2>2. PICK to \in Talking \cup {"signal"} : worker[c] \in Talking /\ worker' = [worker EXCEPT ![c] = to]
    BY <1>3 DEF Work, Handshake, Top, ReadNothing, ReadEnds, ReadRequest, Decide, Refuse, NotFound,
       RunHandler, HandlerDone, StreamOpen, StreamRefused, StreamEnds, Answered, CloseConnection, Talking
  <2>3. to \in Holding /\ worker[c] \in Holding
    BY <2>2 DEF Holding
  <2> QED
    BY <2>1, <2>2, <2>3, HoldingStep
<1> QED
  BY <1>1, <1>2, <1>3

-----------------------------------------------------------------------------
(* The thread in run(): moves that start or end no worker.                 *)
LEMMA QuietMain ==
  ASSUME UNCHANGED worker, Stage' = Stage
  PROVE  UNCHANGED Pool!vars
BY DEF Pool!vars, Holders, Live

LEMMA CallerRefines ==
  ASSUME IInv, Caller
  PROVE  [Pool!Next]_(Pool!vars)
<1> USE DEF GoMain
<1>1. CASE Create
  <2>1. Stage = "over" /\ Stage' = "made"
    BY <1>1 DEF Create, Stage, Serving, Draining
  <2>2. Holders' = Holders /\ Live' = Live
    BY <1>1 DEF Create, connVars, Holders, Live
  <2> QED
    BY <2>1, <2>2 DEF Pool!Remake, Pool!Next
<1>2. CASE Stop
  BY <1>2, QuietMain DEF Stop, connVars, Stage
<1>3. CASE Destroy
  <2>1. Stage' = Stage
    BY <1>3 DEF Destroy, Stage, Serving, Draining
  <2> QED
    BY <1>3, <2>1, QuietMain DEF Destroy, connVars
<1> QED
  BY <1>1, <1>2, <1>3 DEF Caller

(* The connection in hand changes places outside the pool.                 *)
LEMMA HandRefines ==
  ASSUME IInv, NEW c \in Conn, NEW to \in {"none", "accepted"},
         worker[c] \in {"none", "accepted"},
         worker' = [worker EXCEPT ![c] = to],
         main \in Serving, main' \in Serving
  PROVE  UNCHANGED Pool!vars
<1>1. Holders' = Holders /\ Live' = Live
  BY DEF IInv, TypeOK, Holders, Live, Counted, Holding, Talking
<1>2. Stage' = Stage
  BY DEF Stage, Serving
<1> QED
  BY <1>1, <1>2 DEF Pool!vars

LEMMA NetworkRefines ==
  ASSUME IInv, Network
  PROVE  [Pool!Next]_(Pool!vars)
<1>1. CASE ListenError
  <2>1. Stage' = Stage
    BY <1>1 DEF ListenError, GoMain, Stage, Serving
  <2> QED
    BY <1>1, <2>1, QuietMain DEF ListenError, connVars
<1>2. ASSUME NEW c \in Conn, Accept(c) PROVE UNCHANGED Pool!vars
  BY <1>2, HandRefines DEF Accept, GoMain, Serving
<1> QED
  BY <1>1, <1>2 DEF Network

LEMMA RunRefines ==
  ASSUME IInv, Run
  PROVE  [Pool!Next]_(Pool!vars)
<1> worker \in [Conn -> WorkerPlaces]
  BY DEF IInv, TypeOK
<1> USE DEF GoMain
<1>1. CASE Begin
  <2>1. Stage = "made" /\ Stage' = "serving"
    BY <1>1 DEF Begin, Stage, Serving
  <2>2. Holders' = Holders /\ Live' = Live
    BY <1>1 DEF Begin, connVars, Holders, Live
  <2> QED
    BY <2>1, <2>2 DEF Pool!Begin, Pool!Next
<1>2. CASE BeginFails
  <2>1. Stage = "made" /\ Stage' = "over"
    BY <1>2 DEF BeginFails, Stage, Serving, Draining
  <2>2. Holders' = Holders /\ Live' = Live
    BY <1>2 DEF BeginFails, connVars, Holders, Live
  <2>3. Live = {}
    BY <1>2 DEF BeginFails, IInv, DrainedBeforeStop
  <2> QED
    BY <2>1, <2>2, <2>3 DEF Pool!Finish, Pool!Next
<1>3. CASE LoopEnds \/ AllocThreadFails
  <2>1. Stage = "serving" /\ Stage' = "draining"
    BY <1>3 DEF LoopEnds, AllocThreadFails, Stage, Serving, Draining
  <2>2. Holders' = Holders /\ Live' = Live
    BY <1>3 DEF LoopEnds, AllocThreadFails, connVars, Holders, Live
  <2> QED
    BY <2>1, <2>2 DEF Pool!Drain, Pool!Next
<1>4. CASE AllocThread \/ SelectTimesOut \/ TakeConnection \/ CloseListener \/ StopHandlers
  <2>1. Stage' = Stage
    BY <1>4 DEF AllocThread, SelectTimesOut, TakeConnection, CloseListener, StopHandlers,
       Stage, Serving, Draining
  <2>2. worker' = worker
    BY <1>4 DEF AllocThread, SelectTimesOut, TakeConnection, CloseListener, StopHandlers, connVars
  <2> QED
    BY <2>1, <2>2, QuietMain
<1>5. CASE AbandonConnection \/ SlotTimesOut
  <2>1. main \in {"accepted", "semwait"} /\ main' = "loop" /\ worker' = [worker EXCEPT ![cur] = "none"]
    BY <1>5 DEF AbandonConnection, SlotTimesOut
  <2>2. cur \in Conn /\ worker[cur] = "accepted"
    BY <2>1 DEF IInv, InHand
  <2> QED
    BY <2>1, <2>2, HandRefines DEF Serving
<1>6. CASE TakeSlot
  <2>1. main = "semwait" /\ main' = "spawn" /\ sem > 0
        /\ worker' = [worker EXCEPT ![cur] = "spawning"]
    BY <1>6 DEF TakeSlot
  <2>2. cur \in Conn /\ worker[cur] = "accepted"
    BY <2>1 DEF IInv, InHand
  <2>3. Live' = Live \cup {cur} /\ cur \notin Live
    BY <2>1, <2>2 DEF Live, Counted, Holding, Talking
  <2>4. Holders' = Holders \cup {cur}
    BY <2>1, <2>2 DEF Holders, Holding
  <2>5. Stage = "serving" /\ Stage' = "serving"
    BY <2>1 DEF Stage, Serving
  <2>6. Pool!Admit(cur)
    BY <2>1, <2>3, <2>4, <2>5, RoomForOneMore, SameCount DEF Pool!Admit
  <2> QED
    BY <2>2, <2>6 DEF Pool!Next
<1>7. CASE Spawn
  <2>1. main = "spawn" /\ main' = "loop" /\ worker' = [worker EXCEPT ![cur] = "handshake"]
    BY <1>7 DEF Spawn
  <2>2. cur \in Conn /\ worker[cur] = "spawning"
    BY <2>1 DEF IInv, InHand
  <2>3. Live' = Live /\ Holders' = Holders
    BY <2>1, <2>2 DEF Live, Holders, Counted, Holding, Talking
  <2>4. Stage' = Stage
    BY <2>1 DEF Stage, Serving
  <2> QED
    BY <2>3, <2>4 DEF Pool!vars
<1>8. CASE SpawnFails
  <2>1. main = "spawn" /\ main' = "loop" /\ worker' = [worker EXCEPT ![cur] = "none"]
    BY <1>8 DEF SpawnFails
  <2>2. cur \in Conn /\ worker[cur] = "spawning"
    BY <2>1 DEF IInv, InHand
  <2>3. Live' = Live \ {cur} /\ cur \in Live
    BY <2>1, <2>2 DEF Live, Counted, Holding, Talking
  <2>4. Holders' = Holders \ {cur}
    BY <2>1, <2>2 DEF Holders, Holding, Talking
  <2>5. Stage' = Stage
    BY <2>1 DEF Stage, Serving
  <2>6. Pool!Leave(cur)
    BY <2>3, <2>4, <2>5 DEF Pool!Leave
  <2> QED
    BY <2>2, <2>6 DEF Pool!Next
<1>9. CASE Drained
  <2>1. Stage = "draining" /\ Stage' = "over"
    BY <1>9 DEF Drained, Stage, Serving, Draining
  <2>2. Holders' = Holders /\ Live' = Live
    BY <1>9 DEF Drained, connVars, Holders, Live
  <2>3. Live = {}
    <3>1. IsFiniteSet(Live)
      BY ConnFinite, FS_Subset, Live \in SUBSET Conn DEF Live
    <3>2. Cardinality(Live) = 0
      BY <1>9, <3>1, FS_CardinalityType DEF IInv, Drained, RunningAccounted
    <3> QED
      BY <3>1, <3>2, FS_EmptySet
  <2> QED
    BY <2>1, <2>2, <2>3 DEF Pool!Finish, Pool!Next
<1> QED
  BY <1>1, <1>2, <1>3, <1>4, <1>5, <1>6, <1>7, <1>8, <1>9 DEF Run

-----------------------------------------------------------------------------
LEMMA InitRefines == Init => Pool!Init
<1> SUFFICES ASSUME Init PROVE Pool!Init
  OBVIOUS
<1>1. Live = {} /\ Holders = {}
  BY DEF Init, Live, Holders, Counted, Holding, Talking
<1>2. Stage = "made"
  BY DEF Init, Stage
<1> QED
  BY <1>1, <1>2 DEF Pool!Init

LEMMA NextRefines == IInv /\ [Next]_vars => [Pool!Next]_(Pool!vars)
<1> SUFFICES ASSUME IInv, [Next]_vars
             PROVE  [Pool!Next]_(Pool!vars)
  OBVIOUS
<1>1. CASE Next
  BY <1>1, CallerRefines, RunRefines, NetworkRefines, WorkRefines DEF Next
<1>2. CASE UNCHANGED vars
  BY <1>2 DEF vars, connVars, Pool!vars, Stage, Live, Holders
<1> QED
  BY <1>1, <1>2

(* PoolSpec: a worker is admitted only while the server serves and a slot  *)
(* is free, keeps its slot until it gives it back once, and is gone before *)
(* run() lets the server be freed.                                         *)
THEOREM ImplementsPool == Spec => PoolSpec
<1>1. Spec => []IInv
  BY Invariance
<1> QED
  BY <1>1, InitRefines, NextRefines, PTL DEF Spec, PoolSpec, Pool!Spec

=============================================================================
