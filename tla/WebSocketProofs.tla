--------------------------- MODULE WebSocketProofs ---------------------------
(***************************************************************************)
(* The WebSocket client for any frames of the server and any way the       *)
(* network cuts them: payloads are given whole, once and in order, the      *)
(* server's close is answered, and no payload leaks or is freed twice.     *)
(*                                                                         *)
(* The invariant says where in the stream a read begins as long as nothing *)
(* was lost.  Where a frame starts is a fold over the frames before it;    *)
(* its equation is proved from the least element of a set of naturals.     *)
(***************************************************************************)
EXTENDS WebSocket, WellFoundedInduction, TLAPS

-----------------------------------------------------------------------------
(* Induction, from the well-founded order of the naturals.                 *)

LEMMA NatMin ==
  ASSUME NEW T \in SUBSET Nat, T # {}
  PROVE  \E x \in T : \A y \in T : x <= y
<1> DEFINE R == OpToRel(<, Nat)
<1>1. IsWellFoundedOn(R, Nat)
  BY NatLessThanWellFounded
<1>2. \A x, y \in Nat : x < y => <<x, y>> \in R
  BY DEF OpToRel
<1> HIDE DEF R
<1>3. PICK x \in T : \A y \in T : ~ (<<y, x>> \in R)
  BY <1>1, WFMin
<1>4. ASSUME NEW y \in T PROVE x <= y
  <2>1. x \in Nat /\ y \in Nat /\ ~(y < x)
    BY <1>2, <1>3
  <2> QED
    BY <2>1
<1> QED
  BY <1>4

LEMMA NatInd ==
  ASSUME NEW T, 0 \in T, \A n \in Nat : n \in T => n + 1 \in T
  PROVE  Nat \subseteq T
<1> SUFFICES ASSUME Nat \ T # {} PROVE FALSE
  OBVIOUS
<1>1. PICK x \in Nat \ T : \A y \in Nat \ T : x <= y
  BY NatMin
<1>2. x # 0 /\ x - 1 \in Nat
  BY <1>1
<1>3. x - 1 \in T
  BY <1>1, <1>2
<1> QED BY <1>1, <1>2, <1>3

LEMMA MaxOf ==
  ASSUME NEW k \in Nat \ {0}, NEW s \in SUBSET (1..k), k \in s
  PROVE  Max(s) = k
<1>1. \A y \in s : y <= k /\ y \in Nat
  OBVIOUS
<1>2. \A x \in s : (\A y \in s : x >= y) => x = k
  BY <1>1
<1> QED
  BY <1>1, <1>2 DEF Max

(* Total adds up the sizes of the frames one after the other. *)
Size(f) == HeadSize(f) + f.len
Adds(v, s) == v[0] = 0 /\ \A k \in 1..Len(s) : v[k] = v[k - 1] + Size(s[k])

LEMMA SizeType ==
  ASSUME NEW f \in Frames
  PROVE  /\ f \in [op : Opcodes, form : Forms, len : Nat] /\ HeadSize(f) \in Nat /\ HeadSize(f) >= 2
         /\ Size(f) \in Nat /\ Size(f) = HeadSize(f) + f.len
         /\ f.form = "short" => HeadSize(f) = 2
         /\ f.form = "two" => HeadSize(f) = 4
         /\ f.form # "short" => HeadSize(f) >= 4
<1>1. f \in [op : Opcodes, form : Forms, len : Nat]
  BY FramesAssumption
<1>2. /\ HeadSize(f) \in {2, 4, 6, 10} /\ (f.form = "short" => HeadSize(f) = 2) /\ (f.form = "two" => HeadSize(f) = 4)
      /\ (f.form # "short" => HeadSize(f) \in {4, 6, 10})
  BY <1>1 DEF HeadSize, Forms
<1> QED
  BY <1>1, <1>2 DEF Size

LEMMA TotalAdds ==
  ASSUME NEW s \in Seq(Frames)
  PROVE  \E v \in [0..Len(s) -> Int] : Adds(v, s) /\ Total(s) = v[Len(s)]
<1> DEFINE n == Len(s)
           Sum(g, x) == IF x = {} THEN 0 ELSE g[x \ {Max(x)}] + Size(s[Max(x)])
           Sums(g, k) == g \in [SUBSET (1..k) -> Int] /\ \A x \in SUBSET (1..k) : g[x] = Sum(g, x)
           iter == CHOOSE iter : iter = [x \in SUBSET DOMAIN s |-> Sum(iter, x)]
<1> HIDE DEF iter, Sums
<1>1. n \in Nat /\ DOMAIN s = 1..n /\ \A k \in 1..n : Size(s[k]) \in Int
  <2>1. \A k \in 1..n : s[k] \in Frames
    OBVIOUS
  <2> QED
    BY <2>1, SizeType
<1>2. Total(s) = iter[DOMAIN s]
  BY DEF Total, FoldLeft, MapThenFoldSet, iter, Size
<1> HIDE DEF n
<1>3. \E g : Sums(g, n)
  <2> DEFINE T == {k \in Nat : k <= n => \E g : Sums(g, k)}
  <2>1. 0 \in T
    <3>1. Sums([x \in SUBSET (1..0) |-> 0], 0)
      BY DEF Sums
    <3> QED
      BY <3>1
  <2>2. ASSUME NEW k \in Nat, k \in T, k + 1 <= n PROVE \E g : Sums(g, k + 1)
    <3>1. PICK g : Sums(g, k)
      BY <2>2, <1>1
    <3> DEFINE h == [x \in SUBSET (1..k + 1) |-> IF k + 1 \in x THEN g[x \ {k + 1}] + Size(s[k + 1]) ELSE g[x]]
    <3>2. \A x \in SUBSET (1..k + 1) : /\ x \ {k + 1} \in SUBSET (1..k)
                                       /\ k + 1 \notin x => x \in SUBSET (1..k)
      OBVIOUS
    <3>3. Size(s[k + 1]) \in Int
      BY <1>1, <2>2
    <3>4. h \in [SUBSET (1..k + 1) -> Int]
      BY <3>1, <3>2, <3>3 DEF Sums
    <3>5. ASSUME NEW x \in SUBSET (1..k + 1) PROVE h[x] = Sum(h, x)
      <4>1. CASE k + 1 \in x
        <5>1. Max(x) = k + 1 /\ x # {}
          BY <4>1, MaxOf
        <5>2. h[x \ {k + 1}] = g[x \ {k + 1}]
          BY <3>2
        <5> QED
          BY <4>1, <5>1, <5>2
      <4>2. CASE k + 1 \notin x
        <5>1. h[x] = Sum(g, x) /\ x \ {Max(x)} \in SUBSET (1..k)
          BY <3>1, <3>2, <4>2 DEF Sums
        <5>2. h[x \ {Max(x)}] = g[x \ {Max(x)}]
          BY <4>2, <5>1
        <5> QED
          BY <5>1, <5>2
      <4> QED
        BY <4>1, <4>2
    <3> HIDE DEF h
    <3> QED
      BY <3>4, <3>5 DEF Sums
  <2>3. \A k \in Nat : k \in T => k + 1 \in T
    BY <2>2
  <2> HIDE DEF T
  <2>4. n \in T
    BY <1>1, <2>1, <2>3, NatInd
  <2> QED
    BY <1>1, <2>4 DEF T
<1>4. iter = [x \in SUBSET DOMAIN s |-> Sum(iter, x)]
  <2>1. PICK g : Sums(g, n)
    BY <1>3
  <2>2. g = [x \in SUBSET DOMAIN s |-> Sum(g, x)]
    BY <1>1, <2>1 DEF Sums
  <2> QED
    BY <2>2 DEF iter
<1> DEFINE v == [k \in 0..n |-> iter[1..k]]
<1>5. iter[1..0] = 0
  BY <1>1, <1>4
<1>6. ASSUME NEW k \in Nat, k + 1 <= n
      PROVE  iter[1..k + 1] = iter[1..k] + Size(s[k + 1])
  <2>1. 1..k + 1 \in SUBSET DOMAIN s /\ k + 1 \in 1..k + 1
    BY <1>1, <1>6
  <2>2. (1..k + 1) \ {k + 1} = 1..k
    OBVIOUS
  <2>4. 1..k + 1 # {}
    BY <2>1
  <2>3. Max(1..k + 1) = k + 1
    BY <2>1, MaxOf
  <2> QED
    BY <1>4, <2>1, <2>2, <2>3, <2>4
<1>7. ASSUME NEW k \in 0..n PROVE iter[1..k] \in Int
  <2> DEFINE T == {j \in Nat : j <= n => iter[1..j] \in Int}
  <2>1. 0 \in T
    BY <1>5
  <2>2. \A j \in Nat : j \in T => j + 1 \in T
    BY <1>1, <1>6
  <2> HIDE DEF T
  <2>3. k \in T
    BY <1>7, <2>1, <2>2, NatInd
  <2> QED
    BY <1>7, <2>3 DEF T
<1>8. v \in [0..n -> Int] /\ v[0] = 0 /\ v[n] = Total(s)
  BY <1>1, <1>2, <1>5, <1>7
<1>9. ASSUME NEW k \in 1..n PROVE v[k] = v[k - 1] + Size(s[k])
  BY <1>1, <1>6, <1>9
<1> QED
  BY <1>8, <1>9 DEF Adds, n

LEMMA TotalNext ==
  ASSUME NEW s \in Seq(Frames), NEW t \in Seq(Frames), Len(t) = Len(s) + 1, \A k \in 1..Len(s) : t[k] = s[k]
  PROVE  Total(s) \in Int /\ Total(t) = Total(s) + Size(t[Len(t)])
<1> DEFINE n == Len(s)
<1>1. PICK v \in [0..n -> Int] : Adds(v, s) /\ Total(s) = v[n]
  BY TotalAdds
<1>2. PICK u \in [0..Len(t) -> Int] : Adds(u, t) /\ Total(t) = u[Len(t)]
  BY TotalAdds
<1>3. n \in Nat /\ Len(t) = n + 1
  OBVIOUS
<1> DEFINE T == {k \in Nat : k <= n => u[k] = v[k]}
<1>4. 0 \in T
  BY <1>1, <1>2 DEF Adds
<1>5. ASSUME NEW k \in Nat, k \in T PROVE k + 1 \in T
  <2> SUFFICES ASSUME k + 1 <= n PROVE u[k + 1] = v[k + 1]
    OBVIOUS
  <2>1. k + 1 \in 1..n /\ k + 1 \in 1..Len(t) /\ u[k] = v[k] /\ (k + 1) - 1 = k
    BY <1>3, <1>5
  <2> QED
    BY <1>1, <1>2, <2>1 DEF Adds
<1>6. n \in T
  BY <1>3, <1>4, <1>5, NatInd
<1>7. u[n + 1] = u[n] + Size(t[n + 1])
  BY <1>2, <1>3 DEF Adds
<1> QED
  BY <1>1, <1>2, <1>3, <1>6, <1>7

-----------------------------------------------------------------------------
(* Where the frames of a sequence start.                                   *)

Starts(s, k) == Total(SubSeq(s, 1, k - 1))

LEMMA StartsNext ==
  ASSUME NEW s \in Seq(Frames), NEW k \in 1..Len(s)
  PROVE  Starts(s, k) \in Int /\ Starts(s, k + 1) = Starts(s, k) + Size(s[k])
<1> DEFINE before == SubSeq(s, 1, k - 1)
           upto == SubSeq(s, 1, k)
<1>1. before \in Seq(Frames) /\ Len(before) = k - 1 /\ \A j \in 1..k - 1 : before[j] = s[j]
  OBVIOUS
<1>2. upto \in Seq(Frames) /\ Len(upto) = k /\ \A j \in 1..k : upto[j] = s[j]
  OBVIOUS
<1>3. upto = SubSeq(s, 1, (k + 1) - 1) /\ k \in 1..k
  OBVIOUS
<1> HIDE DEF before, upto
<1>4. Len(upto) = Len(before) + 1 /\ \A j \in 1..Len(before) : upto[j] = before[j]
  BY <1>1, <1>2
<1> QED
  BY <1>1, <1>2, <1>3, <1>4, TotalNext DEF Starts, before

LEMMA TotalNone == Total(<<>>) = 0
<1>1. <<>> \in Seq(Frames) /\ Len(<<>>) = 0
  OBVIOUS
<1> QED
  BY <1>1, TotalAdds DEF Adds

LEMMA StartsEnds ==
  ASSUME NEW s \in Seq(Frames)
  PROVE  Starts(s, 1) = 0 /\ Starts(s, Len(s) + 1) = Total(s)
<1>1. SubSeq(s, 1, 1 - 1) = <<>>
  OBVIOUS
<1>2. SubSeq(s, 1, (Len(s) + 1) - 1) = s
  OBVIOUS
<1> QED
  BY <1>1, <1>2, TotalNone DEF Starts

LEMMA StartsGrow ==
  ASSUME NEW s \in Seq(Frames)
  PROVE  /\ \A k \in 1..Len(s) + 1 : Starts(s, k) \in Nat
         /\ \A j, k \in 1..Len(s) + 1 : j < k => Starts(s, j + 1) <= Starts(s, k) /\ Starts(s, j) + 2 <= Starts(s, k)
<1>1. ASSUME NEW k \in 1..Len(s)
      PROVE  Starts(s, k) \in Int /\ Starts(s, k + 1) \in Int /\ Starts(s, k + 1) >= Starts(s, k) + 2
  <2>1. s[k] \in Frames
    OBVIOUS
  <2>2. Starts(s, k) \in Int /\ Starts(s, k + 1) = Starts(s, k) + Size(s[k])
    BY StartsNext
  <2>3. Size(s[k]) \in Nat /\ Size(s[k]) >= 2
    BY <2>1, SizeType
  <2> QED
    BY <2>2, <2>3
<1> DEFINE T == {k \in Nat : k <= Len(s) => /\ Starts(s, k + 1) \in Nat
                                            /\ \A j \in 1..k : Starts(s, j + 1) <= Starts(s, k + 1)}
<1>2. 0 \in T
  BY StartsEnds
<1>3. ASSUME NEW k \in Nat, k \in T PROVE k + 1 \in T
  <2> SUFFICES ASSUME k + 1 <= Len(s)
               PROVE  /\ Starts(s, k + 2) \in Nat
                      /\ \A j \in 1..k + 1 : Starts(s, j + 1) <= Starts(s, k + 2)
    OBVIOUS
  <2>1. Starts(s, k + 1) \in Nat /\ \A j \in 1..k : Starts(s, j + 1) <= Starts(s, k + 1)
    BY <1>3
  <2>2. k + 1 \in 1..Len(s) /\ (k + 1) + 1 = k + 2
    OBVIOUS
  <2>3. Starts(s, k + 2) \in Int /\ Starts(s, k + 2) >= Starts(s, k + 1) + 2
    BY <1>1, <2>2
  <2>4. ASSUME NEW j \in 1..k + 1 PROVE Starts(s, j + 1) <= Starts(s, k + 2)
    <3>1. CASE j = k + 1
      BY <2>2, <2>3, <3>1
    <3>2. CASE j \in 1..k
      <4>1. j \in 1..Len(s) /\ Starts(s, j + 1) <= Starts(s, k + 1)
        BY <2>1, <3>2
      <4>2. Starts(s, j + 1) \in Int
        BY <1>1, <4>1
      <4> QED
        BY <2>1, <2>3, <4>1, <4>2
    <3> QED
      BY <3>1, <3>2
  <2> QED
    BY <2>1, <2>3, <2>4
<1> HIDE DEF T
<1>4. Nat \subseteq T
  BY <1>2, <1>3, NatInd
<1>5. ASSUME NEW k \in 1..Len(s) + 1 PROVE Starts(s, k) \in Nat /\ \A j \in 1..k - 1 : Starts(s, j + 1) <= Starts(s, k)
  <2>1. k - 1 \in T /\ k - 1 <= Len(s) /\ (k - 1) + 1 = k
    BY <1>4
  <2> QED
    BY <2>1 DEF T
<1>6. ASSUME NEW j \in 1..Len(s) + 1, NEW k \in 1..Len(s) + 1, j < k
      PROVE  Starts(s, j + 1) <= Starts(s, k) /\ Starts(s, j) + 2 <= Starts(s, k)
  <2>1. j \in 1..k - 1 /\ j \in 1..Len(s)
    BY <1>6
  <2>2. Starts(s, j + 1) <= Starts(s, k) /\ Starts(s, k) \in Nat
    BY <1>5, <2>1
  <2> QED
    BY <1>1, <2>1, <2>2
<1> QED
  BY <1>5, <1>6

LEMMA StartsKept ==
  ASSUME NEW s \in Seq(Frames), NEW f \in Frames
  PROVE  /\ Append(s, f) \in Seq(Frames) /\ Len(Append(s, f)) = Len(s) + 1
         /\ \A k \in 1..Len(s) : Append(s, f)[k] = s[k]
         /\ \A k \in 1..Len(s) + 1 : Starts(Append(s, f), k) = Starts(s, k)
<1>1. ASSUME NEW k \in 1..Len(s) + 1 PROVE SubSeq(Append(s, f), 1, k - 1) = SubSeq(s, 1, k - 1)
  OBVIOUS
<1>2. ASSUME NEW k \in 1..Len(s) + 1 PROVE Starts(Append(s, f), k) = Starts(s, k)
  BY <1>1 DEF Starts
<1>3. Append(s, f) \in Seq(Frames) /\ Len(Append(s, f)) = Len(s) + 1 /\ \A k \in 1..Len(s) : Append(s, f)[k] = s[k]
  OBVIOUS
<1> QED
  BY <1>2, <1>3

-----------------------------------------------------------------------------
(* Types, and who has the payload's buffer.                                *)

Places == {"closed", "response", "idle", "length", "payload", "reply", "over"}
Causes == {"early", "cut", "long", "masked", "memory"}
FrameType == [op : Opcodes, form : Forms, left : Nat, first : Nat]

Types ==
  /\ at \in Places /\ sent \in Seq(Frames) /\ ended \in BOOLEAN /\ pos \in Nat /\ pos <= Total(sent)
  /\ frame \in FrameType /\ got \in Seq(Data \X Nat \X Nat)
  /\ result \in {"none", "data", "TIMEOUT", "CONNECTION", "HEADER", "MEMORY"}
  /\ buffer \in {"null", "owned", "freed"}
  /\ flags \subseteq {"server", "client"} /\ stale \subseteq flags /\ closes \in Nat
  /\ broken \in BOOLEAN /\ lost \in {"no"} \cup Causes

(* A payload that is read is owned; one that was given is the caller's. *)
BufferOK ==
  /\ buffer = "owned" <=> at \in {"payload", "reply"} \/ result = "data"
  /\ result = "data" => at = "idle"
  /\ at \in {"length", "payload", "reply"} => result = "none"

LEMMA TotalType == ASSUME NEW s \in Seq(Frames) PROVE Total(s) \in Nat
<1>1. Len(s) + 1 \in 1..Len(s) + 1
  OBVIOUS
<1> QED
  BY <1>1, StartsEnds, StartsGrow

LEMMA ReadsType ==
  ASSUME Types, NEW n \in Nat, NEW r \in Reads(n)
  PROVE  r \in Nat \ {0} /\ r <= n /\ pos + r \in Nat /\ pos + r <= Total(sent)
BY TotalType DEF Types, Reads, Unread

LEMMA PayloadType ==
  ASSUME Types, NEW op \in Opcodes, NEW n \in Nat, Payload(op, n), pos' \in Nat
  PROVE  /\ at' \in {"idle", "payload"} /\ result' \in {"none", "MEMORY"} /\ buffer' \in {"null", "owned"}
         /\ frame' \in FrameType /\ (buffer' = "owned" <=> at' = "payload")
         /\ at' = "payload" => /\ result' = "none" /\ n > 0 /\ frame'.op = op /\ frame'.left = n
                               /\ frame'.first = IF lost = "no" THEN pos' ELSE 0
         /\ at' = "idle" => n = 0 \/ result' = "MEMORY"
<1>1. NoFrame \in FrameType
  BY DEF NoFrame, FrameType, Opcodes, Data, Forms
<1>2. CASE Return("none") /\ n = 0 /\ frame' = NoFrame /\ buffer' = "null"
  BY <1>1, <1>2 DEF Return
<1>3. CASE Return("MEMORY") /\ frame' = NoFrame /\ buffer' = "null"
  BY <1>1, <1>3 DEF Return
<1>4. CASE /\ at' = "payload" /\ buffer' = "owned" /\ result' = "none" /\ n # 0
           /\ frame' = [NoFrame EXCEPT !.op = op, !.left = n, !.first = IF lost = "no" THEN pos' ELSE 0]
  <2> DEFINE first == IF lost = "no" THEN pos' ELSE 0
  <2>1. frame' = [op |-> op, form |-> "short", left |-> n, first |-> first]
    BY <1>4 DEF NoFrame
  <2>2. first \in Nat
    OBVIOUS
  <2>3. at' = "payload" /\ buffer' = "owned" /\ result' = "none" /\ n > 0
    BY <1>4
  <2> HIDE DEF first
  <2>4. frame' \in FrameType /\ frame'.op = op /\ frame'.left = n /\ frame'.first = first
    BY <2>1, <2>2 DEF FrameType, Forms
  <2> QED
    BY <2>3, <2>4 DEF first
<1> QED
  BY <1>2, <1>3, <1>4 DEF Payload

LEMMA LostType ==
  ASSUME Types
  PROVE  /\ \A why \in Causes : Lost(why) => lost' \in Causes
         /\ LostIfNoMemory => lost' = lost \/ (lost' \in Causes /\ result' = "MEMORY")
         /\ LostIfNoMemory /\ result' = "MEMORY" => lost' \in Causes
BY DEF Types, Lost, LostIfNoMemory, Causes

(* What is left alone by the reads that begin a frame. *)
Begins ==
  /\ UNCHANGED <<streamVars, closeVars, stale, got>>
  /\ pos' \in Nat /\ pos' <= Total(sent) /\ lost' \in {"no"} \cup Causes

LEMMA BeginsOK ==
  ASSUME Types, Begins, at' \in Places, frame' \in FrameType,
         result' \in {"none", "data", "TIMEOUT", "CONNECTION", "HEADER", "MEMORY"}, buffer' \in {"null", "owned", "freed"}
  PROVE  Types'
BY DEF Types, Begins, streamVars, closeVars

LEMMA DecodeType ==
  ASSUME Types, BufferOK, DecodeHead \/ DecodeHalf \/ DecodeAnything \/ DecodeNothing
  PROVE  Types' /\ BufferOK'
<1>1. CASE DecodeHead
  <2>1. PICK k \in Next1 :
          /\ pos' = pos + 2
          /\ \/ sent[k].form = "short" /\ Payload(sent[k].op, sent[k].len) /\ LostIfNoMemory
             \/ sent[k].form = "masked" /\ Return("HEADER") /\ buffer' = "null" /\ Lost("masked") /\ UNCHANGED frame
             \/ /\ sent[k].form \in {"two", "eight"}
                /\ at' = "length" /\ frame' = [op |-> sent[k].op, form |-> sent[k].form, left |-> sent[k].len, first |-> 0]
                /\ buffer' = "null" /\ result' = "none" /\ UNCHANGED lost
    BY <1>1 DEF DecodeHead
  <2>2. 2 \in Reads(2) /\ UNCHANGED <<streamVars, got, closeVars, stale>>
    BY <1>1 DEF DecodeHead
  <2>3. sent[k] \in [op : Opcodes, form : Forms, len : Nat]
    BY SizeType DEF Next1, Types
  <2>4. pos' \in Nat /\ pos' <= Total(sent)
    BY <2>1, <2>2, ReadsType
  <2>5. CASE Payload(sent[k].op, sent[k].len) /\ LostIfNoMemory
    <3>1. lost' \in {"no"} \cup Causes
      BY <2>5, LostType DEF Types
    <3>2. Begins
      BY <2>2, <2>4, <3>1 DEF Begins
    <3>3. /\ at' \in {"idle", "payload"} /\ result' \in {"none", "MEMORY"} /\ buffer' \in {"null", "owned"}
          /\ frame' \in FrameType /\ (buffer' = "owned" <=> at' = "payload") /\ (at' = "payload" => result' = "none")
      BY <2>3, <2>4, <2>5, PayloadType
    <3> QED
      BY <3>2, <3>3, BeginsOK DEF BufferOK, Places
  <2>6. CASE /\ at' = "length" /\ frame' = [op |-> sent[k].op, form |-> sent[k].form, left |-> sent[k].len, first |-> 0]
             /\ buffer' = "null" /\ result' = "none" /\ UNCHANGED lost
    <3>1. frame' \in FrameType
      BY <2>3, <2>6 DEF FrameType
    <3>2. Begins
      BY <2>2, <2>4, <2>6 DEF Begins, Types
    <3> QED
      BY <2>6, <3>1, <3>2, BeginsOK DEF BufferOK, Places
  <2>7. CASE Return("HEADER") /\ buffer' = "null" /\ Lost("masked") /\ UNCHANGED frame
    <3>1. lost' \in Causes /\ frame' \in FrameType /\ at' = "idle" /\ result' = "HEADER" /\ buffer' = "null"
      BY <2>7, LostType DEF Causes, Return, Types
    <3>2. Begins
      BY <2>2, <2>4, <3>1 DEF Begins
    <3> QED
      BY <3>1, <3>2, BeginsOK DEF BufferOK, Places
  <2> QED
    BY <2>1, <2>5, <2>6, <2>7
<1>2. CASE DecodeHalf
  <2>1. pos' \in Nat /\ pos' <= Total(sent)
    BY <1>2, ReadsType DEF DecodeHalf
  <2>2. lost' \in Causes
    BY <1>2, LostType DEF DecodeHalf, Causes
  <2>3. Begins /\ at' = "idle" /\ result' = "none" /\ buffer' = "null" /\ frame' \in FrameType
    BY <1>2, <2>1, <2>2 DEF DecodeHalf, Begins, Return, Types
  <2> QED
    BY <2>3, BeginsOK DEF BufferOK, Places
<1>3. CASE DecodeAnything
  <2>1. pos' \in Nat /\ pos' <= Total(sent)
    BY <1>3, ReadsType DEF DecodeAnything
  <2>2. Begins
    BY <1>3, <2>1 DEF DecodeAnything, Begins, ghostVars, Types
  <2>3. CASE \E op \in Opcodes, n \in 0..2 : Payload(op, n)
    <3>1. /\ at' \in {"idle", "payload"} /\ result' \in {"none", "MEMORY"} /\ buffer' \in {"null", "owned"}
          /\ frame' \in FrameType /\ (buffer' = "owned" <=> at' = "payload") /\ (at' = "payload" => result' = "none")
      BY <2>1, <2>3, PayloadType
    <3> QED
      BY <2>2, <3>1, BeginsOK DEF BufferOK, Places
  <2>4. CASE \E code \in {"HEADER", "CONNECTION"} : Return(code) /\ buffer' = "null" /\ UNCHANGED frame
    <3>1. at' \in {"idle", "over"} /\ result' \in {"HEADER", "CONNECTION"} /\ buffer' = "null" /\ frame' \in FrameType
      BY <2>4 DEF Return, Types
    <3> QED
      BY <2>2, <3>1, BeginsOK DEF BufferOK, Places
  <2> QED
    BY <1>3, <2>3, <2>4 DEF DecodeAnything
<1>4. CASE DecodeNothing
  <2>1. at' \in {"idle", "over"} /\ result' \in {"none", "CONNECTION"} /\ buffer' = "null"
    BY <1>4 DEF DecodeNothing, Return, Nothing
  <2>2. Begins /\ frame' \in FrameType
    BY <1>4 DEF DecodeNothing, Begins, readVars, ghostVars, Types
  <2> QED
    BY <2>1, <2>2, BeginsOK DEF BufferOK, Places
<1> QED
  BY <1>1, <1>2, <1>3, <1>4

LEMMA LengthType ==
  ASSUME Types, BufferOK, Length \/ LengthCut
  PROVE  Types' /\ BufferOK'
<1>1. frame.op \in Opcodes /\ frame.left \in Nat /\ frame.form \in Forms
  BY DEF Types, FrameType
<1>2. ASSUME NEW n \in Nat, Payload(frame.op, n), Begins PROVE Types' /\ BufferOK'
  <2>1. /\ at' \in {"idle", "payload"} /\ result' \in {"none", "MEMORY"} /\ buffer' \in {"null", "owned"}
        /\ frame' \in FrameType /\ (buffer' = "owned" <=> at' = "payload") /\ (at' = "payload" => result' = "none")
    BY <1>1, <1>2, PayloadType DEF Begins
  <2> QED
    BY <1>2, <2>1, BeginsOK DEF BufferOK, Places
<1>3. CASE frame.form = "two" /\ 2 \in Reads(2) /\ pos' = pos + 2 /\ Payload(frame.op, frame.left) /\ LostIfNoMemory /\ Length
  <2>1. pos' \in Nat /\ pos' <= Total(sent) /\ lost' \in {"no"} \cup Causes
    BY <1>3, ReadsType, LostType DEF Types
  <2>2. Begins
    BY <1>3, <2>1 DEF Length, Begins
  <2> QED
    BY <1>1, <1>2, <1>3, <2>2
<1>4. CASE 4 \in Reads(4) /\ pos' = pos + 4 /\ Payload(frame.op, 0) /\ Lost("long") /\ Length
  <2>1. pos' \in Nat /\ pos' <= Total(sent) /\ lost' \in {"no"} \cup Causes
    BY <1>4, ReadsType, LostType DEF Types, Causes
  <2>2. Begins
    BY <1>4, <2>1 DEF Length, Begins
  <2> QED
    BY <1>2, <1>4, <2>2
<1>5. CASE LengthCut
  <2>1. pos' \in Nat /\ pos' <= Total(sent)
    <3> DEFINE m == IF frame.form = "two" THEN 1 ELSE 3
    <3>1. pos' \in {pos} \cup {pos + n : n \in Reads(m)} /\ m \in Nat
      BY <1>5 DEF LengthCut
    <3> HIDE DEF m
    <3> QED
      BY <3>1, ReadsType DEF Types
  <2>2. lost' \in Causes
    BY <1>5, LostType DEF LengthCut, Causes
  <2>3. Begins
    BY <1>5, <2>1, <2>2 DEF LengthCut, Begins
  <2>4. PICK n \in 0..2 : Payload(frame.op, n)
    BY <1>5 DEF LengthCut
  <2> QED
    BY <1>2, <2>3, <2>4
<1> QED
  BY <1>3, <1>4, <1>5 DEF Length

LEMMA PayloadReadType ==
  ASSUME Types, BufferOK, ReadPayload \/ PayloadCut
  PROVE  Types' /\ BufferOK'
<1>1. NoFrame \in FrameType
  BY DEF NoFrame, FrameType, Opcodes, Data, Forms
<1>2. CASE ReadPayload
  <2>1. PICK n \in Reads(frame.left) :
          /\ pos' = pos + n
          /\ \/ n < frame.left
                /\ frame' = [frame EXCEPT !.left = @ - n] /\ UNCHANGED <<at, callVars, flags, got>>
             \/ /\ n = frame.left /\ frame' = NoFrame
                /\ \/ frame.op \in Data
                      /\ Return("data") /\ Given(<<frame.op, frame.first, pos'>>)
                      /\ UNCHANGED <<buffer, flags>>
                   \/ frame.op \in PingPong
                      /\ Return("none") /\ buffer' = "freed" /\ UNCHANGED <<got, flags>>
                   \/ frame.op = CloseCode
                      /\ at' = "reply" /\ flags' = flags \cup {"server"} /\ UNCHANGED <<callVars, got>>
                   \/ frame.op \notin Data \cup PingPong \cup {CloseCode}
                      /\ Return("HEADER") /\ buffer' = "freed" /\ UNCHANGED <<got, flags>>
    BY <1>2 DEF ReadPayload
  <2>2. /\ at = "payload" /\ UNCHANGED <<sent, ended, closes, broken, lost, stale>> /\ buffer = "owned" /\ result = "none"
    BY <1>2 DEF ReadPayload, streamVars, ghostVars, BufferOK
  <2>3. frame.left \in Nat /\ n \in Nat \ {0} /\ pos' \in Nat /\ pos' <= Total(sent) /\ frame.op \in Opcodes /\ frame.first \in Nat
    BY <2>1, ReadsType DEF Types, FrameType
  <2>4. /\ sent' \in Seq(Frames) /\ ended' \in BOOLEAN /\ pos' \in Nat /\ pos' <= Total(sent)' /\ stale' \subseteq flags
        /\ closes' \in Nat /\ broken' \in BOOLEAN /\ lost' \in {"no"} \cup Causes /\ flags \subseteq {"server", "client"}
    BY <2>2, <2>3 DEF Types
  <2>5. CASE n < frame.left /\ frame' = [frame EXCEPT !.left = @ - n] /\ UNCHANGED <<at, callVars, flags, got>>
    <3>1. frame.left - n \in Nat
      BY <2>3, <2>5
    <3>2. frame' \in FrameType
      BY <2>5, <3>1 DEF Types, FrameType
    <3>3. UNCHANGED <<at, buffer, result, flags, got>>
      BY <2>5 DEF callVars
    <3> QED
      BY <2>4, <3>2, <3>3 DEF Types, BufferOK
  <2>6. CASE n = frame.left /\ frame' = NoFrame /\ frame.op \in Data /\ Return("data") /\ Given(<<frame.op, frame.first, pos'>>) /\ UNCHANGED <<buffer, flags>>
    <3>1. got' \in Seq(Data \X Nat \X Nat)
      <4>1. <<frame.op, frame.first, pos'>> \in Data \X Nat \X Nat
        BY <2>3, <2>6
      <4> QED
        BY <2>6, <4>1 DEF Given, Types
    <3>2. at' = "idle" /\ result' = "data"
      BY <2>6 DEF Return
    <3> QED
      BY <1>1, <2>2, <2>4, <2>6, <3>1, <3>2 DEF Types, BufferOK, Places
  <2>7. CASE n = frame.left /\ frame' = NoFrame /\ frame.op = CloseCode /\ at' = "reply" /\ flags' = flags \cup {"server"} /\ UNCHANGED <<callVars, got>>
    <3>1. flags' \subseteq {"server", "client"} /\ stale' \subseteq flags'
      BY <2>4, <2>7
    <3>2. buffer' = "owned" /\ result' = "none" /\ got' = got /\ at' = "reply"
      BY <2>2, <2>7 DEF callVars
    <3> QED
      BY <1>1, <2>4, <2>7, <3>1, <3>2 DEF Types, BufferOK, Places
  <2>8. CASE frame' = NoFrame /\ (Return("none") \/ Return("HEADER")) /\ buffer' = "freed" /\ UNCHANGED <<got, flags>>
    <3>1. at' = "idle" /\ result' \in {"none", "HEADER"}
      BY <2>8 DEF Return
    <3> QED
      BY <1>1, <2>4, <2>8, <3>1 DEF Types, BufferOK, Places
  <2> QED
    BY <2>1, <2>5, <2>6, <2>7, <2>8
<1>3. CASE PayloadCut
  <2>1. at' \in {"idle", "over"} /\ result' \in {"TIMEOUT", "CONNECTION"} /\ buffer' = "null" /\ frame' \in FrameType
    BY <1>1, <1>3 DEF PayloadCut, Return, Nothing
  <2>2. lost' \in Causes
    BY <1>3, LostType DEF PayloadCut, Causes
  <2>3. UNCHANGED <<sent, ended, pos, got, flags, closes, broken, stale>>
    BY <1>3 DEF PayloadCut, streamVars, closeVars
  <2> QED
    BY <2>1, <2>2, <2>3 DEF Types, BufferOK, Places
<1> QED
  BY <1>2, <1>3

LEMMA ServerType ==
  ASSUME Types, BufferOK, ServerEnds \/ \E f \in Frames : ServerSends(f)
  PROVE  Types' /\ BufferOK'
<1>1. CASE ServerEnds
  BY <1>1 DEF ServerEnds, Types, BufferOK, readVars, callVars, closeVars, ghostVars
<1>2. ASSUME NEW f \in Frames, ServerSends(f) PROVE Types' /\ BufferOK'
  <2>1. sent' = Append(sent, f) /\ UNCHANGED <<at, ended, pos, frame, got, buffer, result, flags, closes, broken, lost, stale>>
    BY <1>2 DEF ServerSends, readVars, callVars, closeVars, ghostVars
  <2>2. sent' \in Seq(Frames) /\ Total(sent') = Total(sent) + Size(f)
    <3>1. sent \in Seq(Frames)
      BY DEF Types
    <3>2. /\ sent' \in Seq(Frames) /\ Len(sent') = Len(sent) + 1 /\ \A k \in 1..Len(sent) : sent'[k] = sent[k]
          /\ sent'[Len(sent')] = f
      BY <2>1, <3>1
    <3> QED
      BY <3>1, <3>2, TotalNext
  <2>3. Total(sent) \in Nat /\ Size(f) \in Nat
    BY TotalType, SizeType DEF Types
  <2>4. pos <= Total(sent')
    BY <2>2, <2>3 DEF Types
  <2> QED
    BY <2>1, <2>2, <2>4 DEF Types, BufferOK
<1> QED
  BY <1>1, <1>2

LEMMA OpenType ==
  ASSUME Types, BufferOK, WebsockGet \/ WebsockReadResponse \/ WebsockReadResponseFails
  PROVE  Types' /\ BufferOK'
<1>1. CASE WebsockGet
  BY <1>1 DEF WebsockGet, Types, BufferOK, Places, streamVars, readVars, callVars, closeVars, ghostVars
<1>2. CASE WebsockReadResponse
  <2>1. PICK n \in 0..Unread : pos' = pos + n /\ lost' = (IF n > 0 THEN "early" ELSE "no")
    BY <1>2 DEF WebsockReadResponse
  <2>2. pos' \in Nat /\ pos' <= Total(sent)
    BY <2>1, TotalType DEF Unread, Types
  <2>3. lost' \in {"no"} \cup Causes
    BY <2>1 DEF Causes
  <2>4. at' = "idle" /\ at = "response" /\ UNCHANGED <<sent, ended, frame, got, buffer, result, flags, closes, broken, stale>>
    BY <1>2 DEF WebsockReadResponse, streamVars, callVars, closeVars
  <2> QED
    BY <2>2, <2>3, <2>4 DEF Types, BufferOK, Places
<1>3. CASE WebsockReadResponseFails
  BY <1>3 DEF WebsockReadResponseFails, Types, BufferOK, Places, streamVars, readVars, closeVars, ghostVars
<1> QED
  BY <1>1, <1>2, <1>3

LEMMA CallerType ==
  ASSUME Types, BufferOK, Reply \/ WebsockInitiateClose \/ WebsockWrite \/ WebsockFree \/ Close
  PROVE  Types' /\ BufferOK'
<1>0. ASSUME WriteClose PROVE closes' \in Nat /\ broken' \in BOOLEAN /\ flags' = flags \cup {"client"}
  <2>1. closes \in Nat /\ broken \in BOOLEAN
    BY DEF Types
  <2>2. CASE closes' = closes + 1 /\ UNCHANGED broken
    BY <1>0, <2>1, <2>2 DEF WriteClose
  <2>3. CASE broken' = TRUE /\ UNCHANGED closes
    BY <1>0, <2>1, <2>3 DEF WriteClose
  <2> QED
    BY <1>0, <2>2, <2>3 DEF WriteClose
<1>1. CASE Reply
  <2>1. /\ at' = "over" /\ result' = "CONNECTION" /\ buffer' = "freed"
        /\ UNCHANGED <<sent, ended, pos, frame, got, lost, stale>>
    BY <1>1 DEF Reply, Return, streamVars, readVars, ghostVars
  <2>2. flags \subseteq flags' /\ flags' \subseteq {"server", "client"} /\ closes' \in Nat /\ broken' \in BOOLEAN
    BY <1>0, <1>1 DEF Reply, Types, closeVars
  <2> QED
    BY <2>1, <2>2 DEF Types, BufferOK, Places
<1>2. CASE WebsockInitiateClose
  <2>1. UNCHANGED <<at, sent, ended, pos, frame, got, buffer, result, lost, stale>>
    BY <1>2 DEF WebsockInitiateClose, streamVars, readVars, callVars, ghostVars
  <2>2. flags \subseteq flags' /\ flags' \subseteq {"server", "client"} /\ closes' \in Nat /\ broken' \in BOOLEAN
    BY <1>0, <1>2 DEF WebsockInitiateClose, Types
  <2> QED
    BY <2>1, <2>2 DEF Types, BufferOK
<1>3. CASE WebsockWrite
  BY <1>3 DEF WebsockWrite, Types, BufferOK, streamVars, readVars, callVars, ghostVars
<1>4. CASE WebsockFree
  BY <1>4 DEF WebsockFree, Types, BufferOK, streamVars, readVars, closeVars, ghostVars
<1>5. CASE Close
  <2>1. NoFrame \in FrameType
    BY DEF NoFrame, FrameType, Opcodes, Data, Forms
  <2>2. <<>> \in Seq(Frames) /\ <<>> \in Seq(Data \X Nat \X Nat)
    OBVIOUS
  <2>3. 0 <= Total(<<>>)
    BY TotalNone
  <2>4. /\ at' = "closed" /\ sent' = <<>> /\ ended' = FALSE /\ pos' = 0 /\ frame' = NoFrame /\ got' = <<>>
        /\ buffer' = "null" /\ result' = "none" /\ closes' = 0 /\ broken' = FALSE /\ lost' = "no"
        /\ flags' \in {flags, {}} /\ stale' = flags'
    BY <1>5 DEF Close
  <2> QED
    BY <2>1, <2>2, <2>3, <2>4 DEF Types, BufferOK, Places
<1> QED
  BY <1>1, <1>2, <1>3, <1>4, <1>5

LEMMA TypeStepOK == Types /\ BufferOK /\ [Next]_vars => Types' /\ BufferOK'
<1>1. ASSUME Types, BufferOK, UNCHANGED vars PROVE Types' /\ BufferOK'
  BY <1>1 DEF vars, streamVars, readVars, callVars, closeVars, ghostVars, Types, BufferOK
<1> QED
  BY <1>1, ServerType, OpenType, DecodeType, LengthType, PayloadReadType, CallerType DEF Next

LEMMA TypeInitOK == Init => Types /\ BufferOK
<1> SUFFICES ASSUME Init PROVE Types /\ BufferOK
  OBVIOUS
<1>1. NoFrame \in FrameType
  BY DEF NoFrame, FrameType, Opcodes, Data, Forms
<1>2. <<>> \in Seq(Frames) /\ <<>> \in Seq(Data \X Nat \X Nat)
  OBVIOUS
<1>3. 0 <= Total(<<>>)
  BY TotalNone
<1> QED
  BY <1>1, <1>2, <1>3 DEF Init, Types, BufferOK, Places

THEOREM Typed == Spec => [](Types /\ BufferOK)
BY TypeInitOK, TypeStepOK, PTL DEF Spec

-----------------------------------------------------------------------------
(* The frames that end by a place of the stream, their payloads, and       *)
(* whether one of them is a close frame.                                   *)

WholeAt(s, p) == {k \in DOMAIN s : Starts(s, k + 1) <= p}
DataAt(s, p) == {k \in WholeAt(s, p) : s[k].op \in Data /\ s[k].len > 0}
PayloadIn(s, k) == <<s[k].op, Starts(s, k) + HeadSize(s[k]), Starts(s, k + 1)>>
PayloadsAt(s, p) == {PayloadIn(s, k) : k \in DataAt(s, p)}
CloseAt(s, p) == \E k \in WholeAt(s, p) : s[k].op = CloseCode /\ s[k].len > 0

In(s, k, p) == k \in 1..Len(s) /\ p \in Nat /\ Starts(s, k) <= p /\ p < Starts(s, k + 1)

(* A frame's place: its head, its length in the head's bytes, its payload. *)
LEMMA FrameIn ==
  ASSUME NEW s \in Seq(Frames), NEW k \in 1..Len(s)
  PROVE  /\ Starts(s, k) \in Nat /\ Starts(s, k + 1) = Starts(s, k) + HeadSize(s[k]) + s[k].len
         /\ s[k].len \in Nat /\ s[k].op \in Opcodes /\ s[k].form \in Forms /\ HeadSize(s[k]) \in Nat /\ HeadSize(s[k]) >= 2
         /\ s[k].form = "short" => HeadSize(s[k]) = 2
         /\ s[k].form = "two" => HeadSize(s[k]) = 4
         /\ s[k].form # "short" => HeadSize(s[k]) >= 4
         /\ In(s, k, Starts(s, k))
<1>1. s[k] \in Frames
  OBVIOUS
<1>2. k \in 1..Len(s) + 1
  OBVIOUS
<1>3. Starts(s, k) \in Nat /\ Starts(s, k + 1) = Starts(s, k) + Size(s[k])
  BY <1>2, StartsNext, StartsGrow
<1>4. /\ s[k].len \in Nat /\ s[k].op \in Opcodes /\ s[k].form \in Forms /\ HeadSize(s[k]) \in Nat /\ HeadSize(s[k]) >= 2
      /\ s[k].form = "short" => HeadSize(s[k]) = 2
      /\ s[k].form = "two" => HeadSize(s[k]) = 4
      /\ s[k].form # "short" => HeadSize(s[k]) >= 4
      /\ Size(s[k]) = HeadSize(s[k]) + s[k].len
  BY <1>1, SizeType
<1>5. Starts(s, k + 1) = Starts(s, k) + HeadSize(s[k]) + s[k].len
  BY <1>3, <1>4
<1>6. In(s, k, Starts(s, k))
  BY <1>3, <1>4, <1>5 DEF In
<1> QED
  BY <1>3, <1>4, <1>5, <1>6

LEMMA WholeBefore ==
  ASSUME NEW s \in Seq(Frames), NEW p \in Nat, NEW k \in 1..Len(s) + 1, Starts(s, k) <= p,
         k <= Len(s) => p < Starts(s, k + 1)
  PROVE  WholeAt(s, p) = 1..k - 1
<1>1. DOMAIN s = 1..Len(s) /\ Len(s) \in Nat
  OBVIOUS
<1>2. ASSUME NEW j \in 1..Len(s), j < k PROVE Starts(s, j + 1) <= p
  <2>1. j \in 1..Len(s) + 1 /\ j + 1 \in 1..Len(s) + 1
    BY <1>2
  <2>2. Starts(s, j + 1) <= Starts(s, k) /\ Starts(s, k) \in Nat /\ Starts(s, j + 1) \in Nat
    BY <1>2, <2>1, StartsGrow
  <2> QED
    BY <2>2
<1>3. ASSUME NEW j \in 1..Len(s), k <= j PROVE ~(Starts(s, j + 1) <= p)
  <2>1. k \in 1..Len(s) /\ k + 1 \in 1..Len(s) + 1 /\ j + 1 \in 1..Len(s) + 1
    BY <1>3
  <2>2. p < Starts(s, k + 1) /\ Starts(s, k + 1) \in Nat /\ Starts(s, j + 1) \in Nat
    BY <2>1, StartsGrow
  <2>3. CASE k = j
    BY <2>2, <2>3
  <2>4. CASE k < j
    <3>1. k + 1 < j + 1
      BY <2>4
    <3>2. Starts(s, k + 1) + 2 <= Starts(s, j + 1)
      BY <2>1, <3>1, StartsGrow
    <3> QED
      BY <2>2, <3>2
  <2> QED
    BY <1>3, <2>3, <2>4
<1> QED
  BY <1>1, <1>2, <1>3 DEF WholeAt

LEMMA SameFrame ==
  ASSUME NEW s \in Seq(Frames), NEW k, NEW p, NEW q, In(s, k, p), In(s, k, q)
  PROVE  WholeAt(s, p) = WholeAt(s, q) /\ PayloadsAt(s, p) = PayloadsAt(s, q) /\ (CloseAt(s, p) <=> CloseAt(s, q))
<1>1. k \in 1..Len(s) + 1
  BY DEF In
<1>2. WholeAt(s, p) = WholeAt(s, q)
  BY <1>1, WholeBefore DEF In
<1> QED
  BY <1>2 DEF PayloadsAt, DataAt, CloseAt

LEMMA NextFrame ==
  ASSUME NEW s \in Seq(Frames), NEW k, NEW p, In(s, k, p)
  PROVE  /\ Starts(s, k + 1) \in Nat
         /\ PayloadsAt(s, Starts(s, k + 1))
              = PayloadsAt(s, p) \cup (IF s[k].op \in Data /\ s[k].len > 0 THEN {PayloadIn(s, k)} ELSE {})
         /\ CloseAt(s, Starts(s, k + 1)) <=> CloseAt(s, p) \/ (s[k].op = CloseCode /\ s[k].len > 0)
         /\ \A j \in WholeAt(s, p) : Starts(s, j + 1) \in Nat /\ Starts(s, j + 1) <= Starts(s, k)
<1> DEFINE q == Starts(s, k + 1)
<1>1. k \in 1..Len(s) /\ k \in 1..Len(s) + 1 /\ k + 1 \in 1..Len(s) + 1 /\ p \in Nat /\ Len(s) \in Nat
  BY DEF In
<1>2. q \in Nat
  BY <1>1, StartsGrow
<1>3. WholeAt(s, p) = 1..k - 1
  BY <1>1, WholeBefore DEF In
<1>4. k + 1 <= Len(s) => q < Starts(s, (k + 1) + 1)
  <2> SUFFICES ASSUME k + 1 <= Len(s) PROVE q < Starts(s, (k + 1) + 1)
    OBVIOUS
  <2>1. k + 1 \in 1..Len(s)
    BY <1>1
  <2> QED
    BY <2>1, FrameIn DEF In
<1>5. WholeAt(s, q) = 1..(k + 1) - 1
  <2>1. Starts(s, k + 1) <= q
    BY <1>2
  <2> HIDE DEF q
  <2> QED
    BY <1>1, <1>2, <1>4, <2>1, WholeBefore
<1>6. WholeAt(s, q) = WholeAt(s, p) \cup {k}
  BY <1>1, <1>3, <1>5
<1>7. ASSUME NEW j \in WholeAt(s, p) PROVE Starts(s, j + 1) \in Nat /\ Starts(s, j + 1) <= Starts(s, k)
  <2>1. j \in 1..Len(s) + 1 /\ j + 1 \in 1..Len(s) + 1 /\ j < k
    BY <1>1, <1>3
  <2> QED
    BY <1>1, <2>1, StartsGrow
<1> HIDE DEF q
<1>8. DataAt(s, q) = DataAt(s, p) \cup (IF s[k].op \in Data /\ s[k].len > 0 THEN {k} ELSE {})
  BY <1>6 DEF DataAt
<1>9. PayloadsAt(s, q) = PayloadsAt(s, p) \cup (IF s[k].op \in Data /\ s[k].len > 0 THEN {PayloadIn(s, k)} ELSE {})
  BY <1>8 DEF PayloadsAt
<1>10. CloseAt(s, q) <=> CloseAt(s, p) \/ (s[k].op = CloseCode /\ s[k].len > 0)
  BY <1>6 DEF CloseAt
<1> QED
  BY <1>2, <1>7, <1>9, <1>10 DEF q

LEMMA MoreFrames ==
  ASSUME NEW s \in Seq(Frames), NEW f \in Frames, NEW p \in Nat, p <= Total(s)
  PROVE  PayloadsAt(Append(s, f), p) = PayloadsAt(s, p) /\ (CloseAt(Append(s, f), p) <=> CloseAt(s, p))
<1> DEFINE t == Append(s, f)
           n == Len(s)
<1>1. /\ t \in Seq(Frames) /\ Len(t) = n + 1 /\ n \in Nat /\ DOMAIN s = 1..n /\ DOMAIN t = 1..n + 1
      /\ \A k \in 1..n : t[k] = s[k]
      /\ \A k \in 1..n + 1 : Starts(t, k) = Starts(s, k)
  BY StartsKept
<1>2. Starts(t, n + 1) = Total(s) /\ Starts(t, (n + 1) + 1) \in Int /\ Starts(t, (n + 1) + 1) > p
  <2>1. n + 1 \in 1..Len(t) /\ n + 1 \in 1..n + 1
    BY <1>1
  <2>2. Starts(t, n + 1) = Total(s) /\ Total(s) \in Nat
    BY <1>1, <2>1, StartsEnds, TotalType
  <2>3. Starts(t, (n + 1) + 1) = Starts(t, n + 1) + HeadSize(t[n + 1]) + t[n + 1].len
        /\ HeadSize(t[n + 1]) \in Nat /\ HeadSize(t[n + 1]) >= 2 /\ t[n + 1].len \in Nat
    BY <1>1, <2>1, FrameIn
  <2> QED
    BY <2>2, <2>3
<1> HIDE DEF t, n
<1>3. \A k \in 1..n : k + 1 \in 1..n + 1 /\ k \in 1..n + 1 /\ k \in 1..n + 1
  BY <1>1
<1>4. 1..n + 1 = 1..n \cup {n + 1}
  BY <1>1
<1>5. WholeAt(t, p) = WholeAt(s, p)
  BY <1>1, <1>2, <1>3, <1>4 DEF WholeAt
<1>6. WholeAt(s, p) \subseteq 1..n
  BY <1>1 DEF WholeAt
<1>7. DataAt(t, p) = DataAt(s, p) /\ DataAt(s, p) \subseteq 1..n
  BY <1>1, <1>5, <1>6 DEF DataAt
<1>8. \A k \in 1..n : PayloadIn(t, k) = PayloadIn(s, k)
  BY <1>1, <1>3 DEF PayloadIn
<1>9. PayloadsAt(t, p) = PayloadsAt(s, p)
  BY <1>7, <1>8 DEF PayloadsAt
<1>10. CloseAt(t, p) <=> CloseAt(s, p)
  BY <1>1, <1>5, <1>6 DEF CloseAt
<1> QED
  BY <1>9, <1>10 DEF t

-----------------------------------------------------------------------------
(* As long as nothing is lost, where the client stands in the stream, what *)
(* it has given to its caller by then, and how a close is answered.        *)

AtStart(k) == k \in 1..Len(sent) + 1 /\ pos = Starts(sent, k)
Headed(k) ==
  /\ In(sent, k, pos) /\ pos = Starts(sent, k) + 2
  /\ frame.op = sent[k].op /\ frame.form = sent[k].form /\ frame.left = sent[k].len
  /\ frame.form # "short"
Reading(k) ==
  /\ In(sent, k, pos) /\ pos + frame.left = Starts(sent, k + 1) /\ frame.left > 0
  /\ frame.op = sent[k].op /\ sent[k].len > 0
  /\ frame.first = Starts(sent, k) + HeadSize(sent[k])

StreamOK ==
  /\ at \in {"closed", "response"} => lost = "no" /\ pos = 0
  /\ lost = "no" => /\ at = "idle" => \E k \in 1..Len(sent) + 1 : AtStart(k)
                    /\ at = "length" => \E k \in 1..Len(sent) : Headed(k)
                    /\ at = "payload" => \E k \in 1..Len(sent) : Reading(k)

InTurn(payloads) == \A m, n \in DOMAIN payloads : m < n => payloads[m][3] <= payloads[n][2]
GotOK == lost = "no" => Range(got) = PayloadsAt(sent, pos) /\ InTurn(got)

CloseOK ==
  /\ "client" \in flags /\ stale = {} => closes > 0 \/ broken
  /\ lost = "no" /\ CloseAt(sent, pos) => "server" \in flags /\ (at # "reply" /\ stale = {} => "client" \in flags)

Sound == StreamOK /\ GotOK /\ CloseOK

(* Once something is lost the frames say nothing any more. *)
LEMMA Losing ==
  ASSUME CloseOK, lost' # "no", at' \notin {"closed", "response"}, UNCHANGED <<closes, broken, stale>>,
         flags' \in {flags, flags \cup {"server"}}
  PROVE  Sound'
BY DEF Sound, StreamOK, GotOK, CloseOK

(* What was given stays right for as long as no payload comes to its end. *)
LEMMA Going ==
  ASSUME GotOK, CloseOK, lost' = "no", lost = "no", at # "reply", UNCHANGED <<sent, got, closeVars, stale>>,
         PayloadsAt(sent, pos') = PayloadsAt(sent, pos), CloseAt(sent, pos') <=> CloseAt(sent, pos)
  PROVE  GotOK' /\ CloseOK'
<1>1. PayloadsAt(sent, pos)' = PayloadsAt(sent, pos) /\ (CloseAt(sent, pos)' <=> CloseAt(sent, pos))
  BY DEF PayloadsAt, CloseAt
<1> QED
  BY <1>1 DEF GotOK, CloseOK, closeVars

LEMMA Headless ==
  ASSUME Types, NEW k \in 1..Len(sent)
  PROVE  /\ sent \in Seq(Frames) /\ pos \in Nat
         /\ Starts(sent, k) \in Nat /\ Starts(sent, k + 1) = Starts(sent, k) + HeadSize(sent[k]) + sent[k].len
         /\ sent[k].len \in Nat /\ sent[k].op \in Opcodes /\ sent[k].form \in Forms
         /\ HeadSize(sent[k]) \in Nat /\ HeadSize(sent[k]) >= 2
         /\ sent[k].form = "short" => HeadSize(sent[k]) = 2
         /\ sent[k].form = "two" => HeadSize(sent[k]) = 4
         /\ sent[k].form # "short" => HeadSize(sent[k]) >= 4
         /\ In(sent, k, Starts(sent, k))
<1>1. sent \in Seq(Frames) /\ pos \in Nat
  BY DEF Types
<1> QED
  BY <1>1, FrameIn

(* The head of frame k is decoded at pos', and its payload begins there. *)
LEMMA PayloadBegins ==
  ASSUME Types, GotOK, CloseOK, NEW k \in 1..Len(sent), In(sent, k, pos), lost = "no", lost' = "no", at # "reply",
         UNCHANGED <<sent, got, closeVars, stale>>, pos' = Starts(sent, k) + HeadSize(sent[k]),
         Payload(sent[k].op, sent[k].len), LostIfNoMemory
  PROVE  Sound'
<1>1. /\ sent \in Seq(Frames) /\ Starts(sent, k) \in Nat /\ HeadSize(sent[k]) \in Nat /\ sent[k].len \in Nat
      /\ Starts(sent, k + 1) = Starts(sent, k) + HeadSize(sent[k]) + sent[k].len /\ sent[k].op \in Opcodes
  BY Headless
<1>2. pos' \in Nat
  BY <1>1
<1>3. /\ at' \in {"idle", "payload"}
      /\ at' = "payload" => /\ sent[k].len > 0 /\ frame'.op = sent[k].op /\ frame'.left = sent[k].len
                            /\ frame'.first = IF lost = "no" THEN pos' ELSE 0
      /\ at' = "idle" => sent[k].len = 0 \/ result' = "MEMORY"
  BY <1>1, <1>2, PayloadType
<1>4. result' # "MEMORY"
  BY LostType DEF Causes
<1>5. CASE at' = "payload"
  <2>1. pos' < Starts(sent, k + 1) /\ Starts(sent, k) <= pos'
    BY <1>1, <1>3, <1>5
  <2>2. In(sent, k, pos')
    BY <1>2, <2>1 DEF In
  <2>3. GotOK' /\ CloseOK'
    BY <1>1, <2>2, SameFrame, Going
  <2>4. sent' = sent
    OBVIOUS
  <2>5. Reading(k)'
    BY <1>1, <1>3, <1>5, <2>2, <2>4 DEF Reading
  <2>6. StreamOK'
    BY <1>5, <2>4, <2>5 DEF StreamOK
  <2> QED
    BY <2>3, <2>6 DEF Sound
<1>6. CASE at' = "idle"
  <2>1. sent[k].len = 0 /\ pos' = Starts(sent, k + 1)
    BY <1>1, <1>3, <1>4, <1>6
  <2>2. PayloadsAt(sent, pos') = PayloadsAt(sent, pos) /\ (CloseAt(sent, pos') <=> CloseAt(sent, pos))
    <3>1. ~(sent[k].len > 0)
      BY <2>1
    <3>2. PayloadsAt(sent, Starts(sent, k + 1)) = PayloadsAt(sent, pos) \cup {}
          /\ (CloseAt(sent, Starts(sent, k + 1)) <=> CloseAt(sent, pos))
      BY <1>1, <3>1, NextFrame
    <3> QED
      BY <2>1, <3>2
  <2>3. GotOK' /\ CloseOK'
    BY <2>2, Going
  <2>4. sent' = sent /\ k + 1 \in 1..Len(sent) + 1
    <3>1. Len(sent) \in Nat
      BY <1>1
    <3> QED
      BY <3>1
  <2>5. AtStart(k + 1)'
    BY <2>1, <2>4 DEF AtStart
  <2>6. StreamOK'
    BY <1>6, <2>4, <2>5 DEF StreamOK
  <2> QED
    BY <2>3, <2>6 DEF Sound
<1> QED
  BY <1>3, <1>5, <1>6

LEMMA DecodeSound ==
  ASSUME Types, Sound, DecodeHead \/ DecodeHalf \/ DecodeAnything \/ DecodeNothing
  PROVE  Sound'
<1>1. /\ at = "idle" /\ GotOK /\ CloseOK /\ UNCHANGED <<sent, got, closeVars, closes, broken, stale, flags>>
      /\ lost \in {"no"} \cup Causes /\ sent \in Seq(Frames) /\ Len(sent) \in Nat /\ DOMAIN sent = 1..Len(sent) /\ pos \in Nat
  BY DEF Sound, Types, MayRead, DecodeHead, DecodeHalf, DecodeAnything, DecodeNothing, streamVars, readVars, closeVars, ghostVars
<1>2. lost = "no" => \E k \in 1..Len(sent) + 1 : AtStart(k)
  BY <1>1 DEF Sound, StreamOK
<1>3. CASE DecodeHead
  <2>1. PICK k \in Next1 :
          /\ pos' = pos + 2
          /\ \/ sent[k].form = "short" /\ Payload(sent[k].op, sent[k].len) /\ LostIfNoMemory
             \/ sent[k].form = "masked" /\ Return("HEADER") /\ buffer' = "null" /\ Lost("masked") /\ UNCHANGED frame
             \/ /\ sent[k].form \in {"two", "eight"}
                /\ at' = "length" /\ frame' = [op |-> sent[k].op, form |-> sent[k].form, left |-> sent[k].len, first |-> 0]
                /\ buffer' = "null" /\ result' = "none" /\ UNCHANGED lost
    BY <1>3 DEF DecodeHead
  <2>2. k \in 1..Len(sent) /\ pos = Starts(sent, k)
    BY <1>1 DEF Next1, StartOf, Starts
  <2>3. /\ sent[k].len \in Nat /\ sent[k].op \in Opcodes /\ HeadSize(sent[k]) \in Nat /\ In(sent, k, pos)
        /\ Starts(sent, k + 1) = pos + HeadSize(sent[k]) + sent[k].len
        /\ sent[k].form = "short" => HeadSize(sent[k]) = 2
        /\ sent[k].form # "short" => HeadSize(sent[k]) >= 4
    BY <2>2, Headless
  <2>4. at' \in {"idle", "payload", "length"} /\ (Lost("masked") => lost' # "no")
    BY <1>1, <2>1, <2>3, PayloadType, LostType DEF Return, Causes
  <2>5. CASE lost' # "no"
    BY <1>1, <2>4, <2>5, Losing
  <2>6. CASE lost' = "no" /\ sent[k].form = "short" /\ Payload(sent[k].op, sent[k].len) /\ LostIfNoMemory
    <3>1. lost = "no"
      BY <2>6, LostType DEF Causes
    <3>2. pos' = Starts(sent, k) + HeadSize(sent[k])
      BY <2>1, <2>2, <2>3, <2>6
    <3> QED
      BY <1>1, <2>2, <2>3, <2>6, <3>1, <3>2, PayloadBegins
  <2>7. CASE /\ lost' = "no" /\ lost = "no" /\ sent[k].form \in {"two", "eight"} /\ at' = "length"
             /\ frame' = [op |-> sent[k].op, form |-> sent[k].form, left |-> sent[k].len, first |-> 0]
    <3>1. In(sent, k, pos')
      BY <1>1, <2>1, <2>2, <2>3, <2>7 DEF In
    <3>2. GotOK' /\ CloseOK'
      BY <1>1, <2>3, <2>7, <3>1, SameFrame, Going
    <3>3. sent' = sent
      BY <1>1
    <3>4. Headed(k)'
      BY <2>1, <2>2, <2>7, <3>1, <3>3 DEF Headed
    <3>5. StreamOK'
      BY <2>2, <2>7, <3>3, <3>4 DEF StreamOK
    <3> QED
      BY <3>2, <3>5 DEF Sound
  <2> QED
    BY <2>1, <2>4, <2>5, <2>6, <2>7
<1>4. CASE DecodeHalf
  <2>1. lost' # "no" /\ at' = "idle"
    BY <1>4, LostType DEF DecodeHalf, Return, Causes
  <2> QED
    BY <1>1, <2>1, Losing
<1>5. CASE DecodeAnything
  <2>1. lost' = lost /\ 2 \in Reads(2) /\ Next1 = {}
    BY <1>5 DEF DecodeAnything, ghostVars
  <2>2. lost # "no"
    <3> SUFFICES ASSUME lost = "no" PROVE FALSE
      OBVIOUS
    <3>1. PICK k \in 1..Len(sent) + 1 : AtStart(k)
      BY <1>2
    <3>2. pos + 2 <= Total(sent)
      BY <2>1, ReadsType
    <3>3. k # Len(sent) + 1
      BY <1>1, <3>1, <3>2, StartsEnds DEF AtStart
    <3>4. k \in DOMAIN sent /\ StartOf(k) = pos
      BY <1>1, <3>1, <3>3 DEF AtStart, Starts, StartOf
    <3> QED
      BY <2>1, <3>4 DEF Next1
  <2>3. pos' \in Nat /\ at' \notin {"closed", "response"}
    <3>1. pos' \in Nat
      BY <1>5, ReadsType DEF DecodeAnything
    <3>2. CASE \E op \in Opcodes, n \in 0..2 : Payload(op, n)
      BY <3>1, <3>2, PayloadType
    <3>3. CASE \E code \in {"HEADER", "CONNECTION"} : Return(code)
      BY <3>1, <3>3 DEF Return
    <3> QED
      BY <1>5, <3>2, <3>3 DEF DecodeAnything
  <2> QED
    BY <1>1, <2>1, <2>2, <2>3, Losing
<1>6. CASE DecodeNothing
  <2>1. at' \in {"idle", "over"} /\ lost' = lost /\ pos' = pos
    BY <1>6 DEF DecodeNothing, Return, readVars, ghostVars
  <2>2. CASE lost # "no"
    BY <1>1, <2>1, <2>2, Losing
  <2>3. CASE lost = "no"
    <3>1. PayloadsAt(sent, pos') = PayloadsAt(sent, pos) /\ (CloseAt(sent, pos') <=> CloseAt(sent, pos))
      BY <2>1
    <3>2. GotOK' /\ CloseOK'
      BY <1>1, <2>1, <2>3, <3>1, Going
    <3>3. PICK k \in 1..Len(sent) + 1 : AtStart(k)
      BY <1>2, <2>3
    <3>4. sent' = sent
      BY <1>1
    <3>5. AtStart(k)'
      BY <2>1, <3>3, <3>4 DEF AtStart
    <3>6. StreamOK'
      BY <2>1, <3>4, <3>5 DEF StreamOK
    <3> QED
      BY <3>2, <3>6 DEF Sound
  <2> QED
    BY <2>2, <2>3
<1> QED
  BY <1>3, <1>4, <1>5, <1>6

LEMMA LengthSound ==
  ASSUME Types, Sound, Length \/ LengthCut
  PROVE  Sound'
<1>1. /\ at = "length" /\ GotOK /\ CloseOK /\ UNCHANGED <<sent, got, closeVars, closes, broken, stale, flags>>
      /\ frame.op \in Opcodes /\ frame.left \in Nat /\ pos \in Nat
  BY DEF Sound, Types, FrameType, Length, LengthCut, streamVars, closeVars
<1>2. lost = "no" => \E k \in 1..Len(sent) : Headed(k)
  BY <1>1 DEF Sound, StreamOK
<1>3. CASE frame.form = "two" /\ 2 \in Reads(2) /\ pos' = pos + 2 /\ Payload(frame.op, frame.left) /\ LostIfNoMemory
  <2>1. at' \in {"idle", "payload"}
    BY <1>1, <1>3, PayloadType
  <2>2. CASE lost' # "no"
    BY <1>1, <2>1, <2>2, Losing
  <2>3. CASE lost' = "no"
    <3>1. lost = "no"
      BY <1>3, <2>3, LostType DEF Causes
    <3>2. PICK k \in 1..Len(sent) : Headed(k)
      BY <1>2, <3>1
    <3>3. /\ Starts(sent, k) \in Nat /\ sent[k].form = "two" /\ In(sent, k, pos) /\ pos = Starts(sent, k) + 2
          /\ frame.op = sent[k].op /\ frame.left = sent[k].len
      BY <1>3, <3>2, Headless DEF Headed
    <3>4. pos' = Starts(sent, k) + HeadSize(sent[k])
      BY <1>3, <3>3, Headless
    <3> QED
      BY <1>1, <1>3, <2>3, <3>1, <3>3, <3>4, PayloadBegins
  <2> QED
    BY <2>2, <2>3
<1>4. CASE 4 \in Reads(4) /\ pos' = pos + 4 /\ Payload(frame.op, 0) /\ Lost("long")
  <2>1. at' \in {"idle", "payload"} /\ lost' # "no"
    BY <1>1, <1>4, PayloadType, LostType DEF Causes
  <2> QED
    BY <1>1, <2>1, Losing
<1>5. CASE LengthCut
  <2>2. lost' # "no"
    BY <1>5, LostType DEF LengthCut, Causes
  <2>3. pos' \in Nat
    <3> DEFINE m == IF frame.form = "two" THEN 1 ELSE 3
    <3>1. pos' \in {pos} \cup {pos + n : n \in Reads(m)} /\ m \in Nat
      BY <1>5 DEF LengthCut
    <3> HIDE DEF m
    <3> QED
      BY <1>1, <3>1, ReadsType
  <2>4. at' \in {"idle", "payload"}
    <3>1. PICK n \in 0..2 : Payload(frame.op, n)
      BY <1>5 DEF LengthCut
    <3> QED
      BY <1>1, <2>3, <3>1, PayloadType
  <2> QED
    BY <1>1, <2>2, <2>4, Losing
<1> QED
  BY <1>3, <1>4, <1>5 DEF Length

(* A payload that is given is the last one and ends where the stream is. *)
LEMMA PayloadGiven ==
  ASSUME Types, GotOK, lost = "no", lost' = "no", NEW k \in 1..Len(sent), Reading(k), sent' = sent,
         pos' = Starts(sent, k + 1), frame.op \in Data, got' = Append(got, <<frame.op, frame.first, pos'>>)
  PROVE  GotOK'
<1>1. /\ sent \in Seq(Frames) /\ Starts(sent, k) \in Nat /\ HeadSize(sent[k]) \in Nat
      /\ Starts(sent, k + 1) \in Nat /\ In(sent, k, pos) /\ sent[k].len > 0 /\ got \in Seq(Data \X Nat \X Nat)
      /\ frame.op = sent[k].op /\ frame.first = Starts(sent, k) + HeadSize(sent[k])
  BY Headless DEF Reading, Types
<1>2. <<frame.op, frame.first, pos'>> = PayloadIn(sent, k)
  BY <1>1 DEF PayloadIn
<1>3. PayloadsAt(sent, pos') = PayloadsAt(sent, pos) \cup {PayloadIn(sent, k)}
      /\ \A j \in WholeAt(sent, pos) : Starts(sent, j + 1) \in Nat /\ Starts(sent, j + 1) <= Starts(sent, k)
  BY <1>1, NextFrame
<1> DEFINE n == Len(got)
           new == PayloadIn(sent, k)
<1>4. /\ n \in Nat /\ DOMAIN got = 1..n /\ DOMAIN got' = 1..n + 1 /\ \A m \in 1..n : got'[m] = got[m]
      /\ got'[n + 1] = new
  BY <1>1, <1>2
<1>5. Range(got') = Range(got) \cup {new}
  <2>1. 1..n + 1 = (1..n) \cup {n + 1} /\ n + 1 \notin 1..n
    BY <1>4
  <2> HIDE DEF n, new
  <2> QED
    BY <1>4, <2>1 DEF Range
<1>6. ASSUME NEW m \in 1..n PROVE got[m][3] <= new[2]
  <2>1. got[m] \in Range(got)
    BY <1>4 DEF Range
  <2>2. PICK j \in DataAt(sent, pos) : got[m] = PayloadIn(sent, j)
    BY <2>1 DEF GotOK, PayloadsAt
  <2>3. got[m][3] = Starts(sent, j + 1) /\ j \in WholeAt(sent, pos)
    BY <2>2 DEF PayloadIn, DataAt
  <2>4. new[2] = Starts(sent, k) + HeadSize(sent[k])
    BY DEF PayloadIn
  <2> QED
    BY <1>1, <1>3, <2>3, <2>4
<1>7. InTurn(got')
  <2>1. InTurn(got)
    BY DEF GotOK
  <2> HIDE DEF new
  <2>2. ASSUME NEW l \in 1..n + 1, NEW m \in 1..n + 1, l < m PROVE got'[l][3] <= got'[m][2]
    <3>1. CASE m = n + 1
      <4>1. l \in 1..n
        BY <1>4, <2>2, <3>1
      <4> QED
        BY <1>4, <1>6, <3>1, <4>1
    <3>2. CASE m \in 1..n
      <4>1. l \in 1..n
        BY <1>4, <2>2, <3>2
      <4> QED
        BY <1>4, <2>1, <2>2, <3>2, <4>1 DEF InTurn
    <3> QED
      BY <1>4, <2>2, <3>1, <3>2
  <2> QED
    BY <1>4, <2>2 DEF InTurn
<1>8. Range(got') = PayloadsAt(sent, pos')
  BY <1>3, <1>5 DEF GotOK
<1> QED
  BY <1>7, <1>8 DEF GotOK

LEMMA ReadPayloadSound ==
  ASSUME Types, Sound, ReadPayload
  PROVE  Sound'
<1>1. PICK n \in Reads(frame.left) :
        /\ pos' = pos + n
        /\ \/ n < frame.left
              /\ frame' = [frame EXCEPT !.left = @ - n] /\ UNCHANGED <<at, callVars, flags, got>>
           \/ /\ n = frame.left /\ frame' = NoFrame
              /\ \/ frame.op \in Data
                    /\ Return("data") /\ Given(<<frame.op, frame.first, pos'>>)
                    /\ UNCHANGED <<buffer, flags>>
                 \/ frame.op \in PingPong
                    /\ Return("none") /\ buffer' = "freed" /\ UNCHANGED <<got, flags>>
                 \/ frame.op = CloseCode
                    /\ at' = "reply" /\ flags' = flags \cup {"server"} /\ UNCHANGED <<callVars, got>>
                 \/ frame.op \notin Data \cup PingPong \cup {CloseCode}
                    /\ Return("HEADER") /\ buffer' = "freed" /\ UNCHANGED <<got, flags>>
  BY DEF ReadPayload
<1>2. /\ at = "payload" /\ StreamOK /\ GotOK /\ CloseOK /\ sent' = sent /\ closes' = closes /\ broken' = broken
      /\ lost' = lost /\ stale' = stale /\ frame \in FrameType /\ frame.left \in Nat
  BY DEF Sound, ReadPayload, streamVars, ghostVars, Types, FrameType
<1>3. n \in Nat /\ n > 0 /\ pos' \in Nat /\ pos \in Nat
  BY <1>1, <1>2, ReadsType DEF Types
<1>4. at' \in {"payload", "idle", "reply"} /\ flags' \in {flags, flags \cup {"server"}}
  BY <1>1, <1>2 DEF Return
<1>5. CASE lost' # "no"
  BY <1>2, <1>4, <1>5, Losing
<1>6. CASE lost' = "no"
  <2>1. PICK k \in 1..Len(sent) : Reading(k)
    BY <1>2, <1>6 DEF StreamOK
  <2>2. /\ sent \in Seq(Frames) /\ Starts(sent, k) \in Nat /\ Starts(sent, k + 1) \in Nat /\ In(sent, k, pos)
        /\ pos + frame.left = Starts(sent, k + 1) /\ frame.op = sent[k].op /\ sent[k].len > 0 /\ Len(sent) \in Nat
    BY <2>1, Headless, FrameIn DEF Reading
  <2>3. CASE n < frame.left /\ frame' = [frame EXCEPT !.left = @ - n] /\ UNCHANGED <<at, callVars, flags, got>>
    <3>1. In(sent, k, pos')
      BY <1>1, <1>2, <1>3, <2>2, <2>3 DEF In
    <3>2. PayloadsAt(sent, pos') = PayloadsAt(sent, pos) /\ (CloseAt(sent, pos') <=> CloseAt(sent, pos))
      BY <2>2, <3>1, SameFrame
    <3>3. UNCHANGED <<sent, got, closeVars, stale>>
      BY <1>2, <2>3 DEF closeVars
    <3>4. GotOK' /\ CloseOK'
      BY <1>2, <1>6, <3>2, <3>3, Going
    <3>5. frame'.op = frame.op /\ frame'.first = frame.first /\ frame'.left = frame.left - n
      BY <1>2, <2>3 DEF FrameType
    <3>6. pos' + frame'.left = Starts(sent, k + 1) /\ frame'.left > 0
      BY <1>1, <1>2, <1>3, <2>2, <2>3, <3>5
    <3>7. Reading(k)'
      BY <1>2, <2>1, <3>1, <3>5, <3>6 DEF Reading
    <3>8. StreamOK'
      BY <1>2, <2>3, <3>7 DEF StreamOK
    <3> QED
      BY <3>4, <3>8 DEF Sound
  <2>4. CASE n = frame.left
    <3>1. pos' = Starts(sent, k + 1)
      BY <1>1, <2>2, <2>4
    <3>2. k + 1 \in 1..Len(sent) + 1 /\ AtStart(k + 1)'
      BY <1>2, <2>2, <3>1 DEF AtStart
    <3>3. at' \in {"idle", "reply"}
      BY <1>1, <1>3, <2>4 DEF Return
    <3>4. StreamOK'
      BY <1>2, <3>2, <3>3 DEF StreamOK
    <3>5. /\ PayloadsAt(sent, pos') = PayloadsAt(sent, pos) \cup (IF sent[k].op \in Data /\ sent[k].len > 0 THEN {PayloadIn(sent, k)} ELSE {})
          /\ CloseAt(sent, pos') <=> CloseAt(sent, pos) \/ (sent[k].op = CloseCode /\ sent[k].len > 0)
      BY <2>2, <3>1, NextFrame
    <3>6. CASE frame.op \in Data /\ Given(<<frame.op, frame.first, pos'>>) /\ UNCHANGED flags
      <4>1. got' = Append(got, <<frame.op, frame.first, pos'>>)
        BY <1>2, <1>6, <3>6 DEF Given
      <4>2. GotOK'
        BY <1>2, <1>6, <2>1, <3>1, <3>6, <4>1, PayloadGiven
      <4>3. frame.op # CloseCode
        BY <3>6 DEF Data, CloseCode
      <4>4. CloseAt(sent, pos)' <=> CloseAt(sent, pos)
        BY <1>2, <2>2, <3>5, <4>3
      <4>5. CloseOK'
        BY <1>2, <3>6, <4>4 DEF CloseOK
      <4> QED
        BY <3>4, <4>2, <4>5 DEF Sound
    <3>7. CASE frame.op \notin Data \cup {CloseCode} /\ UNCHANGED <<got, flags>>
      <4>1. PayloadsAt(sent, pos') = PayloadsAt(sent, pos) /\ (CloseAt(sent, pos') <=> CloseAt(sent, pos))
        BY <2>2, <3>5, <3>7
      <4>2. UNCHANGED <<sent, got, closeVars, stale>>
        BY <1>2, <3>7 DEF closeVars
      <4>3. GotOK' /\ CloseOK'
        BY <1>2, <1>6, <4>1, <4>2, Going
      <4> QED
        BY <3>4, <4>3 DEF Sound
    <3>8. CASE frame.op = CloseCode /\ at' = "reply" /\ flags' = flags \cup {"server"} /\ UNCHANGED got
      <4>1. frame.op \notin Data
        BY <3>8 DEF Data, CloseCode
      <4>2. PayloadsAt(sent, pos)' = PayloadsAt(sent, pos)
        BY <1>2, <2>2, <3>5, <4>1
      <4>3. GotOK'
        BY <1>2, <1>6, <3>8, <4>2 DEF GotOK
      <4>4. CloseOK'
        BY <1>2, <3>8 DEF CloseOK
      <4> QED
        BY <3>4, <4>3, <4>4 DEF Sound
    <3>9. CloseCode \notin PingPong /\ \A op \in PingPong : op \notin Data
      BY DEF CloseCode, PingPong, Data
    <3> QED
      BY <1>1, <1>3, <2>4, <3>6, <3>7, <3>8, <3>9
  <2> QED
    BY <1>1, <1>3, <2>3, <2>4
<1> QED
  BY <1>5, <1>6

LEMMA PayloadCutSound ==
  ASSUME Types, Sound, PayloadCut
  PROVE  Sound'
<1>1. lost' # "no" /\ at' \in {"idle", "over"}
  BY LostType DEF PayloadCut, Return, Causes
<1>2. CloseOK /\ UNCHANGED <<closes, broken, stale, flags>>
  BY DEF Sound, PayloadCut, closeVars
<1> QED
  BY <1>1, <1>2, Losing

LEMMA ServerSound ==
  ASSUME Types, Sound, ServerEnds \/ \E f \in Frames : ServerSends(f)
  PROVE  Sound'
<1>1. CASE ServerEnds
  BY <1>1 DEF ServerEnds, Sound, StreamOK, AtStart, Headed, Reading, GotOK, CloseOK, readVars, callVars, closeVars, ghostVars
<1>2. ASSUME NEW f \in Frames, ServerSends(f) PROVE Sound'
  <2>1. sent' = Append(sent, f) /\ UNCHANGED <<at, pos, frame, got, flags, closes, broken, lost, stale>>
    BY <1>2 DEF ServerSends, readVars, callVars, closeVars, ghostVars
  <2>2. sent \in Seq(Frames) /\ pos \in Nat /\ pos <= Total(sent) /\ Len(sent) \in Nat
    BY DEF Types
  <2>3. /\ Len(sent') = Len(sent) + 1 /\ \A k \in 1..Len(sent) : sent'[k] = sent[k]
        /\ \A k \in 1..Len(sent) + 1 : Starts(sent', k) = Starts(sent, k)
    BY <2>1, <2>2, StartsKept
  <2>4. PayloadsAt(sent', pos) = PayloadsAt(sent, pos) /\ (CloseAt(sent', pos) <=> CloseAt(sent, pos))
    BY <2>1, <2>2, MoreFrames
  <2>5. GotOK' /\ CloseOK'
    BY <2>1, <2>4 DEF Sound, GotOK, CloseOK
  <2>6. ASSUME NEW k \in 1..Len(sent) PROVE /\ In(sent, k, pos) <=> In(sent', k, pos)
                                            /\ k \in 1..Len(sent') /\ k + 1 \in 1..Len(sent) + 1
                                            /\ k \in 1..Len(sent) + 1
    <3>1. k \in 1..Len(sent') /\ k + 1 \in 1..Len(sent) + 1 /\ k \in 1..Len(sent) + 1
      BY <2>2, <2>3
    <3> QED
      BY <2>3, <3>1 DEF In
  <2>7. \A k \in 1..Len(sent) + 1 : AtStart(k) => k \in 1..Len(sent') + 1 /\ AtStart(k)'
    <3>1. \A k \in 1..Len(sent) + 1 : k \in 1..Len(sent') + 1
      BY <2>2, <2>3
    <3> QED
      BY <2>1, <2>3, <3>1 DEF AtStart
  <2>8. \A k \in 1..Len(sent) : Headed(k) => k \in 1..Len(sent') /\ Headed(k)'
    BY <2>1, <2>3, <2>6 DEF Headed
  <2>9. \A k \in 1..Len(sent) : Reading(k) => k \in 1..Len(sent') /\ Reading(k)'
    BY <2>1, <2>3, <2>6 DEF Reading
  <2>10. StreamOK'
    BY <2>1, <2>7, <2>8, <2>9 DEF Sound, StreamOK
  <2> QED
    BY <2>5, <2>10 DEF Sound
<1> QED
  BY <1>1, <1>2

LEMMA OpenSound ==
  ASSUME Types, Sound, WebsockGet \/ WebsockReadResponse \/ WebsockReadResponseFails
  PROVE  Sound'
<1>1. CASE WebsockGet
  BY <1>1 DEF WebsockGet, Sound, StreamOK, AtStart, Headed, Reading, GotOK, CloseOK, streamVars, readVars, closeVars, ghostVars
<1>2. CASE WebsockReadResponse
  <2>1. PICK n \in 0..Unread : pos' = pos + n /\ lost' = (IF n > 0 THEN "early" ELSE "no")
    BY <1>2 DEF WebsockReadResponse
  <2>2. /\ at = "response" /\ at' = "idle" /\ UNCHANGED <<sent, got, closeVars, closes, broken, stale, flags>>
        /\ lost = "no" /\ pos = 0 /\ GotOK /\ CloseOK /\ sent \in Seq(Frames)
    BY <1>2 DEF WebsockReadResponse, Sound, StreamOK, streamVars, closeVars, Types
  <2>3. CASE n > 0
    BY <2>1, <2>2, <2>3, Losing
  <2>4. CASE n = 0
    <3>1. pos' = 0 /\ lost' = "no"
      BY <2>1, <2>2, <2>4
    <3>2. GotOK' /\ CloseOK'
      BY <2>2, <3>1, Going
    <3>3. Len(sent) \in Nat /\ Starts(sent, 1) = 0
      BY <2>2, StartsEnds
    <3>4. 1 \in 1..Len(sent) + 1 /\ AtStart(1)'
      BY <2>2, <3>1, <3>3 DEF AtStart
    <3>5. StreamOK'
      BY <2>2, <3>4 DEF StreamOK
    <3> QED
      BY <3>2, <3>5 DEF Sound
  <2> QED
    BY <2>1, <2>3, <2>4
<1>3. CASE WebsockReadResponseFails
  BY <1>3 DEF WebsockReadResponseFails, Sound, StreamOK, AtStart, Headed, Reading, GotOK, CloseOK, streamVars, readVars, closeVars, ghostVars
<1> QED
  BY <1>1, <1>2, <1>3

LEMMA CallerSound ==
  ASSUME Types, Sound, Reply \/ WebsockInitiateClose \/ WebsockWrite \/ WebsockFree \/ Close
  PROVE  Sound'
<1>1. CASE Reply
  <2>1. at = "reply" /\ at' = "over" /\ UNCHANGED <<sent, pos, frame, got, lost, stale>>
    BY <1>1 DEF Reply, Return, streamVars, readVars, ghostVars
  <2>2. StreamOK' /\ GotOK'
    BY <2>1 DEF Sound, StreamOK, GotOK
  <2>3. CASE "client" \in flags /\ UNCHANGED closeVars
    BY <2>1, <2>2, <2>3 DEF Sound, CloseOK, closeVars
  <2>4. CASE "client" \notin flags /\ WriteClose
    BY <2>1, <2>2, <2>4 DEF Sound, CloseOK, WriteClose, Types
  <2> QED
    BY <1>1, <2>3, <2>4 DEF Reply
<1>2. CASE WebsockInitiateClose
  <2>1. at \in {"idle", "over"} /\ at' = at /\ UNCHANGED <<sent, pos, frame, got, lost, stale>>
    BY <1>2 DEF WebsockInitiateClose, streamVars, readVars, ghostVars
  <2>2. StreamOK' /\ GotOK'
    BY <2>1 DEF Sound, StreamOK, GotOK, AtStart
  <2>3. CloseOK'
    BY <1>2, <2>1 DEF Sound, CloseOK, WebsockInitiateClose, WriteClose, Types
  <2> QED
    BY <2>2, <2>3 DEF Sound
<1>3. CASE WebsockWrite
  <2>1. /\ at \in {"idle", "over"} /\ at' = at /\ UNCHANGED <<sent, pos, frame, got, lost, stale, flags, closes>>
        /\ broken' \in {broken, TRUE}
    BY <1>3 DEF WebsockWrite, streamVars, readVars, ghostVars
  <2>2. StreamOK' /\ GotOK'
    BY <2>1 DEF Sound, StreamOK, GotOK, AtStart
  <2>3. broken => broken'
    BY <2>1
  <2>4. CloseOK'
    BY <2>1, <2>3, Zenon DEF Sound, CloseOK
  <2> QED
    BY <2>2, <2>4 DEF Sound
<1>4. CASE WebsockFree
  <2>1. at = "idle" /\ at' = at /\ UNCHANGED <<sent, pos, frame, got, lost, stale, flags, closes, broken>>
    BY <1>4 DEF WebsockFree, streamVars, readVars, ghostVars, closeVars
  <2> QED
    BY <2>1 DEF Sound, StreamOK, GotOK, CloseOK, AtStart
<1>5. CASE Close
  <2>1. /\ at' = "closed" /\ sent' = <<>> /\ pos' = 0 /\ got' = <<>> /\ closes' = 0 /\ broken' = FALSE
        /\ lost' = "no" /\ stale' = flags'
    BY <1>5 DEF Close
  <2>2. PayloadsAt(<<>>, 0) = {} /\ ~CloseAt(<<>>, 0) /\ Range(<<>>) = {} /\ InTurn(<<>>)
    BY DEF PayloadsAt, DataAt, WholeAt, CloseAt, Range, InTurn
  <2> QED
    BY <2>1, <2>2 DEF Sound, StreamOK, GotOK, CloseOK
<1> QED
  BY <1>1, <1>2, <1>3, <1>4, <1>5

LEMMA SoundStepOK == Types /\ Sound /\ [Next]_vars => Sound'
<1>1. ASSUME Types, Sound, UNCHANGED vars PROVE Sound'
  BY <1>1 DEF vars, streamVars, readVars, callVars, closeVars, ghostVars, Sound, StreamOK, AtStart, Headed, Reading, GotOK, CloseOK
<1> QED
  BY <1>1, ServerSound, OpenSound, DecodeSound, LengthSound, ReadPayloadSound, PayloadCutSound, CallerSound DEF Next

LEMMA SoundInitOK == Init => Sound
<1> SUFFICES ASSUME Init PROVE Sound
  OBVIOUS
<1>1. PayloadsAt(<<>>, 0) = {} /\ ~CloseAt(<<>>, 0) /\ Range(<<>>) = {} /\ InTurn(<<>>)
  BY DEF PayloadsAt, DataAt, WholeAt, CloseAt, Range, InTurn
<1> QED
  BY <1>1 DEF Init, Sound, StreamOK, GotOK, CloseOK

THEOREM SoundCorrect == Spec => [](Types /\ Sound)
<1>1. Spec => []Types
  BY Typed, PTL
<1> QED
  BY <1>1, SoundInitOK, SoundStepOK, PTL DEF Spec

(* FramesInOrder, for any frames: wherever the network cuts them, the      *)
(* caller has each data frame's payload once, whole and in order, until    *)
(* one is lost.                                                            *)
THEOREM FramesCorrect == Spec => []FramesInOrder
<1>1. ASSUME Types, Sound PROVE FramesInOrder
  <2>1. WholeData = DataAt(sent, pos) /\ \A k \in WholeData : PayloadOf(k) = PayloadIn(sent, k)
    BY DEF WholeData, Whole, EndOf, StartOf, PayloadOf, DataAt, WholeAt, PayloadIn, Starts
  <2> QED
    BY <1>1, <2>1 DEF Sound, GotOK, InTurn, PayloadsAt, FramesInOrder
<1> QED
  BY <1>1, SoundCorrect, PTL

-----------------------------------------------------------------------------
(* The close frames of a connection, and who sent them.                    *)

Senders ==
  /\ begun \in 0..ClosesMax /\ opener \in {"none", "caller", "library"}
  /\ opener # "none" => "client" \in flags
  /\ closes <= begun + (IF opener = "library" THEN 1 ELSE 0)

LEMMA SendersWrite ==
  ASSUME Types, Senders, NEW who \in {"caller", "library"}, WriteClose, Opens(who),
         IF who = "caller" THEN begun < ClosesMax /\ begun' = begun + 1 ELSE "client" \notin flags /\ begun' = begun
  PROVE  Senders'
<1>1. /\ begun \in Nat /\ ClosesMax \in Nat /\ closes \in Nat /\ closes' \in {closes, closes + 1} /\ flags' = flags \cup {"client"}
      /\ begun' \in 0..ClosesMax
  BY FramesAssumption DEF Types, Senders, WriteClose
<1>2. CASE who = "library"
  <2>1. opener = "none" /\ opener' = "library"
    BY <1>2 DEF Senders, Opens
  <2> QED
    BY <1>1, <1>2, <2>1 DEF Senders
<1>3. CASE who = "caller"
  <2>1. opener' \in {"caller", "library"} /\ (opener = "library" => opener' = "library")
    BY <1>3 DEF Senders, Opens
  <2> QED
    BY <1>1, <1>3, <2>1 DEF Senders
<1> QED
  BY <1>2, <1>3

LEMMA SendersStepOK == Types /\ Senders /\ [Next]_vars => Senders'
<1> SUFFICES ASSUME Types, Senders, [Next]_vars PROVE Senders'
  OBVIOUS
<1>1. CASE WebsockInitiateClose
  BY <1>1, SendersWrite DEF WebsockInitiateClose
<1>2. CASE Reply
  <2>1. CASE "client" \in flags /\ UNCHANGED <<closeVars, opener>>
    BY <1>2, <2>1 DEF Reply, Senders, closeVars
  <2>2. CASE "client" \notin flags /\ WriteClose /\ Opens("library")
    BY <1>2, <2>2, SendersWrite DEF Reply
  <2> QED
    BY <1>2, <2>1, <2>2 DEF Reply
<1>3. CASE Close
  <2>1. closes' = 0 /\ begun' = 0 /\ opener' = "none"
    BY <1>3 DEF Close
  <2> QED
    BY <2>1, FramesAssumption DEF Senders
<1>4. CASE ReadPayload
  <2>1. UNCHANGED <<closes, begun, opener>> /\ flags \subseteq flags'
    BY <1>4 DEF ReadPayload, ghostVars
  <2> QED
    BY <2>1 DEF Senders
<1>5. CASE UNCHANGED <<closes, begun, opener, flags>>
  BY <1>5 DEF Senders
<1>6. CASE ServerEnds \/ \E f \in Frames : ServerSends(f)
  BY <1>5, <1>6 DEF ServerEnds, ServerSends, closeVars, ghostVars
<1>7. CASE WebsockGet \/ WebsockReadResponse \/ WebsockReadResponseFails
  BY <1>5, <1>7 DEF WebsockGet, WebsockReadResponse, WebsockReadResponseFails, closeVars, ghostVars
<1>8. CASE DecodeHead \/ DecodeHalf \/ DecodeAnything \/ DecodeNothing
  BY <1>5, <1>8 DEF DecodeHead, DecodeHalf, DecodeAnything, DecodeNothing, closeVars, ghostVars
<1>9. CASE Length \/ LengthCut \/ PayloadCut
  BY <1>5, <1>9 DEF Length, LengthCut, PayloadCut, closeVars, ghostVars
<1>10. CASE WebsockWrite \/ WebsockFree
  BY <1>5, <1>10 DEF WebsockWrite, WebsockFree, closeVars, ghostVars
<1>11. CASE UNCHANGED vars
  BY <1>5, <1>11 DEF vars, closeVars, ghostVars
<1> QED
  BY <1>1, <1>2, <1>3, <1>4, <1>6, <1>7, <1>8, <1>9, <1>10, <1>11 DEF Next

THEOREM SendersCorrect == Spec => []Senders
<1>1. Init => Senders
  BY FramesAssumption DEF Init, Senders
<1> QED
  BY <1>1, Typed, SendersStepOK, PTL DEF Spec

(* TypeOK, for any frames: nothing is read that was not sent, and whatever *)
(* fails the caller owns a payload exactly when it was told so.            *)
THEOREM TypeCorrect == Spec => []TypeOK
<1>1. Types /\ BufferOK /\ Senders => TypeOK
  <2> SUFFICES ASSUME Types, BufferOK, Senders PROVE TypeOK
    OBVIOUS
  <2>1. pos \in 0..Total(sent)
    BY TotalType DEF Types
  <2> QED
    BY <2>1 DEF Types, BufferOK, Senders, TypeOK, Places, Causes, FrameType
<1> QED
  BY <1>1, Typed, SendersCorrect, PTL

(* CloseAnswered, for any frames and any caller: the library adds one close *)
(* frame at most, and none to a caller that was the first to close; and the *)
(* server's is answered on a connection that began without flags.          *)
THEOREM CloseCorrect == Spec => []CloseAnswered
<1>1. ASSUME Types, Sound, Senders PROVE CloseAnswered
  <2>1. (\E k \in Whole : sent[k].op = CloseCode /\ sent[k].len > 0) => CloseAt(sent, pos)
    BY DEF Whole, EndOf, StartOf, CloseAt, WholeAt, Starts
  <2> QED
    BY <1>1, <2>1 DEF Sound, CloseOK, CloseAnswered, Senders
<1> QED
  BY <1>1, SoundCorrect, SendersCorrect, PTL

=============================================================================
