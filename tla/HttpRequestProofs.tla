-------------------------- MODULE HttpRequestProofs --------------------------
(***************************************************************************)
(* Requests on a connection of the server, for buffers, lines and clients  *)
(* of any size: the layout of the buffer, in which the bytes that were     *)
(* taken from the socket stand in their order, and with it the type of     *)
(* every variable; then what these bytes mean, so that the worker serves   *)
(* the client's requests, loses none of their bytes and reports the end of *)
(* a body when it is there.                                                *)
(***************************************************************************)
EXTENDS HttpRequest, SequenceTheorems, WellFoundedInduction, TLAPS

-----------------------------------------------------------------------------
(* Induction, from the well-founded order of the naturals.                 *)

LEMMA NatMin ==
  ASSUME NEW T \in SUBSET Nat, T # {}
  PROVE  \E x \in T : \A y \in T : x <= y
<1> DEFINE R == OpToRel(<, Nat)
<1>1. IsWellFoundedOn(R, Nat)
  BY NatLessThanWellFounded
<1>2. \A x, y \in Nat : x < y => <<x, y>> \in R
  BY DEF OpToRel
<1> HIDE DEF R
<1>3. PICK x \in T : \A y \in T : ~ (<<y, x>> \in R)
  BY <1>1, WFMin
<1>4. ASSUME NEW y \in T PROVE x <= y
  <2>1. x \in Nat /\ y \in Nat /\ ~(y < x)
    BY <1>2, <1>3
  <2> QED
    BY <2>1
<1> QED
  BY <1>4

LEMMA NatInd ==
  ASSUME NEW T, 0 \in T, \A n \in Nat : n \in T => n + 1 \in T
  PROVE  Nat \subseteq T
<1> SUFFICES ASSUME Nat \ T # {} PROVE FALSE
  OBVIOUS
<1>1. PICK x \in Nat \ T : \A y \in Nat \ T : x <= y
  BY NatMin
<1>2. x # 0 /\ x - 1 \in Nat
  BY <1>1
<1>3. x - 1 \in T
  BY <1>1, <1>2
<1> QED BY <1>1, <1>2, <1>3

LEMMA MaxOf ==
  ASSUME NEW k \in Nat \ {0}, NEW s \in SUBSET (1..k), k \in s
  PROVE  Max(s) = k
<1>1. \A y \in s : y <= k /\ y \in Nat
  OBVIOUS
<1>2. \A x \in s : (\A y \in s : x >= y) => x = k
  BY <1>1
<1> QED
  BY <1>1, <1>2 DEF Max

LEMMA MinOf ==
  ASSUME NEW s \in SUBSET Nat, s # {}
  PROVE  Min(s) \in s /\ \A y \in s : Min(s) <= y
<1>1. \E x \in s : \A y \in s : x <= y
  BY NatMin
<1> QED
  BY <1>1 DEF Min

-----------------------------------------------------------------------------
(* Sequences of places.                                                    *)

LEMMA LesserIs ==
  ASSUME NEW m \in Int, NEW n \in Int
  PROVE  Lesser(m, n) \in {m, n} /\ Lesser(m, n) <= m /\ Lesser(m, n) <= n
BY DEF Lesser

LEMMA PlacesType ==
  ASSUME NEW p \in Nat, NEW n \in Nat
  PROVE  /\ Places(p, p + n - 1) \in Seq(Nat) /\ Len(Places(p, p + n - 1)) = n
         /\ \A k \in 1..n : Places(p, p + n - 1)[k] = p + k - 1
         /\ p >= 1 => \A N \in Nat : p + n - 1 <= N => Places(p, p + n - 1) \in Seq(1..N)
<1>1. (p + n - 1) + 1 - p = n
  OBVIOUS
<1>2. Places(p, p + n - 1) = [k \in 1..n |-> p + k - 1]
  BY <1>1 DEF Places
<1>3. \A k \in 1..n : p + k - 1 \in Nat /\ p <= p + k - 1 /\ p + k - 1 <= p + n - 1
  OBVIOUS
<1>4. ASSUME NEW N \in Nat, p >= 1, p + n - 1 <= N PROVE \A k \in 1..n : p + k - 1 \in 1..N
  BY <1>3, <1>4
<1> QED
  BY <1>2, <1>3, <1>4

LEMMA Joined ==
  ASSUME NEW S, NEW s \in Seq(S), NEW t \in Seq(S)
  PROVE  s \o t \in Seq(S) /\ Len(s \o t) = Len(s) + Len(t)
OBVIOUS

LEMMA JoinAssoc ==
  ASSUME NEW r \in Seq(Nat), NEW s \in Seq(Nat), NEW t \in Seq(Nat)
  PROVE  (r \o s) \o t = r \o (s \o t)
OBVIOUS

LEMMA SameSeq ==
  ASSUME NEW s \in Seq(Nat), NEW t \in Seq(Nat), Len(s) = Len(t), \A j \in 1..Len(s) : s[j] = t[j]
  PROVE  s = t
OBVIOUS

LEMMA PlacesJoin ==
  ASSUME NEW p \in Nat, NEW n \in Nat, NEW N \in Nat, p + n <= N + 1
  PROVE  /\ Places(p, N) = Places(p, p + n - 1) \o Places(p + n, N)
         /\ Places(p, N) \in Seq(Nat) /\ Places(p, p + n - 1) \in Seq(Nat) /\ Places(p + n, N) \in Seq(Nat)
<1> DEFINE k == N + 1 - (p + n)
           s == Places(p, p + n - 1)
           t == Places(p + n, N)
<1>1. k \in Nat /\ p + (n + k) - 1 = N /\ (p + n) + k - 1 = N /\ n + k \in Nat /\ p + n \in Nat
  OBVIOUS
<1> HIDE DEF k
<1>2. s \in Seq(Nat) /\ Len(s) = n /\ \A j \in 1..n : s[j] = p + j - 1
  BY PlacesType
<1>3. t \in Seq(Nat) /\ Len(t) = k /\ \A j \in 1..k : t[j] = p + n + j - 1
  <2>1. Places(p + n, (p + n) + k - 1) \in Seq(Nat) /\ Len(Places(p + n, (p + n) + k - 1)) = k
        /\ \A j \in 1..k : Places(p + n, (p + n) + k - 1)[j] = (p + n) + j - 1
    BY <1>1, PlacesType
  <2> QED
    BY <1>1, <2>1
<1>4. Places(p, N) \in Seq(Nat) /\ Len(Places(p, N)) = n + k /\ \A j \in 1..n + k : Places(p, N)[j] = p + j - 1
  <2>1. Places(p, p + (n + k) - 1) \in Seq(Nat) /\ Len(Places(p, p + (n + k) - 1)) = n + k
        /\ \A j \in 1..n + k : Places(p, p + (n + k) - 1)[j] = p + j - 1
    BY <1>1, PlacesType
  <2> QED
    BY <1>1, <2>1
<1> DEFINE u == Places(p, N)
<1> HIDE DEF s, t, u
<1>5. u \in Seq(Nat) /\ Len(u) = n + k /\ \A j \in 1..n + k : u[j] = p + j - 1
  BY <1>4 DEF u
<1>6. s \o t \in Seq(Nat) /\ Len(s \o t) = n + k
  BY <1>2, <1>3
<1>7. ASSUME NEW j \in 1..n + k PROVE (s \o t)[j] = u[j]
  <2>1. CASE j <= n
    BY <1>1, <1>2, <1>3, <1>5, <2>1
  <2>2. CASE ~(j <= n)
    <3>1. j - n \in 1..k
      BY <1>1, <2>2
    <3>2. (s \o t)[j] = t[j - n]
      BY <1>2, <1>3, <2>2, <3>1
    <3>3. t[j - n] = p + n + (j - n) - 1
      BY <1>3, <3>1
    <3>4. p + n + (j - n) - 1 = p + j - 1
      OBVIOUS
    <3> QED
      BY <1>5, <3>2, <3>3, <3>4
  <2> QED
    BY <2>1, <2>2
<1>8. s \o t = u
  <2> DEFINE st == s \o t
  <2>1. st \in Seq(Nat) /\ Len(st) = Len(u) /\ \A j \in 1..Len(st) : st[j] = u[j]
    BY <1>5, <1>6, <1>7
  <2> HIDE DEF st
  <2>2. st = u
    BY <1>5, <2>1, SameSeq
  <2> QED
    BY <2>2 DEF st
<1> QED
  BY <1>2, <1>3, <1>5, <1>8 DEF s, t, u

LEMMA PrefixOf ==
  ASSUME NEW s \in Seq(Nat), NEW t \in Seq(Nat)
  PROVE  IsPrefix(s, s \o t) /\ IsPrefix(<<>>, s) /\ IsPrefix(s, s) /\ s \o <<>> = s /\ <<>> \o s = s
<1>1. IsPrefix(s, s \o t)
  BY DEF IsPrefix
<1>2. IsPrefix(<<>>, s)
  BY DEF IsPrefix
<1>3. IsPrefix(s, s)
  BY DEF IsPrefix
<1> QED
  BY <1>1, <1>2, <1>3

-----------------------------------------------------------------------------
(* The number that some digits write is one.                               *)

Digits == DOMAIN Digit

LEMMA DigitType == ASSUME NEW b \in Digits PROVE Digit[b] \in Nat
BY DEF Digits, Digit

LEMMA HexType ==
  ASSUME NEW d \in Seq(Digits)
  PROVE  Hex(d) \in Nat
<1> DEFINE n == Len(d)
           Sum(g, x) == IF x = {} THEN 0 ELSE 16 * g[x \ {Max(x)}] + Digit[d[Max(x)]]
           Sums(g, k) == g \in [SUBSET (1..k) -> Nat] /\ \A x \in SUBSET (1..k) : g[x] = Sum(g, x)
           iter == CHOOSE iter : iter = [x \in SUBSET DOMAIN d |-> Sum(iter, x)]
<1> HIDE DEF iter, Sums
<1>1. n \in Nat /\ DOMAIN d = 1..n /\ \A k \in 1..n : Digit[d[k]] \in Nat
  <2>1. \A k \in 1..n : d[k] \in Digits
    OBVIOUS
  <2> QED
    BY <2>1, DigitType
<1>2. Hex(d) = iter[DOMAIN d]
  BY DEF Hex, FoldLeft, MapThenFoldSet, iter
<1> HIDE DEF n
<1>3. \E g : Sums(g, n)
  <2> DEFINE T == {k \in Nat : k <= n => \E g : Sums(g, k)}
  <2>1. 0 \in T
    <3>1. Sums([x \in SUBSET (1..0) |-> 0], 0)
      BY DEF Sums
    <3> QED
      BY <3>1
  <2>2. ASSUME NEW k \in Nat, k \in T, k + 1 <= n PROVE \E g : Sums(g, k + 1)
    <3>1. PICK g : Sums(g, k)
      BY <2>2, <1>1
    <3> DEFINE h == [x \in SUBSET (1..k + 1) |-> IF k + 1 \in x THEN 16 * g[x \ {k + 1}] + Digit[d[k + 1]] ELSE g[x]]
    <3>2. \A x \in SUBSET (1..k + 1) : /\ x \ {k + 1} \in SUBSET (1..k)
                                       /\ k + 1 \notin x => x \in SUBSET (1..k)
      OBVIOUS
    <3>3. Digit[d[k + 1]] \in Nat
      BY <1>1, <2>2
    <3>4. h \in [SUBSET (1..k + 1) -> Nat]
      <4>1. \A a, b \in Nat : 16 * a + b \in Nat
        OBVIOUS
      <4>2. g \in [SUBSET (1..k) -> Nat]
        BY <3>1 DEF Sums
      <4> QED
        BY <3>2, <3>3, <4>1, <4>2
    <3>5. ASSUME NEW x \in SUBSET (1..k + 1) PROVE h[x] = Sum(h, x)
      <4>1. CASE k + 1 \in x
        <5>1. Max(x) = k + 1 /\ x # {}
          BY <4>1, MaxOf
        <5>2. h[x \ {k + 1}] = g[x \ {k + 1}]
          BY <3>2
        <5> QED
          BY <4>1, <5>1, <5>2
      <4>2. CASE k + 1 \notin x
        <5>1. h[x] = Sum(g, x) /\ x \ {Max(x)} \in SUBSET (1..k)
          BY <3>1, <3>2, <4>2 DEF Sums
        <5>2. h[x \ {Max(x)}] = g[x \ {Max(x)}]
          BY <4>2, <5>1
        <5> QED
          BY <5>1, <5>2
      <4> QED
        BY <4>1, <4>2
    <3> HIDE DEF h
    <3> QED
      BY <3>4, <3>5 DEF Sums
  <2>3. \A k \in Nat : k \in T => k + 1 \in T
    BY <2>2
  <2> HIDE DEF T
  <2>4. n \in T
    BY <1>1, <2>1, <2>3, NatInd
  <2> QED
    BY <1>1, <2>4 DEF T
<1>4. iter = [x \in SUBSET DOMAIN d |-> Sum(iter, x)]
  <2>1. PICK g : Sums(g, n)
    BY <1>3
  <2>2. g = [x \in SUBSET DOMAIN d |-> Sum(g, x)]
    BY <1>1, <2>1 DEF Sums
  <2> QED
    BY <2>2 DEF iter
<1>5. iter[1..0] = 0
  BY <1>1, <1>4
<1>6. ASSUME NEW k \in Nat, k + 1 <= n
      PROVE  iter[1..k + 1] = 16 * iter[1..k] + Digit[d[k + 1]]
  <2>1. 1..k + 1 \in SUBSET DOMAIN d /\ k + 1 \in 1..k + 1
    BY <1>1, <1>6
  <2>2. (1..k + 1) \ {k + 1} = 1..k
    OBVIOUS
  <2>4. 1..k + 1 # {}
    BY <2>1
  <2>3. Max(1..k + 1) = k + 1
    BY <2>1, MaxOf
  <2> QED
    BY <1>4, <2>1, <2>2, <2>3, <2>4
<1>7. ASSUME NEW k \in 0..n PROVE iter[1..k] \in Nat
  <2> DEFINE T == {j \in Nat : j <= n => iter[1..j] \in Nat}
  <2>1. 0 \in T
    BY <1>5
  <2>2. ASSUME NEW j \in Nat, j \in T, j + 1 <= n PROVE j + 1 \in T
    <3>1. \A a, b \in Nat : 16 * a + b \in Nat
      OBVIOUS
    <3>2. iter[1..j] \in Nat /\ j + 1 \in 1..n /\ Digit[d[j + 1]] \in Nat
      BY <1>1, <2>2
    <3>3. iter[1..j + 1] \in Nat
      BY <1>6, <2>2, <3>1, <3>2
    <3> QED
      BY <3>3
  <2>3. \A j \in Nat : j \in T => j + 1 \in T
    BY <1>1, <2>2
  <2> HIDE DEF T
  <2>4. k \in T
    BY <1>7, <2>1, <2>3, NatInd
  <2> QED
    BY <1>7, <2>4 DEF T
<1>8. Hex(d) = iter[1..n]
  BY <1>1, <1>2
<1> QED
  BY <1>1, <1>7, <1>8

-----------------------------------------------------------------------------
(* Lines and the sizes that they say.                                      *)

LEMMA Sizes ==
  /\ BufMax \in Nat /\ BufMax >= 1 /\ LineMax \in Nat /\ LineMax >= 3 /\ ContentMax \in Nat
  /\ Slots = 0..BufMax - 1 /\ (\A i \in Slots : i \in Nat /\ i < BufMax) /\ (\A i \in Nat : i < BufMax => i \in Slots)
BY SizesAssumption DEF Slots

LEMMA LineEndIs ==
  ASSUME NEW w \in Seq(Bytes), NEW p \in Nat, LineEnds(w, p) # {}
  PROVE  /\ LineEnd(w, p) \in Nat /\ LineEnd(w, p) >= p + 1 /\ LineEnd(w, p) <= Len(w)
         /\ w[LineEnd(w, p)] = "LF" /\ w[LineEnd(w, p) - 1] = "CR"
         /\ \A i \in LineEnds(w, p) : LineEnd(w, p) <= i
<1> DEFINE s == LineEnds(w, p)
<1>1. Len(w) \in Nat
  OBVIOUS
<1>2. s \in SUBSET Nat /\ \A i \in s : i \in p + 1..Len(w) /\ w[i] = "LF" /\ w[i - 1] = "CR"
  BY <1>1 DEF LineEnds
<1> HIDE DEF s
<1>3. Min(s) \in s /\ \A i \in s : Min(s) <= i
  BY <1>2, MinOf DEF s
<1>4. LineEnd(w, p) = Min(s)
  BY DEF LineEnd, s
<1> QED
  BY <1>1, <1>2, <1>3, <1>4 DEF s

LEMMA SizeOfType ==
  ASSUME NEW w \in Seq(Bytes), NEW p \in Nat \ {0}, NEW n \in Int, n <= Len(w)
  PROVE  SizeOf(w, p, n) \in Nat \cup {-1}
<1> DEFINE other == {i \in p..n : w[i] \notin DOMAIN Digit}
           last == IF other = {} THEN n ELSE Min(other) - 1
<1>1. Len(w) \in Nat
  OBVIOUS
<1>2. other \in SUBSET Nat /\ \A i \in other : i \in p..n
  OBVIOUS
<1>3. last \in Int /\ last <= n /\ \A i \in p..last : w[i] \in Digits
  <2>1. CASE other = {}
    BY <2>1 DEF Digits
  <2>2. CASE other # {}
    <3> HIDE DEF other
    <3>1. Min(other) \in other /\ \A i \in other : Min(other) <= i
      BY <1>2, <2>2, MinOf
    <3>2. Min(other) \in p..n /\ last = Min(other) - 1
      BY <1>2, <2>2, <3>1
    <3>3. \A i \in p..last : i \in p..n /\ i \notin other
      BY <3>1, <3>2
    <3> QED
      BY <3>2, <3>3 DEF other, Digits
  <2> QED
    BY <2>1, <2>2
<1>4. SizeOf(w, p, n) = IF last < p \/ (other # {} /\ w[last + 1] # ";") THEN -1 ELSE Hex(SubSeq(w, p, last))
  BY DEF SizeOf
<1> HIDE DEF last, other
<1>5. ~(last < p) => SubSeq(w, p, last) \in Seq(Digits)
  <2> SUFFICES ASSUME ~(last < p) PROVE SubSeq(w, p, last) \in Seq(Digits)
    OBVIOUS
  <2>1. SubSeq(w, p, last) = [i \in 1..last - p + 1 |-> w[i + p - 1]]
    BY <1>1, <1>3
  <2>2. \A i \in 1..last - p + 1 : i + p - 1 \in p..last
    BY <1>3
  <2>3. last - p + 1 \in Nat
    BY <1>3
  <2> QED
    BY <1>3, <2>1, <2>2, <2>3
<1> QED
  BY <1>4, <1>5, HexType

-----------------------------------------------------------------------------
(* The reading of chunks: each place's from those of the places behind it. *)

Steps == {"size", "trailer"}
Chunks(w, p, at) == ReadOf(w)[p][at]
Data(w, p, n) == DataAt(w, ReadOf(w), p, n)
SizeAt(w, p) == SizeOf(w, p, LineEnd(w, p) - 2)

LEMMA SizeAtType ==
  ASSUME NEW w \in Seq(Bytes), NEW p \in Nat \ {0}, ~NoLine(w, p)
  PROVE  SizeAt(w, p) \in Nat \cup {-1} /\ LineEnd(w, p) \in Nat /\ LineEnd(w, p) >= p + 1 /\ LineEnd(w, p) <= Len(w)
<1>1. LineEnds(w, p) # {}
  BY DEF NoLine
<1>2. LineEnd(w, p) \in Nat /\ LineEnd(w, p) >= p + 1 /\ LineEnd(w, p) <= Len(w)
  BY <1>1, LineEndIs
<1>3. LineEnd(w, p) - 2 \in Int /\ LineEnd(w, p) - 2 <= Len(w)
  BY <1>2
<1> QED
  BY <1>2, <1>3, SizeOfType DEF SizeAt

ReadLine(w, read, p, at) ==
  LET e == LineEnd(w, p)
  IN  IF NoLine(w, p) THEN Reading(<<>>, 0, IF Len(w) - p >= LineMax - 2 THEN "long" ELSE "cut")
      ELSE IF at = "trailer"
      THEN IF e = p + 1 THEN Reading(<<>>, e, "whole") ELSE read[e + 1]["trailer"]
      ELSE IF e = p + 1 THEN Reading(<<>>, 0, "empty")
      ELSE IF SizeAt(w, p) = -1 THEN Reading(<<>>, 0, "bad")
      ELSE IF SizeAt(w, p) >= Word THEN Reading(<<>>, 0, "wide")
      ELSE IF SizeAt(w, p) = 0 THEN read[e + 1]["trailer"]
      ELSE DataAt(w, read, e + 1, SizeAt(w, p))

LEMMA ReadAtIs == ASSUME NEW w, NEW read, NEW p, NEW at PROVE ReadAt(w, read, p, at) = ReadLine(w, read, p, at)
BY DEF ReadAt, ReadLine, SizeAt

(* A reading looks only at what is behind its place. *)
LEMMA ReadsAhead ==
  ASSUME NEW w \in Seq(Bytes), NEW p \in 1..Len(w) + 1, NEW g, NEW h, \A q \in p + 1..Len(w) + 1 : g[q] = h[q],
         NEW at \in Steps
  PROVE  ReadAt(w, g, p, at) = ReadAt(w, h, p, at)
<1> SUFFICES ReadLine(w, g, p, at) = ReadLine(w, h, p, at)
  BY ReadAtIs
<1>1. Len(w) \in Nat /\ p \in Nat \ {0}
  OBVIOUS
<1>2. CASE NoLine(w, p)
  BY <1>2 DEF ReadLine
<1>3. CASE ~NoLine(w, p)
  <2> DEFINE e == LineEnd(w, p)
             n == SizeAt(w, p)
  <2>1. n \in Nat \cup {-1} /\ e \in Nat /\ e >= p + 1 /\ e <= Len(w)
    BY <1>1, <1>3, SizeAtType
  <2>2. g[e + 1] = h[e + 1]
    <3> HIDE DEF e
    <3>1. e + 1 \in p + 1..Len(w) + 1
      BY <1>1, <2>1
    <3> QED
      BY <3>1
  <2>3. n # -1 => DataAt(w, g, e + 1, n) = DataAt(w, h, e + 1, n)
    <3> HIDE DEF e, n
    <3> SUFFICES ASSUME n # -1, ~((e + 1) + n + 1 > Len(w)) PROVE g[(e + 1) + n + 2] = h[(e + 1) + n + 2]
      BY DEF DataAt
    <3>1. (e + 1) + n + 2 \in p + 1..Len(w) + 1
      BY <1>1, <2>1
    <3> QED
      BY <3>1
  <2> QED
    BY <2>2, <2>3 DEF ReadLine
<1> QED
  BY <1>2, <1>3

LEMMA ReadOfIs ==
  ASSUME NEW w \in Seq(Bytes)
  PROVE  ReadOf(w) = [p \in 1..Len(w)+1 |-> [at \in Steps |-> ReadAt(w, ReadOf(w), p, at)]]
<1> DEFINE n == Len(w) + 1
           From(g, k) == g = [p \in k..n |-> [at \in Steps |-> ReadAt(w, g, p, at)]]
           T == {m \in Nat : m <= n => \E g : From(g, n + 1 - m)}
<1>1. n \in Nat
  OBVIOUS
<1> HIDE DEF From
<1>2. 0 \in T
  <2> DEFINE g == [p \in n + 1..n |-> 0]
  <2>1. g = [p \in n + 1..n |-> [at \in Steps |-> ReadAt(w, g, p, at)]]
    <3>1. \A p \in n + 1..n : FALSE
      BY <1>1
    <3> HIDE DEF n
    <3> QED
      BY <3>1
  <2>2. From(g, n + 1 - 0)
    <3>1. n + 1 - 0 = n + 1
      BY <1>1
    <3> HIDE DEF g, n
    <3> QED
      BY <2>1, <3>1 DEF From
  <2> QED
    BY <2>2
<1>3. ASSUME NEW m \in Nat, m \in T, m + 1 <= n PROVE \E g : From(g, n + 1 - (m + 1))
  <2> DEFINE k == n - m
  <2>1. k \in 1..n /\ n + 1 - m = k + 1 /\ n + 1 - (m + 1) = k /\ m <= n
    BY <1>1, <1>3
  <2>2. PICK g : From(g, k + 1)
    BY <1>3, <2>1
  <2>3. g = [p \in k + 1..n |-> [at \in Steps |-> ReadAt(w, g, p, at)]]
    BY <2>2 DEF From
  <2> DEFINE h == [p \in k..n |-> [at \in Steps |-> ReadAt(w, g, p, at)]]
  <2> HIDE DEF k, T
  <2>4. \A p \in k + 1..n : p \in k..n /\ p \in 1..Len(w) + 1 /\ h[p] = g[p]
    <3>1. \A p \in k + 1..n : p \in k..n /\ p \in 1..n
      BY <1>1, <2>1
    <3>2. \A p \in k + 1..n : g[p] = [at \in Steps |-> ReadAt(w, g, p, at)]
      BY <2>3
    <3> QED
      BY <3>1, <3>2
  <2>5. ASSUME NEW p \in k..n, NEW at \in Steps PROVE ReadAt(w, g, p, at) = ReadAt(w, h, p, at)
    <3>1. p \in 1..Len(w) + 1 /\ \A q \in p + 1..Len(w) + 1 : q \in k + 1..n
      BY <1>1, <2>1
    <3>2. \A q \in p + 1..Len(w) + 1 : g[q] = h[q]
      BY <2>4, <3>1
    <3> HIDE DEF h
    <3> QED
      BY <3>1, <3>2, ReadsAhead
  <2>6. h = [p \in k..n |-> [at \in Steps |-> ReadAt(w, h, p, at)]]
    BY <2>5
  <2>7. From(h, k)
    <3> HIDE DEF h
    <3> QED
      BY <2>6 DEF From
  <2> QED
    BY <2>1, <2>7
<1>4. \A m \in Nat : m \in T => m + 1 \in T
  BY <1>3
<1> HIDE DEF T
<1>5. n \in T
  BY <1>1, <1>2, <1>4, NatInd
<1>6. PICK g : From(g, 1)
  <2>1. n + 1 - n = 1 /\ n <= n
    BY <1>1
  <2> QED
    BY <1>5, <2>1 DEF T
<1>7. g = [p \in 1..Len(w) + 1 |-> [at \in Steps |-> ReadAt(w, g, p, at)]]
  BY <1>6 DEF From
<1> QED
  BY <1>7 DEF ReadOf, Steps

LEMMA ChunksIs ==
  ASSUME NEW w \in Seq(Bytes), NEW p \in 1..Len(w) + 1, NEW at \in Steps
  PROVE  Chunks(w, p, at) = ReadLine(w, ReadOf(w), p, at)
BY ReadOfIs, ReadAtIs DEF Chunks

(* A body's bytes are places, and a whole one ends behind its beginning. *)
Hows == {"whole", "cut", "long", "empty", "bad", "wide", "odd"}
GoodBody(r, p, N) ==
  /\ r.body \in Seq(Nat) /\ r.last \in Nat /\ r.how \in Hows
  /\ r.how = "whole" => r.last >= p /\ r.last <= N

LEMMA ReadingIs ==
  ASSUME NEW b, NEW l, NEW h
  PROVE  Reading(b, l, h).body = b /\ Reading(b, l, h).last = l /\ Reading(b, l, h).how = h
BY DEF Reading

LEMMA NoBody ==
  ASSUME NEW h \in Hows \ {"whole"}, NEW b \in Seq(Nat), NEW p, NEW N
  PROVE  GoodBody(Reading(b, 0, h), p, N)
BY ReadingIs DEF GoodBody

LEMMA DataType ==
  ASSUME NEW w \in Seq(Bytes), NEW p \in Nat \ {0}, NEW n \in Nat \ {0}, p <= Len(w) + 1,
         p + n + 1 <= Len(w) => GoodBody(Chunks(w, p + n + 2, "size"), p + n + 2, Len(w))
  PROVE  GoodBody(Data(w, p, n), p, Len(w))
<1>1. Len(w) \in Nat
  OBVIOUS
<1>2. CASE p + n + 1 > Len(w)
  <2> DEFINE m == Lesser(Len(w), p + n - 1)
  <2>1. m \in Nat /\ m >= p - 1
    BY <1>1 DEF Lesser
  <2> HIDE DEF m
  <2>2. m = p + (m + 1 - p) - 1 /\ m + 1 - p \in Nat
    BY <2>1
  <2>3. Places(p, m) \in Seq(Nat)
    BY <2>2, PlacesType
  <2>4. Data(w, p, n) = Reading(Places(p, m), 0, "cut")
    BY <1>2 DEF Data, DataAt, m
  <2> QED
    BY <2>3, <2>4, NoBody DEF Hows
<1>3. CASE ~(p + n + 1 > Len(w))
  <2> DEFINE rest == Chunks(w, p + n + 2, "size")
  <2>1. Places(p, p + n - 1) \in Seq(Nat)
    BY PlacesType
  <2>2. CASE ~(w[p + n] = "CR" /\ w[p + n + 1] = "LF")
    <3>1. Data(w, p, n) = Reading(Places(p, p + n - 1), 0, "bad")
      BY <1>3, <2>2 DEF Data, DataAt
    <3> QED
      BY <2>1, <3>1, NoBody DEF Hows
  <2>3. CASE w[p + n] = "CR" /\ w[p + n + 1] = "LF"
    <3>1. Data(w, p, n) = Reading(Places(p, p + n - 1) \o rest.body, rest.last, rest.how)
      BY <1>3, <2>3 DEF Data, DataAt, Chunks
    <3>2. GoodBody(rest, p + n + 2, Len(w))
      BY <1>1, <1>3
    <3> HIDE DEF rest
    <3>3. Places(p, p + n - 1) \o rest.body \in Seq(Nat)
      BY <2>1, <3>2, Joined DEF GoodBody
    <3> DEFINE b == Places(p, p + n - 1) \o rest.body
    <3>6. Data(w, p, n) = Reading(b, rest.last, rest.how)
      BY <3>1
    <3>7. b \in Seq(Nat)
      BY <3>3
    <3> HIDE DEF b
    <3>4. Data(w, p, n).body = b /\ Data(w, p, n).last = rest.last /\ Data(w, p, n).how = rest.how /\ b \in Seq(Nat)
      BY <3>6, <3>7, ReadingIs
    <3>5. rest.how = "whole" => rest.last >= p /\ rest.last <= Len(w)
      BY <1>1, <3>2 DEF GoodBody
    <3> QED
      BY <3>2, <3>4, <3>5 DEF GoodBody
  <2> QED
    BY <2>2, <2>3
<1> QED
  BY <1>2, <1>3

LEMMA ChunksTypeStep ==
  ASSUME NEW w \in Seq(Bytes), NEW p \in 1..Len(w) + 1,
         \A q \in p + 1..Len(w) + 1 : \A at \in Steps : GoodBody(Chunks(w, q, at), q, Len(w)),
         NEW at \in Steps
  PROVE  GoodBody(Chunks(w, p, at), p, Len(w))
<1>1. Len(w) \in Nat /\ p \in Nat \ {0} /\ p <= Len(w) + 1 /\ <<>> \in Seq(Nat)
  OBVIOUS
<1>2. Chunks(w, p, at) = ReadLine(w, ReadOf(w), p, at)
  BY ChunksIs
<1>3. CASE NoLine(w, p)
  <2>1. Chunks(w, p, at) = Reading(<<>>, 0, IF Len(w) - p >= LineMax - 2 THEN "long" ELSE "cut")
    BY <1>2, <1>3 DEF ReadLine
  <2> QED
    BY <1>1, <2>1, NoBody DEF Hows
<1>4. CASE ~NoLine(w, p)
  <2> DEFINE e == LineEnd(w, p)
             n == SizeAt(w, p)
  <2>1. n \in Nat \cup {-1} /\ e \in Nat /\ e >= p + 1 /\ e <= Len(w)
    BY <1>1, <1>4, SizeAtType
  <2>2. \/ Chunks(w, p, at) \in {Reading(<<>>, e, "whole"), Chunks(w, e + 1, "trailer"), Reading(<<>>, 0, "empty"),
                                Reading(<<>>, 0, "bad"), Reading(<<>>, 0, "wide")}
        \/ Chunks(w, p, at) = Data(w, e + 1, n) /\ n # -1 /\ n # 0
    <3> DEFINE m == Reading(<<>>, e, "whole")
               t == ReadOf(w)[e + 1]["trailer"]
               l == Reading(<<>>, 0, "empty")
               b == Reading(<<>>, 0, "bad")
               g == Reading(<<>>, 0, "wide")
               d == DataAt(w, ReadOf(w), e + 1, n)
    <3>1. Chunks(w, p, at) = IF at = "trailer" THEN IF e = p + 1 THEN m ELSE t
                             ELSE IF e = p + 1 THEN l ELSE IF n = -1 THEN b ELSE IF n >= Word THEN g ELSE IF n = 0 THEN t ELSE d
      BY <1>2, <1>4 DEF ReadLine
    <3>2. t = Chunks(w, e + 1, "trailer") /\ d = Data(w, e + 1, n)
      BY DEF Chunks, Data
    <3> HIDE DEF m, t, l, b, g, d, e, n
    <3>3. Chunks(w, p, at) \in {m, t, l, b, g} \/ (Chunks(w, p, at) = d /\ n # -1 /\ n # 0)
      BY <3>1
    <3> QED
      BY <3>2, <3>3 DEF m, l, b, g
  <2> HIDE DEF e, n
  <2>3. GoodBody(Reading(<<>>, e, "whole"), p, Len(w))
    <3> DEFINE m == Reading(<<>>, e, "whole")
    <3>1. m.body = <<>> /\ m.last = e /\ m.how = "whole"
      BY ReadingIs
    <3> HIDE DEF m
    <3>2. e >= p
      BY <1>1, <2>1
    <3> QED
      BY <1>1, <2>1, <3>1, <3>2 DEF GoodBody, Hows, m
  <2>4. GoodBody(Chunks(w, e + 1, "trailer"), p, Len(w))
    <3>1. e + 1 \in p + 1..Len(w) + 1
      BY <1>1, <2>1
    <3>2. GoodBody(Chunks(w, e + 1, "trailer"), e + 1, Len(w))
      BY <3>1 DEF Steps
    <3> QED
      BY <1>1, <2>1, <3>2 DEF GoodBody
  <2>5. /\ GoodBody(Reading(<<>>, 0, "empty"), p, Len(w)) /\ GoodBody(Reading(<<>>, 0, "bad"), p, Len(w))
        /\ GoodBody(Reading(<<>>, 0, "wide"), p, Len(w))
    BY <1>1, NoBody DEF Hows
  <2>6. n # -1 /\ n # 0 => GoodBody(Data(w, e + 1, n), p, Len(w))
    <3> SUFFICES ASSUME n # -1, n # 0 PROVE GoodBody(Data(w, e + 1, n), p, Len(w))
      OBVIOUS
    <3>1. e + 1 \in Nat \ {0} /\ n \in Nat \ {0} /\ e + 1 <= Len(w) + 1
      BY <2>1
    <3>2. (e + 1) + n + 1 <= Len(w) => (e + 1) + n + 2 \in p + 1..Len(w) + 1
      BY <1>1, <2>1, <3>1
    <3>3. (e + 1) + n + 1 <= Len(w) => GoodBody(Chunks(w, (e + 1) + n + 2, "size"), (e + 1) + n + 2, Len(w))
      BY <3>2 DEF Steps
    <3>4. GoodBody(Data(w, e + 1, n), e + 1, Len(w))
      BY <3>1, <3>3, DataType
    <3> QED
      BY <1>1, <2>1, <3>4 DEF GoodBody
  <2> QED
    BY <2>2, <2>3, <2>4, <2>5, <2>6
<1> QED
  BY <1>3, <1>4

LEMMA ChunksType ==
  ASSUME NEW w \in Seq(Bytes), NEW p \in 1..Len(w) + 1, NEW at \in Steps
  PROVE  GoodBody(Chunks(w, p, at), p, Len(w))
<1> DEFINE n == Len(w) + 1
           Good(q) == \A a \in Steps : GoodBody(Chunks(w, q, a), q, Len(w))
           T == {m \in Nat : \A q \in 1..n : q + m >= n => Good(q)}
<1>1. n \in Nat
  OBVIOUS
<1>2. \A q \in 1..n : (\A r \in q + 1..n : Good(r)) => Good(q)
  BY ChunksTypeStep
<1> HIDE DEF Good, n
<1>3. 0 \in T
  <2>1. \A q \in 1..n : q + 0 >= n => \A r \in q + 1..n : FALSE
    BY <1>1
  <2> QED
    BY <1>2, <2>1
<1>4. ASSUME NEW m \in Nat, m \in T PROVE m + 1 \in T
  <2>1. \A q \in 1..n : q + (m + 1) >= n => \A r \in q + 1..n : r \in 1..n /\ r + m >= n
    BY <1>1
  <2> QED
    BY <1>2, <1>4, <2>1
<1>5. \A m \in Nat : m \in T => m + 1 \in T
  BY <1>4
<1> HIDE DEF T
<1>6. n \in T
  BY <1>1, <1>3, <1>5, NatInd
<1>7. p \in 1..n /\ p + n >= n
  BY <1>1 DEF n
<1>8. Good(p)
  BY <1>6, <1>7 DEF T
<1> QED
  BY <1>8 DEF Good

-----------------------------------------------------------------------------
(* The requests: those from a place on from those behind the first.        *)

LEMMA HeadEndIs ==
  ASSUME NEW w \in Seq(Bytes), NEW p \in Nat \ {0}
  PROVE  /\ \A i \in Nat : i \in HeadEndsAt(w, p) <=> p <= i /\ i <= Len(w) /\ i < p + BufMax /\ w[i] \in DOMAIN Heads
         /\ HeadEndsAt(w, p) # {} => /\ HeadEndAt(w, p) \in HeadEndsAt(w, p) /\ HeadEndAt(w, p) \in Nat
                                     /\ \A i \in HeadEndsAt(w, p) : HeadEndAt(w, p) <= i
<1> DEFINE s == HeadEndsAt(w, p)
           top == Lesser(Len(w), p + BufMax - 1)
<1>1. Len(w) \in Nat /\ BufMax \in Nat
  BY Sizes
<1>2. top \in Int /\ \A i \in Nat : i <= top <=> i <= Len(w) /\ i < p + BufMax
  BY <1>1 DEF Lesser
<1>3. s = {i \in p..top : w[i] \in DOMAIN Heads}
  BY DEF HeadEndsAt
<1> HIDE DEF top
<1>4. s \in SUBSET Nat
  BY <1>2, <1>3
<1>5. \A i \in Nat : i \in s <=> p <= i /\ i <= Len(w) /\ i < p + BufMax /\ w[i] \in DOMAIN Heads
  BY <1>2, <1>3
<1>6. HeadEndAt(w, p) = Min(s)
  BY DEF HeadEndAt
<1> HIDE DEF s
<1>7. s # {} => Min(s) \in s /\ Min(s) \in Nat /\ \A i \in s : Min(s) <= i
  BY <1>4, MinOf
<1> QED
  BY <1>5, <1>6, <1>7 DEF s

LEMMA HeadsType == \A b \in DOMAIN Heads : Heads[b] \in Nat
BY DEF Heads

LEMMA AnnouncedType ==
  ASSUME NEW w \in Seq(Bytes), NEW p \in Nat \ {0}, p <= Len(w) + 1, NEW n \in Nat
  PROVE  /\ GoodBody(Announced(w, p, n), p - 1, Len(w))
         /\ Announced(w, p, n).how \in {"whole", "cut"}
<1>1. Len(w) \in Nat
  OBVIOUS
<1>2. CASE p + n <= Len(w) + 1
  <2>1. Announced(w, p, n) = Reading(Places(p, p + n - 1), p + n - 1, "whole")
    BY <1>2 DEF Announced
  <2>2. Places(p, p + n - 1) \in Seq(Nat)
    BY PlacesType
  <2> DEFINE b == Places(p, p + n - 1)
             l == p + n - 1
  <2>3. l \in Nat /\ l >= p - 1 /\ l <= Len(w) /\ b \in Seq(Nat) /\ Announced(w, p, n) = Reading(b, l, "whole")
    BY <1>1, <1>2, <2>1, <2>2
  <2> HIDE DEF b, l
  <2> DEFINE r == Announced(w, p, n)
  <2>4. r.body = b /\ r.last = l /\ r.how = "whole"
    BY <2>3, ReadingIs
  <2> QED
    BY <2>3, <2>4 DEF GoodBody, Hows
<1>3. CASE ~(p + n <= Len(w) + 1)
  <2>1. Announced(w, p, n) = Reading(Places(p, Len(w)), 0, "cut")
    BY <1>3 DEF Announced
  <2>2. Places(p, Len(w)) \in Seq(Nat)
    <3>1. p + 0 <= Len(w) + 1
      OBVIOUS
    <3> QED
      BY <1>1, <3>1, PlacesJoin
  <2> QED
    BY <2>1, <2>2, NoBody, ReadingIs DEF Hows
<1> QED
  BY <1>2, <1>3

LEMMA BodyAtType ==
  ASSUME NEW w \in Seq(Bytes), NEW p \in Nat \ {0}, HeadEndsAt(w, p) # {}
  PROVE  GoodBody(BodyAt(w, p), p, Len(w))
<1> DEFINE e == HeadEndAt(w, p)
<1>1. e \in Nat /\ p <= e /\ e <= Len(w) /\ w[e] \in DOMAIN Heads /\ Len(w) \in Nat
  BY HeadEndIs
<1>2. BodyAt(w, p) = IF w[e] = "EC" THEN Chunks(w, e + 1, "size")
                     ELSE IF w[e] = "EO" THEN Reading(<<>>, 0, "odd") ELSE Announced(w, e + 1, Heads[w[e]])
  BY DEF BodyAt, ChunksFrom, Chunks
<1>5. GoodBody(Reading(<<>>, 0, "odd"), p, Len(w))
  <2>1. <<>> \in Seq(Nat)
    OBVIOUS
  <2> QED
    BY <2>1, NoBody DEF Hows
<1> HIDE DEF e
<1>3. GoodBody(Chunks(w, e + 1, "size"), e + 1, Len(w))
  <2>1. e + 1 \in 1..Len(w) + 1
    BY <1>1
  <2> QED
    BY <2>1, ChunksType DEF Steps
<1>4. GoodBody(Announced(w, e + 1, Heads[w[e]]), e, Len(w))
  <2>1. e + 1 \in Nat \ {0} /\ e + 1 <= Len(w) + 1 /\ (e + 1) - 1 = e
    BY <1>1
  <2> QED
    BY <1>1, <2>1, HeadsType, AnnouncedType
<1> QED
  BY <1>1, <1>2, <1>3, <1>4, <1>5 DEF GoodBody

RequestsOf(w) == CHOOSE read : read = [p \in 1..Len(w)+1 |-> RequestsAt(w, read, p)]
RestFrom(w, p) == RequestsOf(w)[p]
Asks(w) == {RequestAt(w, p) : p \in Nat}

LEMMA RequestsIs == ASSUME NEW w PROVE Requests(w) = RestFrom(w, 1)
BY DEF Requests, RestFrom, RequestsOf

(* The requests from a place on depend on those behind it only. *)
LEMMA RequestsAhead ==
  ASSUME NEW w \in Seq(Bytes), NEW p \in 1..Len(w) + 1, NEW g, NEW h, \A q \in p + 1..Len(w) + 1 : g[q] = h[q]
  PROVE  RequestsAt(w, g, p) = RequestsAt(w, h, p)
<1> SUFFICES ASSUME IsRequest(w, p), BodyAt(w, p).how = "whole"
             PROVE  g[BodyAt(w, p).last + 1] = h[BodyAt(w, p).last + 1]
  BY DEF RequestsAt
<1>1. GoodBody(BodyAt(w, p), p, Len(w))
  BY BodyAtType DEF IsRequest
<1> DEFINE l == BodyAt(w, p).last
<1>2. l \in Nat /\ l >= p /\ l <= Len(w)
  BY <1>1 DEF GoodBody
<1> HIDE DEF l
<1>3. l + 1 \in p + 1..Len(w) + 1
  BY <1>2
<1> QED
  BY <1>3 DEF l

LEMMA RequestsOfIs ==
  ASSUME NEW w \in Seq(Bytes)
  PROVE  RequestsOf(w) = [p \in 1..Len(w)+1 |-> RequestsAt(w, RequestsOf(w), p)]
<1> DEFINE n == Len(w) + 1
           From(g, k) == g = [p \in k..n |-> RequestsAt(w, g, p)]
           T == {m \in Nat : m <= n => \E g : From(g, n + 1 - m)}
<1>1. n \in Nat
  OBVIOUS
<1> HIDE DEF From
<1>2. 0 \in T
  <2> DEFINE g == [p \in n + 1..n |-> 0]
  <2>1. g = [p \in n + 1..n |-> RequestsAt(w, g, p)]
    <3>1. \A p \in n + 1..n : FALSE
      BY <1>1
    <3> HIDE DEF n
    <3> QED
      BY <3>1
  <2>2. From(g, n + 1 - 0)
    <3>1. n + 1 - 0 = n + 1
      BY <1>1
    <3> HIDE DEF g, n
    <3> QED
      BY <2>1, <3>1 DEF From
  <2> QED
    BY <2>2
<1>3. ASSUME NEW m \in Nat, m \in T, m + 1 <= n PROVE \E g : From(g, n + 1 - (m + 1))
  <2> DEFINE k == n - m
  <2>1. k \in 1..n /\ n + 1 - m = k + 1 /\ n + 1 - (m + 1) = k /\ m <= n
    BY <1>1, <1>3
  <2>2. PICK g : From(g, k + 1)
    BY <1>3, <2>1
  <2>3. g = [p \in k + 1..n |-> RequestsAt(w, g, p)]
    BY <2>2 DEF From
  <2> DEFINE h == [p \in k..n |-> RequestsAt(w, g, p)]
  <2> HIDE DEF k, T
  <2>4. \A p \in k + 1..n : p \in k..n /\ p \in 1..Len(w) + 1 /\ h[p] = g[p]
    <3>1. \A p \in k + 1..n : p \in k..n /\ p \in 1..n
      BY <1>1, <2>1
    <3>2. \A p \in k + 1..n : g[p] = RequestsAt(w, g, p)
      BY <2>3
    <3> QED
      BY <3>1, <3>2
  <2>5. ASSUME NEW p \in k..n PROVE RequestsAt(w, g, p) = RequestsAt(w, h, p)
    <3>1. p \in 1..Len(w) + 1 /\ \A q \in p + 1..Len(w) + 1 : q \in k + 1..n
      BY <1>1, <2>1
    <3>2. \A q \in p + 1..Len(w) + 1 : g[q] = h[q]
      BY <2>4, <3>1
    <3> HIDE DEF h
    <3> QED
      BY <3>1, <3>2, RequestsAhead
  <2>6. h = [p \in k..n |-> RequestsAt(w, h, p)]
    BY <2>5
  <2>7. From(h, k)
    <3> HIDE DEF h
    <3> QED
      BY <2>6 DEF From
  <2> QED
    BY <2>1, <2>7
<1>4. \A m \in Nat : m \in T => m + 1 \in T
  BY <1>3
<1> HIDE DEF T
<1>5. n \in T
  BY <1>1, <1>2, <1>4, NatInd
<1>6. PICK g : From(g, 1)
  <2>1. n + 1 - n = 1 /\ n <= n
    BY <1>1
  <2> QED
    BY <1>5, <2>1 DEF T
<1>7. g = [p \in 1..Len(w) + 1 |-> RequestsAt(w, g, p)]
  BY <1>6 DEF From
<1> QED
  BY <1>7 DEF RequestsOf

LEMMA RestFromIs ==
  ASSUME NEW w \in Seq(Bytes), NEW p \in 1..Len(w) + 1
  PROVE  RestFrom(w, p) = RequestsAt(w, RequestsOf(w), p)
BY RequestsOfIs DEF RestFrom

LEMMA RestFromTypeStep ==
  ASSUME NEW w \in Seq(Bytes), NEW p \in 1..Len(w) + 1, \A q \in p + 1..Len(w) + 1 : RestFrom(w, q) \in Seq(Asks(w))
  PROVE  RestFrom(w, p) \in Seq(Asks(w))
<1>1. CASE ~IsRequest(w, p)
  <2>1. RestFrom(w, p) = <<>>
    BY <1>1, RestFromIs DEF RequestsAt
  <2>2. <<>> \in Seq(Asks(w))
    OBVIOUS
  <2> QED
    BY <2>1, <2>2
<1>2. CASE IsRequest(w, p)
  <2>1. GoodBody(BodyAt(w, p), p, Len(w))
    BY <1>2, BodyAtType DEF IsRequest
  <2> DEFINE l == BodyAt(w, p).last
             rest == IF BodyAt(w, p).how = "whole" THEN RestFrom(w, l + 1) ELSE <<>>
  <2>2. RestFrom(w, p) = <<RequestAt(w, p)>> \o rest
    BY <1>2, RestFromIs DEF RequestsAt, RestFrom
  <2>3. BodyAt(w, p).how = "whole" => l + 1 \in p + 1..Len(w) + 1
    <3> HIDE DEF l
    <3>1. BodyAt(w, p).how = "whole" => l \in Nat /\ l >= p /\ l <= Len(w)
      BY <2>1 DEF GoodBody, l
    <3> QED
      BY <3>1
  <2>4. rest \in Seq(Asks(w))
    BY <2>3
  <2>5. <<RequestAt(w, p)>> \in Seq(Asks(w))
    <3>1. RequestAt(w, p) \in Asks(w)
      BY DEF Asks
    <3> QED
      BY <3>1
  <2> HIDE DEF rest
  <2> QED
    BY <2>2, <2>4, <2>5, Joined
<1> QED
  BY <1>1, <1>2

LEMMA RestFromType ==
  ASSUME NEW w \in Seq(Bytes), NEW p \in 1..Len(w) + 1
  PROVE  RestFrom(w, p) \in Seq(Asks(w))
<1> DEFINE n == Len(w) + 1
           Good(q) == RestFrom(w, q) \in Seq(Asks(w))
           T == {m \in Nat : \A q \in 1..n : q + m >= n => Good(q)}
<1>1. n \in Nat
  OBVIOUS
<1>2. \A q \in 1..n : (\A r \in q + 1..n : Good(r)) => Good(q)
  BY RestFromTypeStep
<1> HIDE DEF Good, n
<1>3. 0 \in T
  <2>1. \A q \in 1..n : q + 0 >= n => \A r \in q + 1..n : FALSE
    BY <1>1
  <2> QED
    BY <1>2, <2>1
<1>4. ASSUME NEW m \in Nat, m \in T PROVE m + 1 \in T
  <2>1. \A q \in 1..n : q + (m + 1) >= n => \A r \in q + 1..n : r \in 1..n /\ r + m >= n
    BY <1>1
  <2> QED
    BY <1>2, <1>4, <2>1
<1>5. \A m \in Nat : m \in T => m + 1 \in T
  BY <1>4
<1> HIDE DEF T
<1>6. n \in T
  BY <1>1, <1>3, <1>5, NatInd
<1>7. p \in 1..n /\ p + n >= n
  BY <1>1 DEF n
<1>8. Good(p)
  BY <1>6, <1>7 DEF T
<1> QED
  BY <1>8 DEF Good

(* The k-th request of w, and what follows it. *)
After(w, r) == IF r.how = "whole" THEN RestFrom(w, r.last + 1) ELSE <<>>
Turn(w, k) ==
  /\ k \in Nat \ {0} /\ k <= Len(Requests(w)) /\ Len(Requests(w)) \in Nat
  /\ GoodBody(Requests(w)[k], 1, Len(w))
  /\ \E s \in Seq(Asks(w)) : Len(s) = k /\ s[k] = Requests(w)[k] /\ Requests(w) = s \o After(w, s[k])

(* The request behind the first k begins at p. *)
NextIs(w, k, p) ==
  \E s \in Seq(Asks(w)) :
    /\ Len(s) = k /\ Requests(w) = s \o RestFrom(w, p)
    /\ IF k = 0 THEN p = 1 ELSE Requests(w)[k].how = "whole" /\ p = Requests(w)[k].last + 1

LEMMA ElementOfJoin ==
  ASSUME NEW S, NEW s \in Seq(S), NEW t \in Seq(S), NEW k \in 1..Len(s)
  PROVE  (s \o t)[k] = s[k]
OBVIOUS

LEMMA OneMore ==
  ASSUME NEW S, NEW s \in Seq(S), NEW t \in Seq(S), NEW m \in Nat, Len(s) = m, Len(t) = 1
  PROVE  (s \o t)[m + 1] = t[1]
<1>1. m + 1 \in 1..m + 1 /\ ~(m + 1 <= m) /\ (m + 1) - m = 1
  OBVIOUS
<1> QED
  BY <1>1, ConcatProperties

LEMMA JoinAssocIn ==
  ASSUME NEW S, NEW r \in Seq(S), NEW s \in Seq(S), NEW t \in Seq(S)
  PROVE  (r \o s) \o t = r \o (s \o t)
OBVIOUS

LEMMA FirstNext == ASSUME NEW w \in Seq(Bytes) PROVE NextIs(w, 0, 1)
<1>1. RestFrom(w, 1) \in Seq(Asks(w))
  <2>1. 1 \in 1..Len(w) + 1
    OBVIOUS
  <2> QED
    BY <2>1, RestFromType
<1>2. <<>> \in Seq(Asks(w)) /\ Len(<<>>) = 0 /\ <<>> \o RestFrom(w, 1) = RestFrom(w, 1)
  BY <1>1
<1> QED
  BY <1>2, RequestsIs DEF NextIs

LEMMA RequestAtGood ==
  ASSUME NEW w \in Seq(Bytes), NEW p \in Nat \ {0}, IsRequest(w, p)
  PROVE  /\ GoodBody(RequestAt(w, p), p, Len(w)) /\ RequestAt(w, p).first = p
         /\ RequestAt(w, p).body = BodyAt(w, p).body /\ RequestAt(w, p).last = BodyAt(w, p).last
         /\ RequestAt(w, p).how = BodyAt(w, p).how
<1>1. GoodBody(BodyAt(w, p), p, Len(w))
  BY BodyAtType DEF IsRequest
<1> DEFINE r == RequestAt(w, p)
<1>2. r.first = p /\ r.body = BodyAt(w, p).body /\ r.last = BodyAt(w, p).last /\ r.how = BodyAt(w, p).how
  BY DEF RequestAt
<1> HIDE DEF r
<1> QED
  BY <1>1, <1>2 DEF GoodBody, r

LEMMA TurnBegins ==
  ASSUME NEW w \in Seq(Bytes), NEW k \in Nat, NEW p \in 1..Len(w) + 1, NextIs(w, k, p), IsRequest(w, p)
  PROVE  Turn(w, k + 1) /\ Requests(w)[k + 1] = RequestAt(w, p)
<1> DEFINE r == RequestAt(w, p)
<1>0. p \in Nat \ {0}
  OBVIOUS
<1>1. PICK s \in Seq(Asks(w)) : Len(s) = k /\ Requests(w) = s \o RestFrom(w, p)
  BY DEF NextIs
<1>2. r.last = BodyAt(w, p).last /\ r.how = BodyAt(w, p).how /\ GoodBody(r, p, Len(w))
  BY <1>0, RequestAtGood
<1>3. RestFrom(w, p) = <<r>> \o After(w, r)
  BY <1>2, RestFromIs DEF RequestsAt, After, RestFrom
<1>4. r \in Asks(w)
  BY <1>0 DEF Asks
<1> HIDE DEF r
<1>5. After(w, r) \in Seq(Asks(w))
  <2>1. CASE r.how = "whole"
    <3> DEFINE q == r.last + 1
    <3>1. q \in 1..Len(w) + 1
      BY <1>2, <2>1 DEF GoodBody
    <3> HIDE DEF q
    <3>2. RestFrom(w, q) \in Seq(Asks(w))
      BY <3>1, RestFromType
    <3> QED
      BY <2>1, <3>2 DEF After, q
  <2>2. CASE r.how # "whole"
    <3>1. <<>> \in Seq(Asks(w))
      OBVIOUS
    <3> QED
      BY <2>2, <3>1 DEF After
  <2> QED
    BY <2>1, <2>2
<1> DEFINE t == s \o <<r>>
<1>6. t \in Seq(Asks(w)) /\ Len(t) = k + 1 /\ t[k + 1] = r
  <2>1. <<r>> \in Seq(Asks(w)) /\ Len(<<r>>) = 1 /\ <<r>>[1] = r
    BY <1>4
  <2> DEFINE u == <<r>>
  <2>2. u \in Seq(Asks(w)) /\ Len(u) = 1 /\ u[1] = r
    BY <2>1
  <2> HIDE DEF u
  <2>3. (s \o u)[k + 1] = u[1]
    BY <1>1, <2>2, OneMore
  <2>4. s \o u \in Seq(Asks(w)) /\ Len(s \o u) = k + 1
    BY <1>1, <2>2, Joined
  <2> QED
    BY <2>2, <2>3, <2>4 DEF u
<1>7. Requests(w) = t \o After(w, r)
  <2>1. <<r>> \in Seq(Asks(w))
    BY <1>4
  <2> QED
    BY <1>1, <1>3, <1>5, <2>1, JoinAssocIn
<1> HIDE DEF t
<1>8. Requests(w) \in Seq(Asks(w)) /\ Len(Requests(w)) = (k + 1) + Len(After(w, r))
  BY <1>5, <1>6, <1>7, Joined
<1>9. Requests(w)[k + 1] = r
  <2>1. k + 1 \in 1..Len(t)
    BY <1>6
  <2> QED
    BY <1>5, <1>6, <1>7, <2>1, ElementOfJoin
<1>10. Len(Requests(w)) \in Nat /\ k + 1 <= Len(Requests(w)) /\ k + 1 \in Nat \ {0}
  <2>1. Len(After(w, r)) \in Nat
    BY <1>5
  <2> QED
    BY <1>8, <2>1
<1>11. GoodBody(r, 1, Len(w))
  <2>1. r.how = "whole" => r.last >= 1
    BY <1>2 DEF GoodBody
  <2> QED
    BY <1>2, <2>1 DEF GoodBody
<1> QED
  BY <1>6, <1>7, <1>9, <1>10, <1>11 DEF Turn, r

LEMMA TurnEnds ==
  ASSUME NEW w \in Seq(Bytes), NEW k, Turn(w, k), Requests(w)[k].how = "whole"
  PROVE  NextIs(w, k, Requests(w)[k].last + 1)
BY DEF Turn, NextIs, After

LEMMA TurnIsLast ==
  ASSUME NEW w \in Seq(Bytes), NEW k, Turn(w, k), Requests(w)[k].how # "whole"
  PROVE  Requests(w) # <<>> /\ Last(Requests(w)) = Requests(w)[k]
<1>1. PICK s \in Seq(Asks(w)) : Len(s) = k /\ s[k] = Requests(w)[k] /\ Requests(w) = s \o After(w, s[k])
  BY DEF Turn
<1>2. Requests(w) = s
  <2>1. After(w, s[k]) = <<>>
    BY <1>1 DEF After
  <2>2. s \o <<>> = s
    OBVIOUS
  <2> QED
    BY <1>1, <2>1, <2>2
<1>3. k \in Nat \ {0}
  BY DEF Turn
<1> QED
  BY <1>1, <1>2, <1>3 DEF Last

-----------------------------------------------------------------------------
(* A line that the code has read to its end is the one that begins at its  *)
(* first place, and says the same size.                                    *)

Stop(text, stops) == SelectInSeq(text, LAMBDA b : b \in stops)
Semi(text) == Stop(text, {";"})
SizeIn(text) ==
  LET digits == IF Semi(text) = 0 THEN text ELSE SubSeq(text, 1, Semi(text) - 1)
  IN  IF digits = <<>> \/ \E i \in DOMAIN digits : digits[i] \notin DOMAIN Digit THEN -1
      ELSE Hex(digits)

LEMMA SubSeqIs ==
  ASSUME NEW S, NEW s \in Seq(S), NEW m \in Nat, NEW n \in Nat, m >= 1, n <= Len(s)
  PROVE  /\ SubSeq(s, m, n) \in Seq(S)
         /\ n >= m - 1 => Len(SubSeq(s, m, n)) = n + 1 - m /\ \A i \in 1..n + 1 - m : SubSeq(s, m, n)[i] = s[m + i - 1]
<1>1. ASSUME NEW i \in m..n PROVE s[i] \in S
  <2>1. i \in 1..Len(s)
    OBVIOUS
  <2> QED
    BY <2>1
<1> QED
  BY <1>1

LEMMA Before ==
  ASSUME NEW m \in Nat, NEW n \in Nat, m \in 1..n, NEW k \in 1..n, m <= k
  PROVE  m \in 1..k - 1 \/ m = k
OBVIOUS

LEMMA StopIs ==
  ASSUME NEW text \in Seq(Bytes), NEW n \in Nat, Len(text) = n, NEW stops
  PROVE  /\ (\A i \in 1..n : text[i] \notin stops) => Stop(text, stops) = 0
         /\ \A k \in 1..n : text[k] \in stops /\ (\A i \in 1..k - 1 : text[i] \notin stops) => Stop(text, stops) = k
         /\ Stop(text, stops) = 0 \/ (Stop(text, stops) \in 1..n /\ text[Stop(text, stops)] \in stops)
<1> DEFINE found == {i \in 1..n : text[i] \in stops}
<1>1. Stop(text, stops) = IF found # {} THEN Min(found) ELSE 0
  BY DEF Stop, SelectInSeq
<1>2. found \in SUBSET Nat /\ \A i \in found : i \in 1..n /\ text[i] \in stops
  <2>1. \A i \in 1..n : i \in Nat
    OBVIOUS
  <2>2. \A i \in found : i \in 1..n /\ text[i] \in stops
    OBVIOUS
  <2> QED
    BY <2>1, <2>2
<1>3. found # {} => Min(found) \in found /\ \A i \in found : Min(found) <= i
  <2> HIDE DEF found
  <2> QED
    BY <1>2, MinOf
<1>4. ASSUME NEW k \in 1..n, text[k] \in stops, \A i \in 1..k - 1 : text[i] \notin stops PROVE Stop(text, stops) = k
  <2>1. k \in found
    BY <1>4
  <2> HIDE DEF found
  <2>2. PICK m \in Nat : m = Min(found)
    BY <1>2, <1>3, <2>1
  <2>3. m \in 1..n /\ text[m] \in stops /\ m <= k
    BY <1>2, <1>3, <2>1, <2>2
  <2>4. m \in 1..k - 1 \/ m = k
    BY <2>3, Before
  <2>5. m = k
    BY <1>4, <2>3, <2>4
  <2> QED
    BY <1>1, <2>1, <2>2, <2>5
<1>5. (\A i \in 1..n : text[i] \notin stops) => found = {}
  OBVIOUS
<1> HIDE DEF found
<1> QED
  BY <1>1, <1>2, <1>3, <1>4, <1>5

LEMMA SemiIs ==
  ASSUME NEW text \in Seq(Bytes), NEW n \in Nat, Len(text) = n
  PROVE  /\ (\A i \in 1..n : text[i] # ";") => Semi(text) = 0
         /\ \A k \in 1..n : text[k] = ";" /\ (\A i \in 1..k - 1 : text[i] # ";") => Semi(text) = k
         /\ Semi(text) = 0 \/ (Semi(text) \in 1..n /\ text[Semi(text)] = ";")
<1>1. \A b : b \in {";"} <=> b = ";"
  OBVIOUS
<1> QED
  BY <1>1, StopIs DEF Semi

LEMMA SizeInText ==
  ASSUME NEW text \in Seq(Bytes), NEW n \in Nat \ {0}, Len(text) = n
  PROVE  /\ (\A i \in 1..n : text[i] \in Digits) => SizeIn(text) = Hex(text)
         /\ \A k \in 1..n : (\A i \in 1..k - 1 : text[i] \in Digits) /\ text[k] \notin Digits =>
              SizeIn(text) = IF text[k] = ";" /\ k > 1 THEN Hex(SubSeq(text, 1, k - 1)) ELSE -1
<1> DEFINE Answer(d) == IF d = <<>> \/ \E i \in DOMAIN d : d[i] \notin Digits THEN -1 ELSE Hex(d)
<1>1. Semi(text) = 0 => SizeIn(text) = Answer(text)
  BY DEF SizeIn, Digits
<1>2. Semi(text) # 0 => SizeIn(text) = Answer(SubSeq(text, 1, Semi(text) - 1))
  BY DEF SizeIn, Digits
<1>3. ";" \notin Digits
  BY DEF Digits, Digit
<1>4. ASSUME \A i \in 1..n : text[i] \in Digits PROVE SizeIn(text) = Hex(text)
  <2>1. Semi(text) = 0
    BY <1>3, <1>4, SemiIs
  <2>2. text # <<>> /\ DOMAIN text = 1..n
    OBVIOUS
  <2> QED
    BY <1>1, <1>4, <2>1, <2>2
<1>5. ASSUME NEW k \in 1..n, \A i \in 1..k - 1 : text[i] \in Digits, text[k] \notin Digits
      PROVE  SizeIn(text) = IF text[k] = ";" /\ k > 1 THEN Hex(SubSeq(text, 1, k - 1)) ELSE -1
  <2>1. CASE text[k] = ";"
    <3>1. Semi(text) = k
      BY <1>3, <1>5, <2>1, SemiIs
    <3> DEFINE d == SubSeq(text, 1, k - 1)
    <3>2. d \in Seq(Bytes) /\ Len(d) = k - 1 /\ \A i \in 1..k - 1 : d[i] = text[i]
      <4>1. k - 1 \in Nat /\ k - 1 <= Len(text) /\ k - 1 >= 1 - 1 /\ (k - 1) + 1 - 1 = k - 1
            /\ \A i \in 1..k - 1 : 1 + i - 1 = i
        OBVIOUS
      <4> QED
        BY <4>1, SubSeqIs
    <3>3. SizeIn(text) = Answer(d)
      BY <1>2, <3>1
    <3> HIDE DEF d
    <3>4. DOMAIN d = 1..k - 1 /\ (d = <<>> <=> ~(k > 1))
      BY <3>2
    <3>5. \A i \in DOMAIN d : d[i] \in Digits
      BY <1>5, <3>2, <3>4
    <3>6. Answer(d) = IF k > 1 THEN Hex(d) ELSE -1
      BY <3>4, <3>5
    <3> QED
      BY <2>1, <3>3, <3>6 DEF d
  <2>2. CASE text[k] # ";" /\ Semi(text) = 0
    <3>1. k \in DOMAIN text
      OBVIOUS
    <3> QED
      BY <1>1, <1>5, <2>2, <3>1
  <2>3. CASE text[k] # ";" /\ Semi(text) # 0
    <3>1. PICK m \in 1..n : m = Semi(text) /\ text[m] = ";"
      BY <2>3, SemiIs
    <3>2. m > k
      <4>1. m # k
        BY <2>3, <3>1
      <4>2. ~(m < k)
        <5> SUFFICES ASSUME m < k PROVE FALSE
          OBVIOUS
        <5>1. m \in 1..k - 1
          OBVIOUS
        <5> QED
          BY <1>3, <1>5, <3>1, <5>1
      <4> QED
        BY <4>1, <4>2
    <3> DEFINE d == SubSeq(text, 1, m - 1)
    <3>3. d \in Seq(Bytes) /\ Len(d) = m - 1 /\ \A i \in 1..m - 1 : d[i] = text[i]
      <4>1. m - 1 \in Nat /\ m - 1 <= Len(text) /\ m - 1 >= 1 - 1 /\ (m - 1) + 1 - 1 = m - 1
            /\ \A i \in 1..m - 1 : 1 + i - 1 = i
        OBVIOUS
      <4> QED
        BY <4>1, SubSeqIs
    <3>4. SizeIn(text) = Answer(d)
      BY <1>2, <2>3, <3>1
    <3> HIDE DEF d
    <3>5. k \in 1..m - 1
      BY <3>2
    <3>6. k \in DOMAIN d /\ d[k] \notin Digits
      BY <1>5, <3>3, <3>5
    <3> QED
      BY <2>3, <3>4, <3>6
  <2> QED
    BY <2>1, <2>2, <2>3
<1> QED
  BY <1>4, <1>5

LEMMA SubSeqOfBoth ==
  ASSUME NEW w \in Seq(Bytes), NEW p \in Nat \ {0}, NEW text \in Seq(Bytes), NEW n \in Nat, Len(text) = n,
         p + n - 1 <= Len(w), \A i \in 1..n : text[i] = w[p + i - 1], NEW j \in 0..n
  PROVE  SubSeq(w, p, p + j - 1) = SubSeq(text, 1, j)
<1> DEFINE s == SubSeq(w, p, p + j - 1)
           t == SubSeq(text, 1, j)
<1>1. p + j - 1 \in Nat /\ p >= 1 /\ p + j - 1 >= p - 1 /\ (p + j - 1) + 1 - p = j /\ p + j - 1 <= Len(w)
  OBVIOUS
<1>2. s \in Seq(Bytes) /\ Len(s) = j /\ \A i \in 1..j : s[i] = w[p + i - 1]
  BY <1>1, SubSeqIs
<1>3. j \in Nat /\ j <= Len(text) /\ j >= 1 - 1 /\ j + 1 - 1 = j /\ \A i \in 1..j : 1 + i - 1 = i /\ i \in 1..n
  OBVIOUS
<1>4. t \in Seq(Bytes) /\ Len(t) = j /\ \A i \in 1..j : t[i] = text[i]
  BY <1>3, SubSeqIs
<1>5. \A i \in 1..j : s[i] = t[i]
  BY <1>2, <1>3, <1>4
<1> HIDE DEF s, t
<1>6. s = t
  BY <1>2, <1>4, <1>5
<1> QED
  BY <1>6 DEF s, t

LEMMA SizeInIs ==
  ASSUME NEW w \in Seq(Bytes), NEW p \in Nat \ {0}, NEW text \in Seq(Bytes), NEW n \in Nat \ {0}, Len(text) = n,
         p + n - 1 <= Len(w), \A i \in 1..n : text[i] = w[p + i - 1]
  PROVE  SizeIn(text) = SizeOf(w, p, p + n - 1)
<1> DEFINE other == {i \in p..p + n - 1 : w[i] \notin DOMAIN Digit}
           Answer(last) == IF last < p \/ (other # {} /\ w[last + 1] # ";") THEN -1 ELSE Hex(SubSeq(w, p, last))
<1>1. SizeOf(w, p, p + n - 1) = Answer(IF other = {} THEN p + n - 1 ELSE Min(other) - 1)
  BY DEF SizeOf
<1>2. \A i \in 1..n : p + i - 1 \in p..p + n - 1
  OBVIOUS
<1>3. CASE other = {}
  <2>1. \A i \in 1..n : text[i] \in Digits
    BY <1>2, <1>3 DEF Digits
  <2>2. SizeIn(text) = Hex(text)
    BY <2>1, SizeInText
  <2>3. SubSeq(w, p, p + n - 1) = SubSeq(text, 1, n) /\ SubSeq(text, 1, n) = text
    <3>1. n \in 0..n /\ SubSeq(text, 1, Len(text)) = text
      OBVIOUS
    <3>2. SubSeq(w, p, p + n - 1) = SubSeq(text, 1, n)
      BY <3>1, SubSeqOfBoth
    <3> QED
      BY <3>1, <3>2
  <2>4. ~(p + n - 1 < p)
    OBVIOUS
  <2> QED
    BY <1>1, <1>3, <2>2, <2>3, <2>4
<1>4. CASE other # {}
  <2>1. other \in SUBSET Nat /\ \A i \in other : i \in p..p + n - 1 /\ w[i] \notin Digits
    BY DEF Digits
  <2>2. \A i \in p..p + n - 1 : w[i] \notin Digits => i \in other
    BY DEF Digits
  <2> HIDE DEF other
  <2>3. PICK m \in Nat : m = Min(other) /\ m \in other /\ \A i \in other : m <= i
    BY <1>4, <2>1, MinOf
  <2>4. m \in p..p + n - 1 /\ w[m] \notin Digits
    BY <2>1, <2>3
  <2>5. PICK k \in 1..n : m = p + k - 1
    <3>1. m - p + 1 \in 1..n /\ m = p + (m - p + 1) - 1
      BY <2>4
    <3> QED
      BY <3>1
  <2>6. text[k] = w[m]
    BY <2>5
  <2>7. ASSUME NEW i \in 1..k - 1 PROVE text[i] \in Digits
    <3>1. p + i - 1 \in p..p + n - 1 /\ ~(m <= p + i - 1) /\ i \in 1..n
      BY <2>5
    <3> QED
      BY <2>2, <2>3, <3>1
  <2>8. SizeIn(text) = IF text[k] = ";" /\ k > 1 THEN Hex(SubSeq(text, 1, k - 1)) ELSE -1
    BY <2>4, <2>6, <2>7, SizeInText
  <2>9. SubSeq(w, p, m - 1) = SubSeq(text, 1, k - 1)
    <3>1. k - 1 \in 0..n /\ m - 1 = p + (k - 1) - 1
      BY <2>5
    <3> QED
      BY <3>1, SubSeqOfBoth
  <2>10. (m - 1 < p <=> ~(k > 1)) /\ (m - 1) + 1 = m
    BY <2>5
  <2>11. SizeOf(w, p, p + n - 1) = Answer(m - 1)
    BY <1>1, <1>4, <2>3
  <2>12. Answer(m - 1) = IF ~(k > 1) \/ w[m] # ";" THEN -1 ELSE Hex(SubSeq(text, 1, k - 1))
    BY <1>4, <2>9, <2>10
  <2> QED
    BY <2>6, <2>8, <2>11, <2>12
<1> QED
  BY <1>3, <1>4

(* What strtoul() makes of a line is a number or an error; of digits it    *)
(* makes the number that they say, or the largest that it has.             *)
LEMMA UpToIs ==
  ASSUME NEW text \in Seq(Bytes), NEW stops
  PROVE  /\ UpTo(text, stops) = IF Stop(text, stops) = 0 THEN text ELSE SubSeq(text, 1, Stop(text, stops) - 1)
         /\ UpTo(text, stops) \in Seq(Bytes)
<1> DEFINE k == Stop(text, stops)
<1>1. UpTo(text, stops) = IF k = 0 THEN text ELSE SubSeq(text, 1, k - 1)
  BY DEF UpTo, Stop
<1>2. k = 0 \/ k \in 1..Len(text)
  BY StopIs
<1> HIDE DEF k
<1>3. k # 0 => SubSeq(text, 1, k - 1) \in Seq(Bytes)
  <2> SUFFICES ASSUME k # 0 PROVE SubSeq(text, 1, k - 1) \in Seq(Bytes)
    OBVIOUS
  <2>1. k - 1 \in Nat /\ k - 1 <= Len(text) /\ 1 \in Nat /\ 1 >= 1
    BY <1>2
  <2> QED
    BY <2>1, SubSeqIs
<1> QED
  BY <1>1, <1>3 DEF k

LEMMA NoBlanksIs ==
  ASSUME NEW text \in Seq(Bytes)
  PROVE  /\ NoBlanks(text) \in Seq(Bytes)
         /\ Len(text) >= 1 /\ text[1] \notin Blanks => NoBlanks(text) = text
<1> DEFINE found == {i \in 1..Len(text) : text[i] \notin Blanks}
           k == IF found # {} THEN Min(found) ELSE 0
<1>1. NoBlanks(text) = IF k = 0 THEN <<>> ELSE SubSeq(text, k, Len(text))
  BY DEF NoBlanks, SelectInSeq
<1>2. Len(text) \in Nat /\ <<>> \in Seq(Bytes)
  OBVIOUS
<1>3. found \in SUBSET Nat /\ \A i \in found : i \in 1..Len(text)
  OBVIOUS
<1>4. Len(text) >= 1 /\ text[1] \notin Blanks => 1 \in found
  BY <1>2
<1> HIDE DEF found
<1>5. found # {} => Min(found) \in found /\ \A i \in found : Min(found) <= i
  BY <1>3, MinOf
<1>6. k = 0 \/ k \in 1..Len(text)
  BY <1>3, <1>5
<1>7. 1 \in found => k = 1
  <2> SUFFICES ASSUME 1 \in found PROVE k = 1
    OBVIOUS
  <2>1. PICK m \in 1..Len(text) : m = Min(found)
    BY <1>3, <1>5
  <2>2. m <= 1
    BY <1>5, <2>1
  <2> QED
    BY <2>1, <2>2
<1> HIDE DEF k
<1>8. k # 0 => SubSeq(text, k, Len(text)) \in Seq(Bytes)
  BY <1>2, <1>6, SubSeqIs
<1>9. SubSeq(text, 1, Len(text)) = text
  OBVIOUS
<1> QED
  BY <1>1, <1>2, <1>4, <1>7, <1>8, <1>9

LEMMA Widths == Word \in Nat \ {0} /\ Long \in Nat /\ Word <= Long /\ Long - 1 \in Nat
BY WidthsAssumption

LEMMA ChunkSizeType ==
  ASSUME NEW text \in Seq(Bytes)
  PROVE  ChunkSize(text) \in Nat \cup {-1}
<1> DEFINE sign == IF text # <<>> /\ text[1] \in {"+", "-"} THEN 1 ELSE 0
           hex == IF Len(text) > sign + 1 /\ text[sign + 1] = "0" /\ text[sign + 2] = "x" THEN 2 ELSE 0
           d == SubSeq(text, sign + hex + 1, Len(text))
           size == Hex(d)
<1>1. ChunkSize(text) = IF d = <<>> \/ \E i \in DOMAIN d : d[i] \notin DOMAIN Digit THEN -1
                        ELSE IF size >= Long THEN Long - 1
                        ELSE IF text[1] = "-" /\ size > 0 THEN Long - size ELSE size
  BY DEF ChunkSize
<1>2. sign + hex + 1 \in Nat /\ sign + hex + 1 >= 1
  OBVIOUS
<1> HIDE DEF sign, hex
<1>3. d \in Seq(Bytes)
  BY <1>2, SubSeqIs
<1> HIDE DEF d
<1>4. (\A i \in DOMAIN d : d[i] \in DOMAIN Digit) => size \in Nat
  <2> SUFFICES ASSUME \A i \in DOMAIN d : d[i] \in DOMAIN Digit PROVE size \in Nat
    OBVIOUS
  <2>1. d \in Seq(Digits)
    BY <1>3 DEF Digits
  <2> QED
    BY <2>1, HexType
<1> HIDE DEF size
<1> QED
  BY <1>1, <1>4, Widths

LEMMA DigitsSize ==
  ASSUME NEW d \in Seq(Digits), d # <<>>
  PROVE  /\ Hex(d) \in Nat /\ NoBlanks(d) = d
         /\ ChunkSize(d) = IF Hex(d) < Long THEN Hex(d) ELSE Long - 1
<1>1. Len(d) \in Nat /\ Len(d) >= 1 /\ \A i \in 1..Len(d) : d[i] \in Digits
  OBVIOUS
<1>2. \A b \in Digits : b \in Bytes /\ b \notin Blanks /\ b \notin {"+", "-"} /\ b # "x"
  BY DEF Digits, Digit, Blanks, Bytes
<1>3. d[1] \notin Blanks /\ d[1] \notin {"+", "-"} /\ d[1] # "-" /\ (Len(d) > 1 => d[2] # "x")
  <2>1. 1 \in 1..Len(d) /\ (Len(d) > 1 => 2 \in 1..Len(d))
    BY <1>1
  <2> QED
    BY <1>1, <1>2, <2>1
<1>4. NoBlanks(d) = d
  <2>1. d \in Seq(Bytes)
    BY <1>1, <1>2
  <2> QED
    BY <1>1, <1>3, <2>1, NoBlanksIs
<1>5. Hex(d) \in Nat
  BY HexType
<1>6. ChunkSize(d) = IF Hex(d) >= Long THEN Long - 1 ELSE Hex(d)
  <2> DEFINE sign == IF d # <<>> /\ d[1] \in {"+", "-"} THEN 1 ELSE 0
             hex == IF Len(d) > sign + 1 /\ d[sign + 1] = "0" /\ d[sign + 2] = "x" THEN 2 ELSE 0
             t == SubSeq(d, sign + hex + 1, Len(d))
  <2>1. ChunkSize(d) = IF t = <<>> \/ \E i \in DOMAIN t : t[i] \notin DOMAIN Digit THEN -1
                       ELSE IF Hex(t) >= Long THEN Long - 1
                       ELSE IF d[1] = "-" /\ Hex(t) > 0 THEN Long - Hex(t) ELSE Hex(t)
    BY DEF ChunkSize
  <2>2. sign = 0
    BY <1>3
  <2>3. hex = 0
    <3> HIDE DEF sign
    <3>1. sign + 1 = 1 /\ sign + 2 = 2
      BY <2>2
    <3> QED
      BY <1>3, <3>1
  <2>4. t = d
    <3> HIDE DEF sign, hex
    <3>1. sign + hex + 1 = 1
      BY <2>2, <2>3
    <3>2. SubSeq(d, 1, Len(d)) = d
      OBVIOUS
    <3> QED
      BY <3>1, <3>2
  <2> HIDE DEF t
  <2>5. \A i \in DOMAIN d : d[i] \in DOMAIN Digit
    BY <1>1 DEF Digits
  <2> QED
    BY <1>3, <2>1, <2>4, <2>5
<1> QED
  BY <1>4, <1>5, <1>6, Widths

LEMMA SizeInDigits ==
  ASSUME NEW text \in Seq(Bytes), SizeIn(text) # -1
  PROVE  \E d \in Seq(Digits) : d # <<>> /\ SizeIn(text) = Hex(d) /\ UpTo(text, {";", "NUL"}) = d
<1> DEFINE d == IF Semi(text) = 0 THEN text ELSE SubSeq(text, 1, Semi(text) - 1)
           stops == {";", "NUL"}
<1>1. SizeIn(text) = IF d = <<>> \/ \E i \in DOMAIN d : d[i] \notin DOMAIN Digit THEN -1 ELSE Hex(d)
  BY DEF SizeIn
<1>2. PICK n \in Nat : n = Len(text)
  OBVIOUS
<1>3. Semi(text) = 0 \/ (Semi(text) \in 1..n /\ text[Semi(text)] = ";")
  BY <1>2, SemiIs
<1>4. \A b \in Digits : b \notin stops
  BY DEF Digits, Digit
<1> HIDE DEF stops
<1>5. d # <<>> /\ SizeIn(text) = Hex(d) /\ \A i \in DOMAIN d : d[i] \in Digits
  <2> HIDE DEF d
  <2> QED
    BY <1>1 DEF Digits
<1>6. CASE Semi(text) = 0
  <2>1. d = text /\ text \in Seq(Digits) /\ \A i \in 1..n : text[i] \in Digits
    BY <1>2, <1>5, <1>6
  <2>2. Stop(text, stops) = 0
    BY <1>2, <1>4, <2>1, StopIs
  <2>3. UpTo(text, stops) = text
    BY <2>2, UpToIs
  <2> HIDE DEF d
  <2> QED
    BY <1>5, <2>1, <2>3 DEF stops
<1>7. CASE Semi(text) # 0
  <2>1. PICK k \in 1..n : k = Semi(text) /\ text[k] = ";"
    BY <1>3, <1>7
  <2>2. d = SubSeq(text, 1, k - 1)
    BY <1>7, <2>1
  <2> HIDE DEF d
  <2>3. d \in Seq(Bytes) /\ Len(d) = k - 1 /\ \A i \in 1..k - 1 : d[i] = text[i]
    <3>1. k - 1 \in Nat /\ k - 1 <= Len(text) /\ k - 1 >= 1 - 1 /\ (k - 1) + 1 - 1 = k - 1
          /\ \A i \in 1..k - 1 : 1 + i - 1 = i
      BY <1>2
    <3> QED
      BY <2>2, <3>1, SubSeqIs
  <2>4. d \in Seq(Digits) /\ \A i \in 1..k - 1 : text[i] \in Digits
    BY <1>5, <2>3
  <2>5. text[k] \in stops /\ text \in Seq(Bytes)
    BY <2>1 DEF stops
  <2>6. Stop(text, stops) = k
    <3>1. \A i \in 1..k - 1 : text[i] \notin stops
      BY <1>4, <2>4
    <3> QED
      BY <1>2, <2>5, <3>1, StopIs
  <2>7. UpTo(text, stops) = d
    BY <2>2, <2>6, UpToIs
  <2> QED
    BY <1>5, <2>4, <2>7 DEF stops
<1> QED
  BY <1>6, <1>7

-----------------------------------------------------------------------------
(* Where the bytes are that the code has taken and not yet used: in the    *)
(* buffer, in the line, in the payload and among the pending ones, one     *)
(* behind the other up to the last one taken.                              *)

Region(b, s, n, p) == s + n <= BufMax /\ \A k \in 0..n - 1 : b[s + k] = p + k
Run(s, p) == \A k \in DOMAIN s : s[k] = p + k - 1
ReaderType ==
  [chunked : BOOLEAN, complete : BOOLEAN, left : Nat, length : Nat, payload : Nat, plen : Nat]

LaySizes(N, b, f, ln, r, pe, g, p) ==
  /\ b = NoBuffer \/ b \in [Slots -> 0..N]
  /\ f \in 0..BufMax /\ ln \in Seq(Nat) /\ Len(ln) < LineMax /\ pe \in Seq(Nat) /\ Len(pe) <= BufMax
  /\ N \in Nat /\ g \in 0..N /\ p \in Nat \ {0} /\ r \in ReaderType
  /\ r.payload = 0 <=> r.plen = 0
  /\ r.payload + r.plen <= BufMax
  /\ p + f + Len(ln) + r.plen + Len(pe) = g + 1
  /\ r.plen > 0 => f <= r.payload
LayBytes(b, f, ln, r, pe, p) ==
  /\ f > 0 => Region(b, 0, f, p)
  /\ Run(ln, p + f)
  /\ r.plen > 0 => Region(b, r.payload, r.plen, p + f + Len(ln))
  /\ Run(pe, p + f + Len(ln) + r.plen)
Lay(N, b, f, ln, r, pe, g, p) == LaySizes(N, b, f, ln, r, pe, g, p) /\ LayBytes(b, f, ln, r, pe, p)

LEMMA RegionPart ==
  ASSUME NEW b, NEW s \in Nat, NEW n \in Nat, NEW p \in Nat, NEW i \in Nat, NEW m \in Nat, i + m <= n, Region(b, s, n, p)
  PROVE  Region(b, s + i, m, p + i)
<1>1. s + n <= BufMax /\ BufMax \in Nat
  BY Sizes DEF Region
<1>2. ASSUME NEW k \in 0..m - 1 PROVE b[s + i + k] = p + i + k
  <2>1. i + k \in 0..n - 1
    OBVIOUS
  <2>2. b[s + (i + k)] = p + (i + k)
    BY <2>1 DEF Region
  <2>3. s + (i + k) = s + i + k /\ p + (i + k) = p + i + k
    OBVIOUS
  <2> QED
    BY <2>2, <2>3
<1> QED
  BY <1>1, <1>2 DEF Region

LEMMA RegionWritten ==
  ASSUME NEW b, NEW c, NEW f \in Nat, NEW n \in Nat, NEW p \in Nat, f + n <= BufMax,
         f > 0 => Region(b, 0, f, p),
         \A i \in Slots : i < f => c[i] = b[i],
         \A k \in 0..n - 1 : c[f + k] = p + f + k
  PROVE  Region(c, 0, f + n, p)
<1>1. BufMax \in Nat
  BY Sizes
<1>2. ASSUME NEW k \in 0..(f + n) - 1 PROVE c[0 + k] = p + k
  <2>1. CASE k < f
    <3>1. k \in Slots /\ k \in 0..f - 1 /\ 0 + k = k /\ f > 0
      BY <1>1, <2>1, Sizes
    <3>2. b[0 + k] = p + k
      BY <3>1 DEF Region
    <3> QED
      BY <2>1, <3>1, <3>2
  <2>2. CASE ~(k < f)
    <3>1. k - f \in 0..n - 1 /\ f + (k - f) = k /\ p + f + (k - f) = p + k /\ 0 + k = k
      BY <2>2
    <3>2. c[f + (k - f)] = p + f + (k - f)
      BY <3>1
    <3> QED
      BY <3>1, <3>2
  <2> QED
    BY <2>1, <2>2
<1> QED
  BY <1>1, <1>2 DEF Region

LEMMA RegionKept ==
  ASSUME NEW b, NEW c, NEW s \in Nat, NEW n \in Nat, NEW p, Region(b, s, n, p),
         \A i \in Slots : i >= s => c[i] = b[i]
  PROVE  Region(c, s, n, p)
<1>1. s + n <= BufMax /\ BufMax \in Nat
  BY Sizes DEF Region
<1>2. ASSUME NEW k \in 0..n - 1 PROVE c[s + k] = p + k
  <2>1. s + k \in Slots /\ s + k >= s
    BY <1>1, Sizes
  <2> QED
    BY <2>1 DEF Region
<1> QED
  BY <1>1, <1>2 DEF Region

LEMMA RunIs ==
  ASSUME NEW p \in Nat, NEW n \in Nat, NEW s \in Seq(Nat), Len(s) = n, Run(s, p)
  PROVE  s = Places(p, p + n - 1)
<1> DEFINE t == Places(p, p + n - 1)
<1>1. t \in Seq(Nat) /\ Len(t) = n /\ \A k \in 1..n : t[k] = p + k - 1
  BY PlacesType
<1>2. \A k \in 1..n : s[k] = p + k - 1
  BY DEF Run
<1> HIDE DEF t
<1>3. s = t
  BY <1>1, <1>2, SameSeq
<1> QED
  BY <1>3 DEF t

LEMMA RunTyped ==
  ASSUME NEW p \in Nat \ {0}, NEW n \in Nat, NEW s \in Seq(Nat), Len(s) = n, Run(s, p), NEW N \in Nat, p + n <= N + 1
  PROVE  s \in Seq(1..N)
<1>1. s = Places(p, p + n - 1)
  BY RunIs
<1>2. p \in Nat /\ p >= 1 /\ p + n - 1 <= N
  OBVIOUS
<1> QED
  BY <1>1, <1>2, PlacesType

LEMMA RunAppend ==
  ASSUME NEW p \in Nat, NEW s \in Seq(Nat), Run(s, p), NEW v \in Nat, v = p + Len(s)
  PROVE  Run(Append(s, v), p) /\ Append(s, v) \in Seq(Nat) /\ Len(Append(s, v)) = Len(s) + 1
<1>1. ASSUME NEW k \in DOMAIN Append(s, v) PROVE Append(s, v)[k] = p + k - 1
  <2>1. CASE k \in DOMAIN s
    <3>1. s[k] = p + k - 1
      BY <2>1 DEF Run
    <3>2. Append(s, v)[k] = s[k]
      BY <2>1
    <3> QED
      BY <3>1, <3>2
  <2>2. CASE k \notin DOMAIN s
    <3>1. k = Len(s) + 1 /\ Append(s, v)[k] = v
      BY <2>2
    <3> QED
      BY <3>1
  <2> QED
    BY <2>1, <2>2
<1>2. Append(s, v) \in Seq(Nat) /\ Len(Append(s, v)) = Len(s) + 1
  OBVIOUS
<1> QED
  BY <1>1, <1>2 DEF Run

BufOf(b, m, n) == [k \in 1..n + 1 - m |-> b[m + k - 1]]

LEMMA BufOfIs ==
  ASSUME NEW b, NEW s \in Nat, NEW n \in Nat, NEW p \in Nat, n > 0 => Region(b, s, n, p)
  PROVE  BufOf(b, s, s + n - 1) = Places(p, p + n - 1)
<1>1. (s + n - 1) + 1 - s = n /\ (p + n - 1) + 1 - p = n
  OBVIOUS
<1>2. BufOf(b, s, s + n - 1) = [k \in 1..n |-> b[s + k - 1]] /\ Places(p, p + n - 1) = [k \in 1..n |-> p + k - 1]
  BY <1>1 DEF BufOf, Places
<1>3. ASSUME NEW k \in 1..n PROVE b[s + k - 1] = p + k - 1
  <2>1. k - 1 \in 0..n - 1 /\ s + (k - 1) = s + k - 1 /\ p + (k - 1) = p + k - 1 /\ n > 0
    OBVIOUS
  <2>2. b[s + (k - 1)] = p + (k - 1)
    BY <2>1 DEF Region
  <2> QED
    BY <2>1, <2>2
<1> QED
  BY <1>2, <1>3

LEMMA PlacesRun ==
  ASSUME NEW p \in Nat, NEW n \in Nat
  PROVE  Run(Places(p, p + n - 1), p) /\ Places(p, p + n - 1) \in Seq(Nat) /\ Len(Places(p, p + n - 1)) = n
<1> DEFINE t == Places(p, p + n - 1)
<1>1. t \in Seq(Nat) /\ Len(t) = n /\ \A k \in 1..n : t[k] = p + k - 1
  BY PlacesType
<1> HIDE DEF t
<1>2. Run(t, p)
  BY <1>1 DEF Run
<1> QED
  BY <1>1, <1>2 DEF t

LEMMA NoRun == ASSUME NEW p PROVE Run(<<>>, p) /\ <<>> \in Seq(Nat) /\ Len(<<>>) = 0
BY DEF Run

PayloadOf(r, n) ==
  LET rest == r.plen - n
  IN  [r EXCEPT !.plen = rest, !.payload = IF rest = 0 THEN 0 ELSE @ + n]

LEMMA ReaderIs ==
  ASSUME NEW r \in ReaderType
  PROVE  /\ r.chunked \in BOOLEAN /\ r.complete \in BOOLEAN /\ r.left \in Nat /\ r.length \in Nat
         /\ r.payload \in Nat /\ r.plen \in Nat
BY DEF ReaderType

LEMMA ReaderMade ==
  ASSUME NEW r \in ReaderType, NEW a \in BOOLEAN, NEW l \in Nat, NEW n \in Nat, NEW p \in Nat, NEW q \in Nat
  PROVE  /\ [r EXCEPT !.payload = p, !.plen = q] \in ReaderType
         /\ [r EXCEPT !.plen = q, !.payload = p] \in ReaderType
         /\ [r EXCEPT !.payload = p, !.plen = q, !.length = n] \in ReaderType
         /\ [r EXCEPT !.left = l] \in ReaderType
         /\ [r EXCEPT !.length = n] \in ReaderType
         /\ [r EXCEPT !.complete = a] \in ReaderType
         /\ [r EXCEPT !.chunked = a, !.length = n, !.payload = p, !.plen = q] \in ReaderType
BY DEF ReaderType

LEMMA NoReaderType == NoReader \in ReaderType /\ NoReader.plen = 0 /\ NoReader.payload = 0
BY DEF NoReader, ReaderType

LEMMA PayloadOfIs ==
  ASSUME NEW r \in ReaderType, NEW n \in Nat, n <= r.plen, r.payload = 0 <=> r.plen = 0
  PROVE  /\ PayloadOf(r, n) \in ReaderType
         /\ PayloadOf(r, n).plen = r.plen - n
         /\ PayloadOf(r, n).payload = (IF r.plen - n = 0 THEN 0 ELSE r.payload + n)
         /\ PayloadOf(r, n).chunked = r.chunked /\ PayloadOf(r, n).complete = r.complete
         /\ PayloadOf(r, n).left = r.left /\ PayloadOf(r, n).length = r.length
<1> DEFINE rest == r.plen - n
           from == IF rest = 0 THEN 0 ELSE r.payload + n
<1>1. PayloadOf(r, n) = [r EXCEPT !.plen = rest, !.payload = from]
  BY DEF PayloadOf
<1>2. rest \in Nat /\ from \in Nat
  BY ReaderIs
<1> HIDE DEF rest, from
<1>3. [r EXCEPT !.plen = rest, !.payload = from] \in ReaderType
  BY <1>2, ReaderMade
<1> DEFINE s == [r EXCEPT !.plen = rest, !.payload = from]
<1>4. s.plen = rest /\ s.payload = from /\ s.chunked = r.chunked /\ s.complete = r.complete
      /\ s.left = r.left /\ s.length = r.length
  BY DEF ReaderType
<1> QED
  BY <1>1, <1>3, <1>4 DEF rest, from

(* The layout with another reader that has the same payload. *)
LEMMA LayReader ==
  ASSUME NEW N, NEW b, NEW f, NEW ln, NEW r, NEW pe, NEW g, NEW p, Lay(N, b, f, ln, r, pe, g, p),
         NEW q \in ReaderType, q.payload = r.payload, q.plen = r.plen
  PROVE  Lay(N, b, f, ln, q, pe, g, p)
<1>1. LaySizes(N, b, f, ln, q, pe, g, p)
  BY DEF Lay, LaySizes
<1>2. LayBytes(b, f, ln, q, pe, p)
  BY DEF Lay, LayBytes
<1> QED
  BY <1>1, <1>2 DEF Lay

LEMMA LayPlace ==
  ASSUME NEW N, NEW b, NEW f, NEW ln, NEW r, NEW pe, NEW g, NEW p, Lay(N, b, f, ln, r, pe, g, p)
  PROVE  p = g + 1 - f - Len(ln) - r.plen - Len(pe)
<1>1. f \in Nat /\ Len(ln) \in Nat /\ Len(pe) \in Nat /\ g \in Nat /\ p \in Nat /\ r \in ReaderType
      /\ p + f + Len(ln) + r.plen + Len(pe) = g + 1
  BY Sizes DEF Lay, LaySizes
<1>2. r.plen \in Nat
  BY <1>1, ReaderIs
<1> QED
  BY <1>1, <1>2

(* What is in the buffer and the line is used, or lost. *)
LEMMA LayDrop ==
  ASSUME NEW N, NEW b, NEW f, NEW ln, NEW r, NEW pe, NEW g, NEW p, Lay(N, b, f, ln, r, pe, g, p)
  PROVE  Lay(N, b, 0, <<>>, r, pe, g, p + f + Len(ln))
<1> DEFINE l == Len(ln)
           k == Len(pe)
           q == p + f + l
<1>1. f \in Nat /\ l \in Nat /\ p \in Nat \ {0} /\ k \in Nat /\ r \in ReaderType
      /\ p + f + l + r.plen + k = g + 1 /\ f \in 0..BufMax
  BY Sizes DEF Lay, LaySizes
<1>2. r.plen \in Nat /\ r.payload \in Nat
  BY <1>1, ReaderIs
<1>3. LaySizes(N, b, 0, <<>>, r, pe, g, q)
  <2> HIDE DEF l, k
  <2>1. q \in Nat \ {0} /\ q + 0 + 0 + r.plen + k = g + 1
    BY <1>1, <1>2
  <2>2. Len(<<>>) = 0 /\ 0 < LineMax /\ 0 \in 0..BufMax /\ <<>> \in Seq(Nat)
    BY Sizes
  <2> HIDE DEF q
  <2> QED
    BY <1>2, <2>1, <2>2 DEF Lay, LaySizes, k
<1>4. LayBytes(b, 0, <<>>, r, pe, q)
  <2> HIDE DEF l
  <2>1. q + 0 = q /\ q + 0 + 0 = q /\ q + 0 + 0 + r.plen = q + r.plen /\ Len(<<>>) = 0
    BY <1>1, <1>2
  <2>2. r.plen > 0 => Region(b, r.payload, r.plen, q)
    BY DEF Lay, LayBytes, l
  <2>3. Run(pe, q + r.plen)
    BY DEF Lay, LayBytes, l
  <2> HIDE DEF q
  <2> QED
    BY <2>1, <2>2, <2>3, NoRun DEF LayBytes
<1> QED
  BY <1>3, <1>4 DEF Lay

(* The payload is used, or lost with the buffer. *)
LEMMA LayDropPayload ==
  ASSUME NEW N, NEW b, NEW r, NEW pe, NEW g, NEW p, Lay(N, b, 0, <<>>, r, pe, g, p),
         NEW c, c = b \/ c = NoBuffer, NEW q \in ReaderType, q.payload = 0, q.plen = 0
  PROVE  Lay(N, c, 0, <<>>, q, pe, g, p + r.plen)
<1> DEFINE k == Len(pe)
           m == p + r.plen
<1>1. p \in Nat \ {0} /\ k \in Nat /\ r \in ReaderType /\ p + 0 + 0 + r.plen + k = g + 1
  BY Sizes, NoRun DEF Lay, LaySizes
<1>2. r.plen \in Nat /\ r.payload \in Nat
  BY <1>1, ReaderIs
<1>3. LaySizes(N, c, 0, <<>>, q, pe, g, m)
  <2> HIDE DEF k
  <2>1. m \in Nat \ {0} /\ m + 0 + 0 + 0 + k = g + 1 /\ 0 + 0 <= BufMax /\ (0 = 0 <=> 0 = 0) /\ ~(0 > 0)
    BY <1>1, <1>2, Sizes
  <2>2. c = NoBuffer \/ c \in [Slots -> 0..N]
    BY DEF Lay, LaySizes
  <2> HIDE DEF m
  <2> QED
    BY <1>2, <2>1, <2>2, NoRun DEF Lay, LaySizes, k
<1>4. LayBytes(c, 0, <<>>, q, pe, m)
  <2>1. m + 0 + 0 + 0 = m /\ p + 0 + 0 + r.plen = m
    BY <1>1, <1>2
  <2>2. Run(pe, m)
    BY <2>1, NoRun DEF Lay, LayBytes
  <2> HIDE DEF m
  <2> QED
    BY <2>1, <2>2, NoRun DEF LayBytes
<1> QED
  BY <1>3, <1>4 DEF Lay

LEMMA LayEmpty ==
  ASSUME NEW N \in Nat, NEW g \in 0..N, NEW r \in ReaderType, r.payload = 0, r.plen = 0
  PROVE  Lay(N, NoBuffer, 0, <<>>, r, <<>>, g, g + 1)
<1>1. g + 1 \in Nat \ {0} /\ g + 1 + 0 + 0 + 0 + 0 = g + 1 /\ 0 <= BufMax /\ 0 \in 0..BufMax /\ 0 < LineMax /\ 0 + 0 <= BufMax
  BY Sizes
<1> QED
  BY <1>1, NoRun DEF Lay, LaySizes, LayBytes

(* n bytes more are put into the buffer, from the socket or the payload;  *)
(* one more is put into the line.                                          *)

LEMMA LayReceive ==
  ASSUME NEW N, NEW b \in [Slots -> 0..N], NEW f, NEW r, NEW g, NEW p, Lay(N, b, f, <<>>, r, <<>>, g, p), r.plen = 0,
         NEW n \in Nat, f + n <= BufMax, g + n <= N
  PROVE  Lay(N, [i \in Slots |-> IF f <= i /\ i < f + n THEN g + 1 + (i - f) ELSE b[i]],
             f + n, <<>>, r, <<>>, g + n, p)
<1> DEFINE c == [i \in Slots |-> IF f <= i /\ i < f + n THEN g + 1 + (i - f) ELSE b[i]]
<1>1. f \in Nat /\ g \in Nat /\ N \in Nat /\ p \in Nat \ {0} /\ p + f + 0 + 0 + 0 = g + 1
  BY Sizes, NoRun DEF Lay, LaySizes
<1>2. c \in [Slots -> 0..N]
  <2>1. \A i \in Slots : f <= i /\ i < f + n => g + 1 + (i - f) \in 0..N
    BY <1>1, Sizes
  <2> QED
    BY <2>1
<1>3. LaySizes(N, c, f + n, <<>>, r, <<>>, g + n, p)
  <2> HIDE DEF c
  <2>1. f + n \in 0..BufMax /\ g + n \in 0..N /\ p + (f + n) + 0 + 0 + 0 = (g + n) + 1 /\ ~(0 > 0)
    BY <1>1, Sizes
  <2> QED
    BY <1>2, <2>1, NoRun DEF Lay, LaySizes
<1>4. LayBytes(c, f + n, <<>>, r, <<>>, p)
  <2>1. f > 0 => Region(b, 0, f, p)
    BY DEF Lay, LayBytes
  <2>2. \A i \in Slots : i < f => c[i] = b[i]
    BY <1>1, Sizes
  <2>3. ASSUME NEW k \in 0..n - 1 PROVE c[f + k] = p + f + k
    <3>1. f + k \in Slots /\ f <= f + k /\ f + k < f + n /\ g + 1 + ((f + k) - f) = p + f + k
      BY <1>1, Sizes
    <3> QED
      BY <3>1
  <2> HIDE DEF c
  <2>4. Region(c, 0, f + n, p)
    BY <1>1, <2>1, <2>2, <2>3, RegionWritten
  <2>5. ~(0 > 0)
    OBVIOUS
  <2> QED
    BY <2>4, <2>5, NoRun DEF LayBytes
<1> QED
  BY <1>3, <1>4 DEF Lay

LEMMA LayFill ==
  ASSUME NEW N, NEW b \in [Slots -> 0..N], NEW f, NEW r, NEW pe, NEW g, NEW p, Lay(N, b, f, <<>>, r, pe, g, p),
         NEW n \in Nat \ {0}, n <= r.plen
  PROVE  Lay(N, [i \in Slots |-> IF f <= i /\ i < f + n THEN b[r.payload + (i - f)] ELSE b[i]],
             f + n, <<>>, PayloadOf(r, n), pe, g, p)
<1> DEFINE c == [i \in Slots |-> IF f <= i /\ i < f + n THEN b[r.payload + (i - f)] ELSE b[i]]
           k == Len(pe)
           s == r.payload
           m == r.plen
           q == PayloadOf(r, n)
<1>1. f \in Nat /\ g \in Nat /\ N \in Nat /\ p \in Nat \ {0} /\ k \in Nat /\ p + f + 0 + m + k = g + 1 /\ r \in ReaderType
      /\ (s = 0 <=> m = 0) /\ s + m <= BufMax /\ BufMax \in Nat
  BY Sizes, NoRun DEF Lay, LaySizes
<1>2. m \in Nat /\ s \in Nat
  BY <1>1, ReaderIs
<1>3. f <= s /\ m > 0 /\ n <= m
  <2>1. m > 0 => f <= s
    BY DEF Lay, LaySizes
  <2> QED
    BY <1>2, <2>1
<1>4. q \in ReaderType /\ q.plen = m - n /\ q.payload = (IF m - n = 0 THEN 0 ELSE s + n)
  BY <1>1, PayloadOfIs
<1> HIDE DEF q, s, m, k
<1>5. Region(b, s, m, p + f)
  <2>1. p + f + 0 = p + f
    BY <1>1
  <2> QED
    BY <1>3, <2>1, NoRun DEF Lay, LayBytes, m, s
<1>6. c \in [Slots -> 0..N]
  <2>1. \A i \in Slots : f <= i /\ i < f + n => s + (i - f) \in Slots
    BY <1>1, <1>2, <1>3, Sizes
  <2> QED
    BY <2>1 DEF s
<1>7. LaySizes(N, c, f + n, <<>>, q, pe, g, p)
  <2> HIDE DEF c
  <2>1. f + n \in 0..BufMax /\ p + (f + n) + 0 + (m - n) + k = g + 1
    BY <1>1, <1>2, <1>3
  <2>2. (q.payload = 0 <=> q.plen = 0) /\ q.payload + q.plen <= BufMax /\ (q.plen > 0 => f + n <= q.payload)
    BY <1>1, <1>2, <1>3, <1>4
  <2> QED
    BY <1>4, <1>6, <2>1, <2>2, NoRun DEF Lay, LaySizes, k
<1>8. LayBytes(c, f + n, <<>>, q, pe, p)
  <2>1. f > 0 => Region(b, 0, f, p)
    BY DEF Lay, LayBytes
  <2>2. \A i \in Slots : i < f => c[i] = b[i]
    BY <1>1, Sizes
  <2>3. ASSUME NEW j \in 0..n - 1 PROVE c[f + j] = p + f + j
    <3>1. f + j \in Slots /\ f <= f + j /\ f + j < f + n /\ (f + j) - f = j /\ j \in 0..m - 1
      BY <1>1, <1>2, <1>3, Sizes
    <3>2. c[f + j] = b[s + j]
      BY <3>1 DEF s
    <3>3. b[s + j] = p + f + j
      BY <1>5, <3>1 DEF Region
    <3> QED
      BY <3>2, <3>3
  <2>4. \A i \in Slots : i >= s + n => c[i] = b[i]
    <3>1. \A i \in Slots : i >= s + n => ~(i < f + n)
      BY <1>1, <1>2, <1>3, Sizes
    <3> QED
      BY <3>1
  <2> HIDE DEF c
  <2>5. Region(c, 0, f + n, p)
    <3>1. f + n <= BufMax
      BY <1>1, <1>2, <1>3
    <3> QED
      BY <1>1, <2>1, <2>2, <2>3, <3>1, RegionWritten
  <2>6. q.plen > 0 => Region(c, q.payload, q.plen, p + (f + n) + 0)
    <3> SUFFICES ASSUME q.plen > 0 PROVE Region(c, q.payload, q.plen, p + (f + n) + 0)
      OBVIOUS
    <3>1. q.plen = m - n /\ m - n > 0 /\ q.payload = s + n /\ m - n \in Nat /\ n + (m - n) <= m /\ s + n \in Nat /\ p + f \in Nat
      BY <1>1, <1>2, <1>3, <1>4
    <3>2. Region(b, s + n, m - n, (p + f) + n)
      BY <1>2, <1>5, <3>1, RegionPart
    <3>3. Region(c, s + n, m - n, (p + f) + n)
      BY <2>4, <3>1, <3>2, RegionKept
    <3>4. (p + f) + n = p + (f + n) + 0
      BY <1>1
    <3> QED
      BY <3>1, <3>3, <3>4
  <2>7. Run(pe, p + (f + n) + 0 + q.plen)
    <3>1. Run(pe, p + f + 0 + m)
      BY NoRun DEF Lay, LayBytes, m
    <3>2. p + f + 0 + m = p + (f + n) + 0 + q.plen
      BY <1>1, <1>2, <1>4
    <3> QED
      BY <3>1, <3>2
  <2> QED
    BY <2>5, <2>6, <2>7, NoRun DEF LayBytes
<1> QED
  BY <1>7, <1>8 DEF Lay, q

LEMMA LayTakeByte ==
  ASSUME NEW N, NEW b \in [Slots -> 0..N], NEW f, NEW ln, NEW r, NEW pe, NEW g, NEW p, Lay(N, b, f, ln, r, pe, g, p),
         r.plen > 0, Len(ln) + 1 < LineMax
  PROVE  /\ Lay(N, b, f, Append(ln, b[r.payload]), PayloadOf(r, 1), pe, g, p)
         /\ b[r.payload] = p + f + Len(ln)
<1> DEFINE l == Len(ln)
           k == Len(pe)
           s == r.payload
           m == r.plen
           q == PayloadOf(r, 1)
           v == b[r.payload]
<1>1. f \in Nat /\ g \in Nat /\ N \in Nat /\ p \in Nat \ {0} /\ k \in Nat /\ l \in Nat /\ ln \in Seq(Nat)
      /\ p + f + l + m + k = g + 1 /\ r \in ReaderType
      /\ (s = 0 <=> m = 0) /\ s + m <= BufMax /\ BufMax \in Nat
  BY Sizes DEF Lay, LaySizes
<1>2. m \in Nat /\ s \in Nat
  BY <1>1, ReaderIs
<1>3. m >= 1 /\ f <= s
  <2>1. m > 0 => f <= s
    BY DEF Lay, LaySizes
  <2> QED
    BY <1>2, <2>1
<1>4. q \in ReaderType /\ q.plen = m - 1 /\ q.payload = (IF m - 1 = 0 THEN 0 ELSE s + 1)
  BY <1>1, <1>3, PayloadOfIs
<1>5. Region(b, s, m, p + f + l) /\ Run(ln, p + f) /\ Run(pe, p + f + l + m) /\ (f > 0 => Region(b, 0, f, p))
  BY DEF Lay, LayBytes
<1> HIDE DEF q, s, m, k
<1>6. v = p + f + l
  <2>1. 0 \in 0..m - 1 /\ s + 0 = s /\ p + f + l + 0 = p + f + l
    BY <1>1, <1>2, <1>3
  <2>2. b[s + 0] = p + f + l + 0
    BY <1>5, <2>1 DEF Region
  <2> QED
    BY <2>1, <2>2 DEF s
<1> HIDE DEF v
<1>7. Run(Append(ln, v), p + f) /\ Append(ln, v) \in Seq(Nat) /\ Len(Append(ln, v)) = l + 1
  <2>1. v \in Nat /\ p + f \in Nat /\ v = (p + f) + Len(ln)
    BY <1>1, <1>6
  <2> QED
    BY <1>1, <1>5, <2>1, RunAppend
<1> DEFINE t == Append(ln, v)
<1> HIDE DEF t, l
<1>8. LaySizes(N, b, f, t, q, pe, g, p)
  <2>1. p + f + (l + 1) + (m - 1) + k = g + 1 /\ l + 1 < LineMax
    BY <1>1, <1>2 DEF l
  <2>2. (q.payload = 0 <=> q.plen = 0) /\ q.payload + q.plen <= BufMax /\ (q.plen > 0 => f <= q.payload)
    BY <1>1, <1>2, <1>3, <1>4
  <2> QED
    BY <1>4, <1>7, <2>1, <2>2 DEF Lay, LaySizes, k, t
<1>9. LayBytes(b, f, t, q, pe, p)
  <2>1. q.plen > 0 => Region(b, q.payload, q.plen, p + f + (l + 1))
    <3> SUFFICES ASSUME q.plen > 0 PROVE Region(b, q.payload, q.plen, p + f + (l + 1))
      OBVIOUS
    <3>1. q.plen = m - 1 /\ q.payload = s + 1 /\ m - 1 \in Nat /\ 1 + (m - 1) <= m /\ p + f + l \in Nat
      BY <1>1, <1>2, <1>3, <1>4
    <3>2. Region(b, s + 1, m - 1, (p + f + l) + 1)
      BY <1>2, <1>5, <3>1, RegionPart
    <3>3. (p + f + l) + 1 = p + f + (l + 1)
      BY <1>1
    <3> QED
      BY <3>1, <3>2, <3>3
  <2>2. Run(pe, p + f + (l + 1) + q.plen)
    <3>1. p + f + l + m = p + f + (l + 1) + q.plen
      BY <1>1, <1>2, <1>4
    <3> QED
      BY <1>5, <3>1
  <2> QED
    BY <1>5, <1>7, <2>1, <2>2 DEF LayBytes, t
<1> QED
  BY <1>6, <1>8, <1>9 DEF Lay, t, q, v, l, s

LEMMA LayReceiveByte ==
  ASSUME NEW N, NEW b, NEW f, NEW ln, NEW r, NEW g, NEW p, Lay(N, b, f, ln, r, <<>>, g, p),
         r.plen = 0, Len(ln) + 1 < LineMax, g + 1 <= N
  PROVE  /\ Lay(N, b, f, Append(ln, g + 1), r, <<>>, g + 1, p)
         /\ g + 1 = p + f + Len(ln)
<1> DEFINE l == Len(ln)
<1>1. f \in Nat /\ g \in Nat /\ N \in Nat /\ p \in Nat \ {0} /\ l \in Nat /\ ln \in Seq(Nat) /\ p + f + l + 0 + 0 = g + 1
  BY Sizes, NoRun DEF Lay, LaySizes
<1>2. Run(Append(ln, g + 1), p + f) /\ Append(ln, g + 1) \in Seq(Nat) /\ Len(Append(ln, g + 1)) = l + 1
  <2>1. Run(ln, p + f)
    BY DEF Lay, LayBytes
  <2>2. g + 1 \in Nat /\ p + f \in Nat /\ g + 1 = (p + f) + l
    BY <1>1
  <2> QED
    BY <1>1, <2>1, <2>2, RunAppend
<1> DEFINE t == Append(ln, g + 1)
<1>3. f > 0 => Region(b, 0, f, p)
  BY DEF Lay, LayBytes
<1> HIDE DEF t, l
<1>4. LaySizes(N, b, f, t, r, <<>>, g + 1, p)
  <2>1. p + f + (l + 1) + 0 + 0 = (g + 1) + 1 /\ l + 1 < LineMax /\ g + 1 \in 0..N
    BY <1>1 DEF l
  <2> QED
    BY <1>2, <2>1, NoRun DEF Lay, LaySizes, t
<1>5. LayBytes(b, f, t, r, <<>>, p)
  <2>1. ~(0 > 0)
    OBVIOUS
  <2> QED
    BY <1>2, <1>3, <2>1, NoRun DEF LayBytes, t
<1>6. g + 1 = p + f + l
  BY <1>1
<1> QED
  BY <1>4, <1>5, <1>6 DEF Lay, t, l

(* The pending bytes go back to the buffer, and the other way round. *)
LEMMA LayReadRequest ==
  ASSUME NEW N, NEW b \in [Slots -> 0..N], NEW c, NEW r, NEW pe, NEW g, NEW p, Lay(N, c, 0, <<>>, r, pe, g, p), r.plen = 0
  PROVE  Lay(N, [i \in Slots |-> IF i < Len(pe) THEN pe[i + 1] ELSE b[i]], Len(pe), <<>>, r, <<>>, g, p)
<1> DEFINE k == Len(pe)
           d == [i \in Slots |-> IF i < k THEN pe[i + 1] ELSE b[i]]
<1>1. g \in Nat /\ N \in Nat /\ g <= N /\ p \in Nat \ {0} /\ k \in Nat /\ k <= BufMax /\ p + 0 + 0 + 0 + k = g + 1 /\ pe \in Seq(Nat)
  BY Sizes, NoRun DEF Lay, LaySizes
<1>2. ASSUME NEW i \in Nat, i < k PROVE pe[i + 1] = p + i
  <2>1. Run(pe, p)
    <3>1. p + 0 + 0 + 0 = p
      BY <1>1
    <3> QED
      BY <3>1, NoRun DEF Lay, LayBytes
  <2>2. i + 1 \in DOMAIN pe /\ p + (i + 1) - 1 = p + i
    BY <1>1, <1>2
  <2> QED
    BY <2>1, <2>2 DEF Run
<1> HIDE DEF k
<1>3. d \in [Slots -> 0..N]
  <2>1. \A i \in Slots : i < k => p + i \in 0..N /\ i \in Nat
    BY <1>1, Sizes
  <2> QED
    BY <1>2, <2>1
<1>4. LaySizes(N, d, k, <<>>, r, <<>>, g, p)
  <2> HIDE DEF d
  <2>1. k \in 0..BufMax /\ p + k + 0 + 0 + 0 = g + 1 /\ ~(0 > 0)
    BY <1>1, Sizes
  <2> QED
    BY <1>3, <2>1, NoRun DEF Lay, LaySizes
<1>5. LayBytes(d, k, <<>>, r, <<>>, p)
  <2>1. ASSUME NEW j \in 0..k - 1 PROVE d[0 + j] = p + j
    <3>1. j \in Nat /\ j < k /\ j \in Slots /\ 0 + j = j
      BY <1>1, Sizes
    <3> QED
      BY <1>2, <3>1
  <2>2. 0 + k <= BufMax /\ ~(0 > 0)
    BY <1>1
  <2> HIDE DEF d
  <2> QED
    BY <2>1, <2>2, NoRun DEF LayBytes, Region
<1> QED
  BY <1>4, <1>5 DEF Lay, k

LEMMA LayTimesOut ==
  ASSUME NEW N, NEW b, NEW f, NEW r, NEW g, NEW p, Lay(N, b, f, <<>>, r, <<>>, g, p), r.plen = 0
  PROVE  Lay(N, b, 0, <<>>, r, BufOf(b, 0, f - 1), g, p)
<1>1. f \in Nat /\ p \in Nat \ {0} /\ p + f + 0 + 0 + 0 = g + 1 /\ f <= BufMax
  BY Sizes, NoRun DEF Lay, LaySizes
<1>2. BufOf(b, 0, f - 1) = Places(p, p + f - 1)
  <2>1. f > 0 => Region(b, 0, f, p)
    BY DEF Lay, LayBytes
  <2>2. 0 + f - 1 = f - 1
    BY <1>1
  <2>3. BufOf(b, 0, 0 + f - 1) = Places(p, p + f - 1)
    BY <1>1, <2>1, BufOfIs
  <2> QED
    BY <2>2, <2>3
<1> DEFINE t == BufOf(b, 0, f - 1)
<1>3. Run(t, p) /\ t \in Seq(Nat) /\ Len(t) = f
  BY <1>1, <1>2, PlacesRun
<1> HIDE DEF t
<1>4. LaySizes(N, b, 0, <<>>, r, t, g, p)
  <2>1. p + 0 + 0 + 0 + f = g + 1 /\ 0 \in 0..BufMax /\ ~(0 > 0)
    BY <1>1, Sizes
  <2> QED
    BY <1>1, <1>3, <2>1, NoRun DEF Lay, LaySizes
<1>5. LayBytes(b, 0, <<>>, r, t, p)
  <2>1. p + 0 + 0 + 0 = p /\ p + 0 = p /\ ~(0 > 0)
    BY <1>1
  <2> QED
    BY <1>3, <2>1, NoRun DEF LayBytes
<1> QED
  BY <1>4, <1>5 DEF Lay, t

LEMMA RegionOff ==
  ASSUME NEW b, NEW n \in Nat, NEW p \in Nat, NEW i \in Nat, NEW m \in Nat, i + m <= n, Region(b, 0, n, p)
  PROVE  Region(b, i, m, p + i)
<1>1. 0 \in Nat /\ 0 + i = i
  OBVIOUS
<1>2. Region(b, 0 + i, m, p + i)
  BY RegionPart, <1>1
<1> QED
  BY <1>1, <1>2

(* A head of m bytes is whole, behind it k bytes of a body, and the rest   *)
(* is pending.                                                             *)
LEMMA LayHeadDone ==
  ASSUME NEW N, NEW b, NEW f, NEW r, NEW g, NEW p, Lay(N, b, f, <<>>, r, <<>>, g, p), r.plen = 0,
         NEW m \in Nat \ {0}, NEW k \in Nat, m + k <= f,
         NEW q \in ReaderType, q.plen = k, q.payload = IF k > 0 THEN m ELSE 0
  PROVE  Lay(N, b, 0, <<>>, q, BufOf(b, m + k, f - 1), g, p + m)
<1>1. f \in Nat /\ p \in Nat \ {0} /\ p + f + 0 + 0 + 0 = g + 1 /\ f <= BufMax /\ BufMax \in Nat
  BY Sizes, NoRun DEF Lay, LaySizes
<1>2. Region(b, 0, f, p)
  <2>1. f > 0
    BY <1>1
  <2> QED
    BY <2>1 DEF Lay, LayBytes
<1> DEFINE n == f - (m + k)
           t == BufOf(b, m + k, f - 1)
<1>3. n \in Nat /\ (m + k) + n - 1 = f - 1 /\ (m + k) + n <= f /\ m + k \in Nat /\ 0 + (m + k) = m + k /\ p + (m + k) \in Nat
  BY <1>1
<1> HIDE DEF n
<1>4. Region(b, m + k, n, p + (m + k))
  <2> DEFINE i == m + k
  <2>1. i \in Nat /\ p \in Nat /\ i + n <= f
    BY <1>1, <1>3
  <2> HIDE DEF i
  <2>2. Region(b, i, n, p + i)
    BY <1>1, <1>2, <1>3, <2>1, RegionOff
  <2> QED
    BY <2>2 DEF i
<1>5. Run(t, p + (m + k)) /\ t \in Seq(Nat) /\ Len(t) = n
  <2>1. BufOf(b, m + k, (m + k) + n - 1) = Places(p + (m + k), (p + (m + k)) + n - 1)
    BY <1>3, <1>4, BufOfIs
  <2>2. t = Places(p + (m + k), (p + (m + k)) + n - 1)
    BY <1>3, <2>1
  <2> HIDE DEF t
  <2> QED
    BY <1>3, <2>2, PlacesRun
<1> HIDE DEF t
<1>6. LaySizes(N, b, 0, <<>>, q, t, g, p + m)
  <2>1. (p + m) + 0 + 0 + k + n = g + 1 /\ p + m \in Nat \ {0} /\ 0 \in 0..BufMax /\ n <= BufMax
    BY <1>1 DEF n
  <2>2. (q.payload = 0 <=> q.plen = 0) /\ q.payload + q.plen <= BufMax /\ 0 <= q.payload
    BY <1>1
  <2> QED
    BY <1>5, <2>1, <2>2, NoRun DEF Lay, LaySizes
<1>7. LayBytes(b, 0, <<>>, q, t, p + m)
  <2>1. k > 0 => Region(b, m, k, (p + m) + 0 + 0)
    <3>1. (p + m) + 0 + 0 = p + m /\ m \in Nat /\ p \in Nat
      BY <1>1
    <3>2. Region(b, m, k, p + m)
      BY <1>1, <1>2, <3>1, RegionOff
    <3> QED
      BY <3>1, <3>2
  <2>2. (p + m) + 0 + 0 + k = p + (m + k)
    BY <1>1
  <2> QED
    BY <1>5, <2>1, <2>2, NoRun DEF LayBytes
<1> QED
  BY <1>6, <1>7 DEF Lay, t

(* Bytes are read and used at once. *)
LEMMA LayReadBody ==
  ASSUME NEW N, NEW b \in [Slots -> 0..N], NEW r, NEW g, NEW p, Lay(N, b, 0, <<>>, r, <<>>, g, p), r.plen = 0,
         NEW n \in Nat, n <= BufMax, g + n <= N, NEW q \in ReaderType, q.payload = 0, q.plen = 0
  PROVE  Lay(N, [i \in Slots |-> IF i < n THEN g + 1 + i ELSE b[i]], 0, <<>>, q, <<>>, g + n, p + n)
<1> DEFINE c == [i \in Slots |-> IF i < n THEN g + 1 + i ELSE b[i]]
<1>1. g \in Nat /\ N \in Nat /\ p \in Nat \ {0} /\ p + 0 + 0 + 0 + 0 = g + 1
  BY Sizes, NoRun DEF Lay, LaySizes
<1>2. c \in [Slots -> 0..N]
  <2>1. \A i \in Slots : i < n => g + 1 + i \in 0..N
    BY <1>1, Sizes
  <2> QED
    BY <2>1
<1> HIDE DEF c
<1>3. LaySizes(N, c, 0, <<>>, q, <<>>, g + n, p + n)
  <2>1. g + n \in 0..N /\ p + n \in Nat \ {0} /\ (p + n) + 0 + 0 + 0 + 0 = (g + n) + 1 /\ ~(0 > 0) /\ 0 \in 0..BufMax /\ 0 + 0 <= BufMax
    BY <1>1, Sizes
  <2> QED
    BY <1>1, <1>2, <2>1, NoRun DEF Lay, LaySizes
<1>4. LayBytes(c, 0, <<>>, q, <<>>, p + n)
  <2>1. ~(0 > 0)
    OBVIOUS
  <2> QED
    BY <2>1, NoRun DEF LayBytes
<1> QED
  BY <1>3, <1>4 DEF Lay, c

-----------------------------------------------------------------------------
(* The inductive invariant of the types: where the taken bytes are, and    *)
(* what each turn of the worker has of them.                               *)

N == Len(client.wire)
From == got + 1 - fill - Len(line) - reader.plen - Len(pending)
Layout == Lay(N, buf, fill, line, reader, pending, got, From)

InChunks == {"size", "trailer", "data", "newline"}
Served == call \in {"handler", "content", "read"} \cup InChunks
Modes ==
  /\ call \in {"idle", "closed", "head"} => reader = NoReader /\ line = <<>> /\ ~all
  /\ call \in {"idle", "closed"} => fill = 0
  /\ call \in {"closed", "head"} => pending = <<>>
  /\ Served \/ call = "head" => buf # NoBuffer
  /\ call = "closed" => buf = NoBuffer
  /\ call = "handler" => ~all
  /\ call \in {"handler", "content", "read"} => fill = 0 /\ line = <<>>
  /\ reader.chunked => pending = <<>> /\ reader.length = 0
  /\ ~reader.chunked => reader.left = 0 /\ ~reader.complete /\ reader.plen <= reader.length
                        /\ (reader.length > reader.plen => pending = <<>>)
  /\ call = "read" => ~reader.chunked /\ reader.plen = 0 /\ reader.length > 0
  /\ call \in InChunks => reader.chunked /\ ~reader.complete
  /\ call \in {"size", "trailer"} => reader.left = 0 /\ fill = 0
  /\ call = "data" => reader.left > 0 /\ line = <<>> /\ fill <= Want
  /\ call = "newline" => reader.left = 0 /\ fill > 0 /\ Len(line) <= 2
  /\ reader.complete => reader.left = 0

Calls == {"idle", "content", "handler", "closed"} \cup Turns
Results == {"none", "part", "end", "body"} \cup Codes
Net == client \in Clients /\ sent \in 0..N /\ ended \in BOOLEAN /\ got \in 0..sent /\ gone \in BOOLEAN
Rest ==
  /\ keep \in BOOLEAN /\ call \in Calls /\ all \in BOOLEAN /\ result \in Results
  /\ first \in 0..N /\ served \in Nat /\ parts \in Seq(1..N) /\ misled \in BOOLEAN
  /\ strayed \in BOOLEAN
Types == Net /\ Layout /\ Modes /\ Rest

LEMMA WireType == ASSUME Net PROVE client.wire \in Seq(Bytes) /\ N \in Nat /\ client.tls \in BOOLEAN /\ sent \in Nat /\ got \in Nat /\ got <= N
BY ClientsAssumption DEF Net, N

LEMMA LayoutNow ==
  ASSUME NEW p, Lay(N, buf, fill, line, reader, pending, got, p)
  PROVE  Layout /\ From = p
BY LayPlace DEF Layout, From

LEMMA LayoutNext ==
  ASSUME NEW p, Lay(N', buf', fill', line', reader', pending', got', p)
  PROVE  Layout' /\ From' = p
<1>1. p = got' + 1 - fill' - Len(line') - reader'.plen - Len(pending')
  BY LayPlace
<1>2. From' = p
  BY <1>1 DEF From
<1> QED
  BY <1>2 DEF Layout

LEMMA Facts ==
  ASSUME Types
  PROVE  /\ N \in Nat /\ got \in Nat /\ fill \in Nat /\ fill <= BufMax /\ Len(line) \in Nat /\ Len(line) < LineMax /\ Len(pending) \in Nat
         /\ line \in Seq(Nat) /\ pending \in Seq(Nat) /\ Len(pending) <= BufMax /\ got <= N
         /\ reader \in ReaderType /\ reader.plen \in Nat /\ reader.payload \in Nat /\ reader.left \in Nat /\ reader.length \in Nat
         /\ reader.chunked \in BOOLEAN /\ reader.complete \in BOOLEAN
         /\ (reader.payload = 0 <=> reader.plen = 0) /\ reader.payload + reader.plen <= BufMax
         /\ From \in Nat \ {0} /\ From + fill + Len(line) + reader.plen + Len(pending) = got + 1
         /\ (buf = NoBuffer \/ buf \in [Slots -> 0..N]) /\ (reader.plen > 0 => fill <= reader.payload)
<1>1. LaySizes(N, buf, fill, line, reader, pending, got, From) /\ Net
  BY DEF Types, Layout, Lay
<1>2. reader \in ReaderType /\ fill \in 0..BufMax /\ Len(line) \in Nat
  BY <1>1 DEF LaySizes
<1> QED
  BY <1>1, <1>2, ReaderIs, WireType, Sizes DEF LaySizes

LEMMA Drained ==
  /\ NoReader.chunked = FALSE /\ NoReader.complete = FALSE /\ NoReader.left = 0 /\ NoReader.length = 0
  /\ NoReader.payload = 0 /\ NoReader.plen = 0 /\ NoReader \in ReaderType
BY DEF NoReader, ReaderType

-----------------------------------------------------------------------------
(* The steps of the network and of the worker.                             *)

LEMMA InitType == Init => Types
<1> SUFFICES ASSUME Init PROVE Types
  OBVIOUS
<1>1. client.wire \in Seq(Bytes) /\ N \in Nat
  BY ClientsAssumption DEF Init, N
<1>0. 0 \in 0..0 /\ 0 \in 0..N /\ <<>> \in Seq(1..N)
  BY <1>1
<1>2. Net
  BY <1>0 DEF Init, Net
<1>3. Layout
  <2>1. Lay(N, NoBuffer, 0, <<>>, NoReader, <<>>, 0, 0 + 1)
    BY <1>1, Drained, LayEmpty
  <2> QED
    BY <2>1, LayoutNow DEF Init
<1>4. Modes
  BY Drained DEF Init, Modes, Served, InChunks
<1>5. Rest
  BY <1>0 DEF Init, Rest, Calls, Results
<1> QED
  BY <1>2, <1>3, <1>4, <1>5 DEF Types

LEMMA NetworkType == Types /\ Network => Types'
<1> SUFFICES ASSUME Types, Network PROVE Types'
  OBVIOUS
<1>0. Net /\ N \in Nat /\ sent \in Nat /\ sent <= N /\ ended \in BOOLEAN
  BY WireType DEF Types, Net
<1>1. UNCHANGED <<client, sockVars, buf, fill, pending, bodyVars, call, workVars>> /\ sent' \in Nat /\ sent' >= sent /\ sent' <= N /\ ended' \in BOOLEAN
  <2>1. CASE Arrive
    <3>1. sent' \in sent + 1..N
      BY <2>1 DEF Arrive, N
    <3> QED
      BY <1>0, <2>1, <3>1 DEF Arrive
  <2>2. CASE ArriveEnding
    BY <1>0, <2>2 DEF ArriveEnding
  <2> QED
    BY <2>1, <2>2 DEF Network
<1>2. Net' /\ N' = N
  BY <1>1, WireType DEF Types, Net, N, sockVars
<1>3. Layout'
  BY <1>1, <1>2 DEF Types, Layout, From, sockVars, bodyVars
<1>4. Modes'
  BY <1>1 DEF Types, Modes, Served, InChunks, Want, sockVars, bodyVars
<1>5. Rest'
  BY <1>1, <1>2 DEF Types, Rest, bodyVars, workVars
<1> QED
  BY <1>2, <1>3, <1>4, <1>5 DEF Types

LEMMA CloseType ==
  ASSUME Types, Close, UNCHANGED <<netVars, got, keep, result, parts, first, served, misled>>, gone' \in BOOLEAN, strayed' \in BOOLEAN
  PROVE  Types' /\ call' = "closed" /\ From' = got + 1
<1>1. Net' /\ N' = N
  BY DEF Types, Net, N, netVars
<1>2. Layout' /\ From' = got + 1
  <2>1. got \in 0..N
    BY Facts
  <2>2. Lay(N, NoBuffer, 0, <<>>, NoReader, <<>>, got, got + 1)
    BY <2>1, Facts, Drained, LayEmpty
  <2>3. Lay(N', buf', fill', line', reader', pending', got', got + 1)
    BY <1>1, <2>2 DEF Close
  <2> QED
    BY <2>3, LayoutNext
<1>3. Modes'
  BY Drained DEF Close, Modes, Served, InChunks
<1>4. Rest'
  BY <1>1 DEF Types, Rest, Close, Calls
<1> QED
  BY <1>1, <1>2, <1>3, <1>4 DEF Types, Close

LEMMA NextConnectionType == Types /\ NextConnection => Types'
<1> SUFFICES ASSUME Types, NextConnection PROVE Types'
  OBVIOUS
<1>1. client'.wire \in Seq(Bytes) /\ N' \in Nat
  BY ClientsAssumption DEF NextConnection, N
<1>0. 0 \in 0..0 /\ 0 \in 0..N' /\ <<>> \in Seq(1..N')
  BY <1>1
<1>2. Net'
  BY <1>0 DEF NextConnection, Net
<1>3. reader = NoReader /\ line = <<>> /\ ~all /\ fill = 0 /\ pending = <<>> /\ buf = NoBuffer
  BY DEF NextConnection, Types, Modes
<1>4. Layout'
  <2>1. Lay(N', NoBuffer, 0, <<>>, NoReader, <<>>, 0, 0 + 1)
    BY <1>0, <1>1, Drained, LayEmpty
  <2>2. Lay(N', buf', fill', line', reader', pending', got', 0 + 1)
    BY <1>3, <2>1 DEF NextConnection
  <2> QED
    BY <2>2, LayoutNext
<1>5. Modes'
  BY <1>3, Drained DEF NextConnection, Modes, Served, InChunks
<1>6. Rest'
  BY <1>0 DEF Types, NextConnection, Rest, Calls, Results
<1> QED
  BY <1>2, <1>4, <1>5, <1>6 DEF Types

-----------------------------------------------------------------------------
(* The steps within httpserver_read_request_ex().                          *)

LEMMA HasSlots == ASSUME NEW b, DOMAIN b = Slots PROVE b # NoBuffer
<1>1. 0 \in Slots /\ DOMAIN <<>> = {}
  BY Sizes
<1> QED
  BY <1>1 DEF NoBuffer

LEMMA NetStays ==
  ASSUME Types, UNCHANGED netVars, got' \in Nat, got' <= sent, gone' \in BOOLEAN
  PROVE  Net' /\ N' = N
<1>1. got' \in 0..sent
  BY WireType DEF Types, Net
<1> QED
  BY <1>1 DEF Types, Net, N, netVars

LEMMA NetSame ==
  ASSUME Types, UNCHANGED <<netVars, sockVars>>
  PROVE  Net' /\ N' = N /\ got' = got
BY DEF Types, Net, N, netVars, sockVars

LEMMA ReadRequestType == Types /\ ReadRequest => Types' /\ From' = From
<1> SUFFICES ASSUME Types, ReadRequest PROVE Types' /\ From' = From
  OBVIOUS
<1>1. Net' /\ N' = N /\ got' = got
  BY NetSame DEF ReadRequest
<1>2. reader = NoReader /\ line = <<>> /\ ~all /\ fill = 0
  BY DEF ReadRequest, Types, Modes
<1> DEFINE b == IF buf = NoBuffer THEN NewBuffer ELSE buf
<1>3. b \in [Slots -> 0..N]
  <2>1. NewBuffer \in [Slots -> 0..N]
    BY Facts DEF NewBuffer
  <2> QED
    BY <2>1, Facts
<1>4. Lay(N, buf, 0, <<>>, NoReader, pending, got, From)
  BY <1>2 DEF Types, Layout
<1>5. buf' = [i \in Slots |-> IF i < Len(pending) THEN pending[i + 1] ELSE b[i]]
  BY DEF ReadRequest
<1> HIDE DEF b
<1>6. Lay(N, buf', Len(pending), <<>>, NoReader, <<>>, got, From)
  BY <1>3, <1>4, <1>5, Drained, LayReadRequest
<1>7. Layout' /\ From' = From
  <2>1. Lay(N', buf', fill', line', reader', pending', got', From)
    BY <1>1, <1>2, <1>6 DEF ReadRequest, bodyVars
  <2> QED
    BY <2>1, LayoutNext
<1>8. buf' # NoBuffer
  BY <1>5, HasSlots
<1>9. Modes'
  BY <1>2, <1>8, Drained DEF ReadRequest, bodyVars, Modes, Served, InChunks
<1>10. Rest'
  BY <1>1 DEF Types, ReadRequest, Rest, bodyVars, workVars, Calls, Turns
<1> QED
  BY <1>1, <1>7, <1>9, <1>10 DEF Types

LEMMA AtHead ==
  ASSUME Types, call = "head"
  PROVE  /\ reader = NoReader /\ line = <<>> /\ ~all /\ pending = <<>> /\ buf \in [Slots -> 0..N]
         /\ Lay(N, buf, fill, <<>>, NoReader, <<>>, got, From)
<1>1. reader = NoReader /\ line = <<>> /\ ~all /\ pending = <<>> /\ buf # NoBuffer
  BY DEF Types, Modes
<1> QED
  BY <1>1, Facts DEF Types, Layout

LEMMA ArrivedIs ==
  ASSUME Types, NEW most \in Nat
  PROVE  Arrived(most) \in Nat /\ Arrived(most) <= most /\ got + Arrived(most) <= sent /\ got + Arrived(most) <= N
BY WireType DEF Types, Net, Arrived, Lesser

LEMMA HeadMoreType == Types /\ HeadMore => Types' /\ From' = From
<1> SUFFICES ASSUME Types, HeadMore PROVE Types' /\ From' = From
  OBVIOUS
<1>1. /\ reader = NoReader /\ line = <<>> /\ ~all /\ pending = <<>> /\ buf \in [Slots -> 0..N]
      /\ Lay(N, buf, fill, <<>>, NoReader, <<>>, got, From)
  BY AtHead DEF HeadMore
<1>2. fill \in Nat /\ BufMax \in Nat /\ got \in Nat
  BY Facts, Sizes
<1>3. BufMax - fill \in Nat
  BY <1>2, Facts
<1>4. PICK n \in Nat : n = Arrived(BufMax - fill) /\ n <= BufMax - fill /\ got + n <= sent /\ got + n <= N
  BY <1>3, ArrivedIs
<1>5. /\ got' = got + n /\ gone' = gone /\ fill' = fill + n
      /\ buf' = [i \in Slots |-> IF fill <= i /\ i < fill + n THEN got + 1 + i - fill ELSE buf[i]]
  BY <1>4 DEF HeadMore, Receive
<1>6. Net' /\ N' = N
  <2>1. got' \in Nat /\ got' <= sent
    BY <1>2, <1>4, <1>5
  <2>2. gone' \in BOOLEAN
    BY <1>5 DEF Types, Net
  <2> QED
    BY <2>1, <2>2, NetStays DEF HeadMore
<1>7. buf' = [i \in Slots |-> IF fill <= i /\ i < fill + n THEN got + 1 + (i - fill) ELSE buf[i]]
  <2>1. \A i \in Slots : got + 1 + i - fill = got + 1 + (i - fill)
    BY <1>2, Sizes
  <2> QED
    BY <1>5, <2>1
<1>8. Lay(N, buf', fill', <<>>, NoReader, <<>>, got', From)
  <2>1. fill + n <= BufMax
    BY <1>2, <1>4
  <2> QED
    BY <1>1, <1>4, <1>5, <1>7, <2>1, Drained, LayReceive
<1>9. Layout' /\ From' = From
  <2>1. Lay(N', buf', fill', line', reader', pending', got', From)
    BY <1>1, <1>6, <1>8 DEF HeadMore, bodyVars
  <2> QED
    BY <2>1, LayoutNext
<1>10. buf' # NoBuffer
  BY <1>7, HasSlots
<1>11. Modes'
  BY <1>1, <1>10, Drained DEF HeadMore, bodyVars, Modes, Served, InChunks
<1>12. Rest'
  BY <1>6 DEF Types, HeadMore, Rest, bodyVars, workVars
<1> QED
  BY <1>6, <1>9, <1>11, <1>12 DEF Types

LEMMA NothingIs == ASSUME NEW why, Nothing(why) PROVE got' = got /\ gone' \in BOOLEAN
BY DEF Nothing

LEMMA HeadTimesOutType == ASSUME Types, NEW why, HeadTimesOut(why) PROVE Types' /\ From' = From
<1>1. /\ reader = NoReader /\ line = <<>> /\ ~all /\ pending = <<>> /\ buf \in [Slots -> 0..N]
      /\ Lay(N, buf, fill, <<>>, NoReader, <<>>, got, From)
  BY AtHead DEF HeadTimesOut
<1>2. got' = got /\ gone' \in BOOLEAN
  BY NothingIs DEF HeadTimesOut
<1>3. Net' /\ N' = N
  <2>1. got' \in Nat /\ got' <= sent
    BY <1>2, WireType DEF Types, Net
  <2> QED
    BY <1>2, <2>1, NetStays DEF HeadTimesOut
<1>4. pending' = BufOf(buf, 0, fill - 1)
  BY DEF HeadTimesOut, InBuf, BufOf
<1>5. Lay(N, buf, 0, <<>>, NoReader, pending', got, From)
  BY <1>1, <1>4, Drained, LayTimesOut
<1>6. Layout' /\ From' = From
  <2>1. Lay(N', buf', fill', line', reader', pending', got', From)
    BY <1>1, <1>2, <1>3, <1>5 DEF HeadTimesOut, bodyVars
  <2> QED
    BY <2>1, LayoutNext
<1>7. Modes'
  BY <1>1, Drained DEF HeadTimesOut, bodyVars, Modes, Served, InChunks
<1>8. Rest'
  BY <1>3 DEF Types, HeadTimesOut, Rest, bodyVars, workVars, Calls
<1> QED
  BY <1>3, <1>6, <1>7, <1>8 DEF Types

LEMMA HeadEndHere ==
  ASSUME HeadEnds # {}
  PROVE  /\ HeadEnd \in Nat /\ HeadEnd < fill /\ HeadEnd \in Slots /\ Ended \in DOMAIN Heads
         /\ \A i \in HeadEnds : HeadEnd <= i
<1> DEFINE s == HeadEnds
<1>1. s \in SUBSET Nat /\ \A i \in s : i \in Slots /\ i < fill /\ Byte(buf[i]) \in DOMAIN Heads
  BY Sizes DEF HeadEnds
<1> HIDE DEF s
<1>2. Min(s) \in s /\ \A i \in s : Min(s) <= i
  BY <1>1, MinOf DEF s
<1>3. HeadEnd = Min(s)
  BY DEF HeadEnd, s
<1> QED
  BY <1>1, <1>2, <1>3 DEF s, Ended

(* What HeadDone makes of the buffer: a head of m bytes, and k of a body. *)
LEMMA HeadDoneIs ==
  ASSUME Types, HeadDone
  PROVE  \E m \in Nat \ {0}, k \in Nat :
           /\ m = HeadEnd + 1 /\ m + k <= fill
           /\ reader' \in ReaderType /\ reader'.plen = k /\ reader'.payload = (IF k > 0 THEN m ELSE 0)
           /\ reader'.chunked = (Ended = "EC") /\ reader'.complete = FALSE /\ reader'.left = 0
           /\ reader'.length = Heads[Ended]
           /\ pending' = BufOf(buf, m + k, fill - 1)
           /\ Ended = "EC" => m + k = fill
           /\ Ended # "EC" => k <= Heads[Ended] /\ (k < Heads[Ended] => m + k = fill)
<1>1. fill \in Nat /\ HeadEnd \in Nat /\ HeadEnd < fill /\ Ended \in DOMAIN Heads
  BY Facts, HeadEndHere DEF HeadDone
<1>2. PICK n \in Nat : n = Heads[Ended]
  BY <1>1, HeadsType
<1>3. PICK m \in Nat \ {0} : m = HeadEnd + 1 /\ m <= fill
  BY <1>1
<1>4. fill - m \in Nat
  BY <1>1, <1>3
<1>5. PICK k \in Nat : /\ k = (IF Ended = "EC" THEN fill - m ELSE Lesser(fill - m, n)) /\ m + k <= fill
                       /\ Ended = "EC" => m + k = fill
                       /\ Ended # "EC" => k <= n /\ (k < n => m + k = fill)
  <2>1. CASE Ended = "EC"
    BY <1>1, <1>3, <1>4, <2>1
  <2>2. CASE Ended # "EC" /\ fill - m <= n
    BY <1>1, <1>3, <1>4, <2>2 DEF Lesser
  <2>3. CASE Ended # "EC" /\ ~(fill - m <= n)
    BY <1>1, <1>2, <1>3, <1>4, <2>3 DEF Lesser
  <2> QED
    BY <2>1, <2>2, <2>3
<1> DEFINE c == (Ended = "EC")
           s == IF k > 0 THEN m ELSE 0
<1>6. reader' = [NoReader EXCEPT !.chunked = c, !.length = n, !.payload = s, !.plen = k]
  BY <1>2, <1>3, <1>5 DEF HeadDone
<1>7. pending' = BufOf(buf, m + k, fill - 1)
  BY <1>2, <1>3, <1>5 DEF HeadDone, InBuf, BufOf
<1>8. s \in Nat /\ c \in BOOLEAN
  OBVIOUS
<1> HIDE DEF s, c
<1>9. reader' \in ReaderType
  BY <1>6, <1>8, Drained, ReaderMade
<1>10. reader'.chunked = c /\ reader'.complete = FALSE /\ reader'.left = 0 /\ reader'.length = n /\ reader'.payload = s /\ reader'.plen = k
  BY <1>6 DEF NoReader
<1> QED
  BY <1>2, <1>3, <1>5, <1>7, <1>9, <1>10 DEF s, c

LEMMA BufAt ==
  ASSUME Types, fill > 0
  PROVE  buf[0] = From
<1>1. Region(buf, 0, fill, From)
  BY DEF Types, Layout, Lay, LayBytes
<1>2. 0 \in 0..fill - 1 /\ 0 + 0 = 0 /\ From + 0 = From
  BY Facts
<1>3. buf[0 + 0] = From + 0
  BY <1>1, <1>2 DEF Region
<1> QED
  BY <1>2, <1>3

(* When a request begins. *)
LEMMA BeginsType ==
  ASSUME Types, call = "head", HeadEnds # {}, Begins, misled' \in BOOLEAN, strayed' \in BOOLEAN
  PROVE  Net' /\ N' = N /\ got' = got /\ Rest'
<1>1. Net' /\ N' = N /\ got' = got
  BY NetSame DEF Begins
<1>2. first' \in 0..N
  <2>1. fill \in Nat /\ HeadEnd \in Nat /\ HeadEnd < fill
    BY Facts, HeadEndHere
  <2>2. fill > 0 /\ From <= N
    <3>1. /\ From \in Nat /\ Len(line) \in Nat /\ reader.plen \in Nat /\ Len(pending) \in Nat /\ got \in Nat /\ N \in Nat
          /\ From + fill + Len(line) + reader.plen + Len(pending) = got + 1 /\ got <= N
      BY Facts
    <3> QED
      BY <2>1, <3>1
  <2>3. first' = From
    BY <2>2, BufAt DEF Begins
  <2> QED
    BY <2>2, <2>3, Facts
<1>3. served' \in Nat /\ parts' \in Seq(1..N) /\ result' \in Results /\ keep' \in BOOLEAN /\ all' \in BOOLEAN /\ call' \in Calls
  BY DEF Types, Rest, Begins, Results, Calls
<1> QED
  BY <1>1, <1>2, <1>3 DEF Rest

LEMMA NoneOff ==
  ASSUME NEW b, NEW f \in Nat
  PROVE  BufOf(b, f, f - 1) = <<>>
<1>1. (f - 1) + 1 - f = 0
  OBVIOUS
<1>2. BufOf(b, f, f - 1) = [j \in 1..0 |-> b[f + j - 1]]
  BY <1>1 DEF BufOf
<1>3. [j \in 1..0 |-> b[f + j - 1]] = <<>>
  OBVIOUS
<1> QED
  BY <1>2, <1>3

LEMMA HeadDoneType == Types /\ HeadDone => Types' /\ From' = From + HeadEnd + 1
<1> SUFFICES ASSUME Types, HeadDone PROVE Types' /\ From' = From + HeadEnd + 1
  OBVIOUS
<1>1. /\ reader = NoReader /\ line = <<>> /\ ~all /\ pending = <<>> /\ buf \in [Slots -> 0..N]
      /\ Lay(N, buf, fill, <<>>, NoReader, <<>>, got, From)
  BY AtHead DEF HeadDone
<1>2. PICK m \in Nat \ {0}, k \in Nat :
           /\ m = HeadEnd + 1 /\ m + k <= fill
           /\ reader' \in ReaderType /\ reader'.plen = k /\ reader'.payload = (IF k > 0 THEN m ELSE 0)
           /\ reader'.chunked = (Ended = "EC") /\ reader'.complete = FALSE /\ reader'.left = 0
           /\ reader'.length = Heads[Ended]
           /\ pending' = BufOf(buf, m + k, fill - 1)
           /\ Ended = "EC" => m + k = fill
           /\ Ended # "EC" => k <= Heads[Ended] /\ (k < Heads[Ended] => m + k = fill)
  BY HeadDoneIs
<1>3. Net' /\ N' = N /\ got' = got /\ Rest'
  <2>1. misled' \in BOOLEAN /\ strayed' \in BOOLEAN
    BY DEF Types, Rest, HeadDone
  <2> QED
    BY <2>1, BeginsType DEF HeadDone
<1>4. Lay(N, buf, 0, <<>>, reader', pending', got, From + m)
  BY <1>1, <1>2, Drained, LayHeadDone
<1>5. Layout' /\ From' = From + m
  <2>1. Lay(N', buf', fill', line', reader', pending', got', From + m)
    BY <1>1, <1>3, <1>4 DEF HeadDone, Begins
  <2> QED
    BY <2>1, LayoutNext
<1>6. From' = From + HeadEnd + 1
  BY <1>2, <1>5, Facts, HeadEndHere DEF HeadDone
<1>7. m + k = fill => pending' = <<>>
  BY <1>2, Facts, NoneOff
<1>8. Heads["EC"] = 0 /\ buf # NoBuffer
  BY <1>1, HasSlots DEF Heads
<1>9. Ended # "EC" => Heads[Ended] \in Nat
  BY HeadEndHere, HeadsType DEF HeadDone
<1>10. call' = "handler" /\ all' = all /\ buf' = buf /\ fill' = 0 /\ line' = line
  BY DEF HeadDone, Begins
<1>11. Modes'
  <2>1. reader'.chunked => pending' = <<>> /\ reader'.length = 0
    BY <1>2, <1>7, <1>8
  <2>2. ~reader'.chunked => reader'.left = 0 /\ ~reader'.complete /\ reader'.plen <= reader'.length
                            /\ (reader'.length > reader'.plen => pending' = <<>>)
    BY <1>2, <1>7, <1>9
  <2> QED
    BY <1>1, <1>2, <1>8, <1>10, <2>1, <2>2 DEF Modes, Served, InChunks
<1> QED
  BY <1>3, <1>5, <1>6, <1>11 DEF Types

(* Bytes are taken from the front of the buffer, and no body is behind     *)
(* them.                                                                   *)
OffReader(r, c) ==
  /\ r \in ReaderType /\ r.chunked = c /\ r.complete = FALSE /\ r.left = 0 /\ r.length = 0
  /\ r.payload = 0 /\ r.plen = 0

LEMMA OffReaderIs ==
  OffReader(NoReader, FALSE) /\ \A c \in BOOLEAN : OffReader([NoReader EXCEPT !.chunked = c], c)
BY DEF OffReader, NoReader, ReaderType

LEMMA HeadOff ==
  ASSUME Types, call = "head", HeadEnds # {}, Begins, misled' \in BOOLEAN, strayed' \in BOOLEAN,
         NEW m \in 1..fill, NEW c \in BOOLEAN, OffReader(reader', c),
         pending' = BufOf(buf, m, fill - 1), c => m = fill
  PROVE  Types'
<1>1. /\ reader = NoReader /\ line = <<>> /\ ~all /\ pending = <<>> /\ buf \in [Slots -> 0..N]
      /\ Lay(N, buf, fill, <<>>, NoReader, <<>>, got, From)
  BY AtHead
<1>2. fill \in Nat /\ m \in Nat \ {0} /\ m + 0 <= fill /\ m + 0 = m
  BY Facts
<1>3. Net' /\ N' = N /\ got' = got /\ Rest'
  BY BeginsType
<1>4. /\ reader' \in ReaderType /\ reader'.chunked = c /\ reader'.complete = FALSE /\ reader'.left = 0 /\ reader'.length = 0
      /\ reader'.payload = 0 /\ reader'.plen = 0
  BY DEF OffReader
<1>5. Lay(N, buf, 0, <<>>, reader', pending', got, From + m)
  <2>1. pending' = BufOf(buf, m + 0, fill - 1)
    BY <1>2
  <2>2. 0 \in Nat /\ reader'.payload = IF 0 > 0 THEN m ELSE 0
    BY <1>4
  <2>3. Lay(N, buf, 0, <<>>, reader', BufOf(buf, m + 0, fill - 1), got, From + m)
    BY <1>1, <1>2, <1>4, <2>2, Drained, LayHeadDone
  <2> QED
    BY <2>1, <2>3
<1>6. call' = "handler" /\ all' = all /\ buf' = buf /\ fill' = 0 /\ line' = line
  BY DEF Begins
<1>7. Layout'
  <2>1. Lay(N', buf', fill', line', reader', pending', got', From + m)
    BY <1>1, <1>3, <1>5, <1>6
  <2> QED
    BY <2>1, LayoutNext
<1>8. c => pending' = <<>>
  BY <1>2, NoneOff
<1>9. Modes'
  <2>1. buf # NoBuffer
    BY <1>1, HasSlots
  <2> QED
    BY <1>1, <1>4, <1>6, <1>8, <2>1 DEF Modes, Served, InChunks
<1> QED
  BY <1>3, <1>7, <1>9 DEF Types

LEMMA HeadOddType == Types /\ HeadOdd => Types'
<1> SUFFICES ASSUME Types, HeadOdd PROVE Types'
  OBVIOUS
<1>1. call = "head" /\ HeadEnds # {} /\ Begins /\ misled' \in BOOLEAN /\ strayed' \in BOOLEAN
  BY DEF HeadOdd, Types, Rest
<1>2. fill \in Nat /\ HeadEnd \in Nat /\ HeadEnd < fill
  BY <1>1, Facts, HeadEndHere
<1>3. CASE \E c \in BOOLEAN : reader' = [NoReader EXCEPT !.chunked = c] /\ pending' = <<>>
  <2>1. PICK c \in BOOLEAN : reader' = [NoReader EXCEPT !.chunked = c] /\ pending' = <<>>
    BY <1>3
  <2>2. fill \in 1..fill /\ pending' = BufOf(buf, fill, fill - 1)
    BY <1>2, <2>1, NoneOff
  <2> QED
    BY <1>1, <2>1, <2>2, OffReaderIs, HeadOff
<1>4. CASE \E m \in 1..HeadEnd : reader' = NoReader /\ pending' = InBuf(m, fill - 1)
  <2>1. PICK m \in 1..HeadEnd : reader' = NoReader /\ pending' = InBuf(m, fill - 1)
    BY <1>4
  <2>2. m \in 1..fill /\ pending' = BufOf(buf, m, fill - 1)
    BY <1>2, <2>1 DEF InBuf, BufOf
  <2> QED
    BY <1>1, <2>1, <2>2, OffReaderIs, HeadOff
<1> QED
  BY <1>3, <1>4 DEF HeadOdd

LEMMA HeadForgetsType == Types /\ HeadForgets => Types'
<1> SUFFICES ASSUME Types, HeadForgets PROVE Types'
  OBVIOUS
<1>1. call = "head" /\ HeadEnds # {} /\ Begins /\ misled' \in BOOLEAN /\ strayed' \in BOOLEAN
  BY DEF HeadForgets, Strays, Types, Rest
<1>2. HeadEnd + 1 \in 1..fill /\ pending' = BufOf(buf, HeadEnd + 1, fill - 1)
  BY <1>1, Facts, HeadEndHere DEF HeadForgets, InBuf, BufOf
<1>3. OffReader(reader', FALSE)
  BY OffReaderIs DEF HeadForgets
<1> QED
  BY <1>1, <1>2, <1>3, HeadOff

-----------------------------------------------------------------------------
(* The steps within httpserver_read_content_ex().                          *)

LEMMA CodeType == ASSUME NEW why, Nothing(why) PROVE why \in Whys /\ (Net => Code(why) \in {"ERROR", "CONNECTION", "TLS", "end"})
<1>1. why \in Whys
  BY DEF Nothing, Whys
<1>2. Net => client.tls \in BOOLEAN
  BY WireType
<1> QED
  BY <1>1, <1>2 DEF Whys, Code

LEMMA EndsType ==
  ASSUME Types, NEW r \in Results, Ends(r)
  PROVE  call' = "handler" /\ all' = FALSE /\ result' \in Results /\ parts' \in Seq(1..N)
<1>1. parts \in Seq(1..N) /\ <<>> \in Seq(1..N)
  BY DEF Types, Rest
<1> QED
  BY <1>1 DEF Ends, Results

LEMMA GiveType ==
  ASSUME Types, NEW more \in Seq(1..N), Give(more)
  PROVE  /\ call' \in {"handler", "content"} /\ all' \in BOOLEAN /\ (call' = "handler" => all' = FALSE)
         /\ result' \in Results /\ parts' \in Seq(1..N)
<1>1. parts \in Seq(1..N) /\ parts \o more \in Seq(1..N) /\ all \in BOOLEAN /\ result \in Results
  BY Joined DEF Types, Rest
<1>2. {"LENGTH", "MEMORY", "part"} \subseteq Results
  BY DEF Results, Codes
<1>3. CASE ~all /\ parts' = parts \o more /\ result' = "part" /\ call' = "handler" /\ UNCHANGED all
  BY <1>1, <1>2, <1>3
<1>4. CASE all /\ parts' = parts \o more /\ call' = "content" /\ UNCHANGED <<all, result>>
  BY <1>1, <1>4
<1>5. CASE Ends("LENGTH") \/ Ends("MEMORY")
  BY <1>2, <1>5, EndsType
<1> QED
  BY <1>3, <1>4, <1>5 DEF Give

LEMMA BufBytes ==
  ASSUME Types
  PROVE  /\ InBuf(0, fill - 1) = Places(From, From + fill - 1) /\ InBuf(0, fill - 1) \in Seq(1..N)
         /\ (line = <<>> /\ fill = 0) =>
              /\ InBuf(reader.payload, reader.payload + reader.plen - 1) = Places(From, From + reader.plen - 1)
              /\ InBuf(reader.payload, reader.payload + reader.plen - 1) \in Seq(1..N)
<1>1. /\ From \in Nat \ {0} /\ fill \in Nat /\ Len(line) \in Nat /\ reader.plen \in Nat /\ Len(pending) \in Nat /\ reader.payload \in Nat
      /\ From + fill + Len(line) + reader.plen + Len(pending) = got + 1 /\ got \in Nat /\ N \in Nat /\ got <= N
  BY Facts
<1>2. From + fill - 1 <= N /\ From + reader.plen - 1 <= N /\ 0 + fill - 1 = fill - 1
  BY <1>1
<1>3. Places(From, From + fill - 1) \in Seq(1..N) /\ Places(From, From + reader.plen - 1) \in Seq(1..N)
  <2>1. From \in Nat /\ From >= 1
    BY <1>1
  <2>2. Places(From, From + fill - 1) \in Seq(1..N)
    BY <1>1, <1>2, <2>1, PlacesType
  <2>3. Places(From, From + reader.plen - 1) \in Seq(1..N)
    BY <1>1, <1>2, <2>1, PlacesType
  <2> QED
    BY <2>2, <2>3
<1>4. LayBytes(buf, fill, line, reader, pending, From)
  BY DEF Types, Layout, Lay
<1>5. InBuf(0, fill - 1) = Places(From, From + fill - 1)
  <2>1. BufOf(buf, 0, 0 + fill - 1) = Places(From, From + fill - 1)
    BY <1>1, <1>4, BufOfIs DEF LayBytes
  <2> QED
    BY <1>2, <2>1 DEF BufOf, InBuf
<1>6. ASSUME line = <<>>, fill = 0
      PROVE  InBuf(reader.payload, reader.payload + reader.plen - 1) = Places(From, From + reader.plen - 1)
  <2>1. From + fill + Len(line) = From
    BY <1>1, <1>6
  <2>2. reader.plen > 0 => Region(buf, reader.payload, reader.plen, From)
    BY <1>4, <2>1 DEF LayBytes
  <2>3. BufOf(buf, reader.payload, reader.payload + reader.plen - 1) = Places(From, From + reader.plen - 1)
    <3>1. PICK s \in Nat, n \in Nat, p \in Nat : s = reader.payload /\ n = reader.plen /\ p = From
      BY <1>1
    <3>2. n > 0 => Region(buf, s, n, p)
      BY <2>2, <3>1
    <3>3. BufOf(buf, s, s + n - 1) = Places(p, p + n - 1)
      BY <3>2, BufOfIs
    <3> QED
      BY <3>1, <3>3
  <2> QED
    BY <2>3 DEF BufOf, InBuf
<1> QED
  BY <1>3, <1>5, <1>6

LEMMA StraysType == ASSUME Types, NEW now, Strays(now) PROVE strayed' \in BOOLEAN
BY DEF Strays

LEMMA ReadContentType == Types /\ ReadContent => Types' /\ From' = From
<1> SUFFICES ASSUME Types, ReadContent PROVE Types' /\ From' = From
  OBVIOUS
<1>1. Net' /\ N' = N /\ got' = got
  BY NetSame DEF ReadContent
<1>2. UNCHANGED <<buf, fill, pending, reader, keep, line, all, result, parts, first, served, misled>> /\ call = "handler" /\ call' = "content"
  BY DEF ReadContent, bodyVars
<1>3. Layout' /\ From' = From
  BY <1>1, <1>2 DEF Types, Layout, From
<1>4. Modes'
  BY <1>2 DEF Types, Modes, Served, InChunks
<1>5. Rest'
  BY <1>1, <1>2, StraysType DEF Types, Rest, Calls, ReadContent
<1> QED
  BY <1>1, <1>3, <1>4, <1>5 DEF Types

LEMMA ReadAllContentType == Types /\ ReadAllContent => Types' /\ From' = From
<1> SUFFICES ASSUME Types, ReadAllContent PROVE Types' /\ From' = From
  OBVIOUS
<1>1. Net' /\ N' = N /\ got' = got
  BY NetSame DEF ReadAllContent
<1>2. UNCHANGED <<buf, fill, pending, reader, keep, line, parts, workVars>> /\ call = "handler"
  BY DEF ReadAllContent
<1>3. call' \in {"handler", "content"} /\ all' \in BOOLEAN /\ (call' = "handler" => ~all') /\ result' \in Results
  <2>1. all \in BOOLEAN /\ result \in Results /\ ~all
    BY DEF ReadAllContent, Types, Modes, Rest
  <2>2. "LENGTH" \in Results /\ "MEMORY" \in Results
    BY DEF Results, Codes
  <2>3. \/ call' = "content" /\ all' = TRUE /\ result' = result
        \/ call' = call /\ all' = all /\ result' \in {"LENGTH", "MEMORY"}
    BY DEF ReadAllContent
  <2>4. CASE call' = "content" /\ all' = TRUE /\ result' = result
    BY <2>1, <2>4
  <2>5. CASE call' = call /\ all' = all /\ result' \in {"LENGTH", "MEMORY"}
    <3>1. call' = "handler" /\ all' \in BOOLEAN /\ ~all'
      BY <1>2, <2>1, <2>5
    <3> QED
      BY <2>2, <2>5, <3>1
  <2> QED
    BY <2>3, <2>4, <2>5
<1>4. Layout' /\ From' = From
  BY <1>1, <1>2 DEF Types, Layout, From
<1>5. Modes'
  BY <1>2, <1>3 DEF Types, Modes, Served, InChunks
<1>6. Rest'
  BY <1>1, <1>2, <1>3 DEF Types, Rest, workVars, Calls
<1> QED
  BY <1>1, <1>4, <1>5, <1>6 DEF Types

LEMMA ContentOverType == Types /\ ContentOver => Types' /\ From' = From
<1> SUFFICES ASSUME Types, ContentOver PROVE Types' /\ From' = From
  OBVIOUS
<1>1. Net' /\ N' = N /\ got' = got
  BY NetSame DEF ContentOver
<1>2. UNCHANGED <<buf, fill, pending, reader, keep, line, workVars>> /\ call = "content"
  BY DEF ContentOver
<1>3. call' = "handler" /\ all' = FALSE /\ result' \in Results /\ parts' \in Seq(1..N)
  <2>1. "end" \in Results
    BY DEF Results
  <2> QED
    BY <2>1, EndsType DEF ContentOver
<1>4. Layout' /\ From' = From
  BY <1>1, <1>2 DEF Types, Layout, From
<1>5. Modes'
  BY <1>2, <1>3 DEF Types, Modes, Served, InChunks
<1>6. Rest'
  BY <1>1, <1>2, <1>3 DEF Types, Rest, workVars, Calls
<1> QED
  BY <1>1, <1>4, <1>5, <1>6 DEF Types

LEMMA ContentPayloadType == Types /\ ContentPayload => Types' /\ From' = From + reader.plen
<1> SUFFICES ASSUME Types, ContentPayload PROVE Types' /\ From' = From + reader.plen
  OBVIOUS
<1>1. Net' /\ N' = N /\ got' = got
  BY NetSame DEF ContentPayload
<1>2. UNCHANGED <<buf, fill, pending, keep, line, workVars>> /\ call = "content" /\ fill = 0 /\ line = <<>> /\ ~reader.chunked
  BY DEF ContentPayload, Types, Modes
<1>3. call' \in {"handler", "content"} /\ all' \in BOOLEAN /\ (call' = "handler" => all' = FALSE) /\ result' \in Results /\ parts' \in Seq(1..N)
  BY <1>2, BufBytes, GiveType DEF ContentPayload
<1>4. PICK n \in Nat : n = reader.length - reader.plen /\ (n > 0 => pending = <<>>)
  <2>1. reader.plen <= reader.length /\ (reader.length > reader.plen => pending = <<>>)
    BY <1>2 DEF Types, Modes
  <2>2. reader.length - reader.plen \in Nat /\ (reader.length - reader.plen > 0 => reader.length > reader.plen)
    BY <2>1, Facts
  <2> QED
    BY <2>1, <2>2
<1>5. reader' = [reader EXCEPT !.payload = 0, !.plen = 0, !.length = n]
  BY <1>4 DEF ContentPayload
<1>6. /\ reader' \in ReaderType /\ reader'.payload = 0 /\ reader'.plen = 0 /\ reader'.length = n /\ reader'.chunked = reader.chunked
      /\ reader'.complete = reader.complete /\ reader'.left = reader.left
  <2>1. reader \in ReaderType /\ 0 \in Nat
    BY Facts
  <2>2. reader' \in ReaderType
    BY <1>5, <2>1, ReaderMade
  <2> QED
    BY <1>5, <2>1, <2>2 DEF ReaderType
<1>7. Layout' /\ From' = From + reader.plen
  <2>1. Lay(N, buf, 0, <<>>, reader, pending, got, From)
    BY <1>2 DEF Types, Layout
  <2>2. Lay(N, buf, 0, <<>>, reader', pending, got, From + reader.plen)
    BY <1>6, <2>1, LayDropPayload
  <2>3. Lay(N', buf', fill', line', reader', pending', got', From + reader.plen)
    BY <1>1, <1>2, <2>2
  <2> QED
    BY <2>3, LayoutNext
<1>8. Modes'
  <2>1. ~reader'.chunked /\ reader'.left = 0 /\ ~reader'.complete /\ reader'.plen <= reader'.length /\ (reader'.length > reader'.plen => pending' = <<>>)
    BY <1>2, <1>4, <1>6 DEF Types, Modes
  <2>2. buf' # NoBuffer
    BY <1>2 DEF Types, Modes, Served
  <2> QED
    BY <1>2, <1>3, <2>1, <2>2 DEF Modes, Served, InChunks
<1>9. Rest'
  BY <1>1, <1>2, <1>3 DEF Types, Rest, workVars, Calls
<1> QED
  BY <1>1, <1>7, <1>8, <1>9 DEF Types

LEMMA ContentBeginsType == Types /\ ContentBegins => Types' /\ From' = From /\ fill = 0 /\ line = <<>>
<1> SUFFICES ASSUME Types, ContentBegins PROVE Types' /\ From' = From /\ fill = 0 /\ line = <<>>
  OBVIOUS
<1>1. Net' /\ N' = N /\ got' = got
  BY NetSame DEF ContentBegins
<1>2. UNCHANGED <<buf, fill, pending, reader, keep, line, all, result, parts, workVars>> /\ call = "content" /\ fill = 0 /\ line = <<>>
  BY DEF ContentBegins, Types, Modes
<1>3. Layout' /\ From' = From
  BY <1>1, <1>2 DEF Types, Layout, From
<1>4. reader.left \in Nat /\ reader.chunked \in BOOLEAN /\ reader.plen \in Nat /\ (reader.payload = 0 <=> reader.plen = 0) /\ reader.length \in Nat
  BY Facts
<1>5. \/ call' = "read" /\ ~reader.chunked /\ reader.plen = 0 /\ reader.length > 0
      \/ call' = "size" /\ reader.chunked /\ ~reader.complete /\ reader.left = 0
      \/ call' = "data" /\ reader.chunked /\ ~reader.complete /\ reader.left > 0
  <2>1. CASE ~reader.chunked
    BY <1>4, <2>1 DEF ContentBegins
  <2>2. CASE reader.chunked /\ reader.left = 0
    BY <1>4, <2>2 DEF ContentBegins
  <2>3. CASE reader.chunked /\ reader.left > 0
    BY <1>4, <2>3 DEF ContentBegins
  <2> QED
    BY <1>4, <2>1, <2>2, <2>3
<1>6. call' \in Calls /\ (Served)' /\ call' \notin {"idle", "closed", "head", "handler", "content", "trailer", "newline"}
  BY <1>5 DEF Calls, Turns, Served, InChunks
<1>7. 0 <= Want
  BY <1>4, Sizes DEF Want, Lesser
<1>8. Modes'
  <2>1. Want' = Want
    BY <1>2 DEF Want
  <2>2. buf' # NoBuffer
    BY <1>2 DEF Types, Modes, Served
  <2>3. /\ reader.chunked => pending = <<>> /\ reader.length = 0
        /\ ~reader.chunked => reader.left = 0 /\ ~reader.complete /\ reader.plen <= reader.length
                        /\ (reader.length > reader.plen => pending = <<>>)
        /\ reader.complete => reader.left = 0
    BY DEF Types, Modes
  <2>4. /\ call' = "read" => ~reader'.chunked /\ reader'.plen = 0 /\ reader'.length > 0
        /\ (call \in InChunks)' => reader'.chunked /\ ~reader'.complete
        /\ call' \in {"size", "trailer"} => reader'.left = 0 /\ fill' = 0
        /\ call' = "data" => reader'.left > 0 /\ line' = <<>> /\ fill' <= Want'
    BY <1>2, <1>5, <1>7, <2>1 DEF InChunks
  <2> QED
    BY <1>2, <1>6, <2>2, <2>3, <2>4 DEF Modes
<1>9. Rest'
  BY <1>1, <1>2, <1>6 DEF Types, Rest, workVars
<1> QED
  BY <1>1, <1>2, <1>3, <1>8, <1>9 DEF Types

(* The bytes of an announced length that has to be waited for. *)
LEMMA AtRead ==
  ASSUME Types, call = "read"
  PROVE  /\ ~reader.chunked /\ reader.plen = 0 /\ reader.payload = 0 /\ reader.length \in Nat \ {0} /\ pending = <<>>
         /\ fill = 0 /\ line = <<>> /\ buf \in [Slots -> 0..N] /\ From = got + 1
         /\ Lay(N, buf, 0, <<>>, reader, <<>>, got, From)
<1>1. ~reader.chunked /\ reader.plen = 0 /\ reader.length > 0 /\ fill = 0 /\ line = <<>> /\ buf # NoBuffer
      /\ (reader.length > reader.plen => pending = <<>>)
  BY DEF Types, Modes, Served
<1>2. pending = <<>>
  BY <1>1
<1>3. reader.length \in Nat /\ (reader.payload = 0 <=> reader.plen = 0) /\ buf \in [Slots -> 0..N]
  BY <1>1, Facts
<1>4. Lay(N, buf, 0, <<>>, reader, <<>>, got, From)
  BY <1>1, <1>2 DEF Types, Layout
<1>5. From = got + 1
  <2>1. From + fill + Len(line) + reader.plen + Len(pending) = got + 1 /\ From \in Nat /\ got \in Nat
    BY Facts
  <2>2. From + 0 + 0 + 0 + 0 = got + 1
    BY <1>1, <1>2, <2>1, NoRun
  <2> QED
    BY <2>1, <2>2
<1> QED
  BY <1>1, <1>2, <1>3, <1>4, <1>5

LEMMA ReadBodyIs ==
  ASSUME Types, ReadBody
  PROVE  \E n \in Nat \ {0} :
           /\ n <= reader.length /\ n <= BufMax /\ got + n <= sent /\ got + n <= N /\ got' = got + n /\ ~gone /\ gone' = gone
           /\ Places(From, From + n - 1) \in Seq(1..N) /\ Give(Places(From, From + n - 1))
           /\ buf' = [i \in Slots |-> IF i < n THEN got + 1 + i ELSE buf[i]]
           /\ reader' = [reader EXCEPT !.length = reader.length - n] /\ reader.length - n \in Nat
<1>1. reader.length \in Nat /\ From = got + 1 /\ got \in Nat /\ N \in Nat
  BY AtRead, Facts DEF ReadBody
<1>2. PICK most \in Nat : most = Lesser(reader.length, BufMax) /\ most <= reader.length /\ most <= BufMax
  BY <1>1, Sizes DEF Lesser
<1>3. PICK n \in Nat : n = Arrived(most) /\ n <= most /\ got + n <= sent /\ got + n <= N
  BY ArrivedIs
<1>4. /\ ~gone /\ n > 0 /\ got' = got + n /\ gone' = gone
      /\ buf' = [i \in Slots |-> IF i < n THEN got + 1 + i ELSE buf[i]]
      /\ Give(Places(got + 1, got + n))
      /\ reader' = [reader EXCEPT !.length = @ - n]
  BY <1>2, <1>3 DEF ReadBody, Receive
<1>5. n \in Nat \ {0} /\ n <= reader.length /\ n <= BufMax /\ reader.length - n \in Nat
  BY <1>1, <1>2, <1>3, <1>4, Sizes
<1>6. From + n - 1 = got + n /\ From \in Nat /\ From >= 1 /\ From + n - 1 <= N
  BY <1>1, <1>3
<1>7. Places(From, From + n - 1) \in Seq(1..N)
  BY <1>1, <1>6, PlacesType
<1>8. Give(Places(From, From + n - 1))
  BY <1>1, <1>4, <1>6
<1> QED
  BY <1>3, <1>4, <1>5, <1>7, <1>8

LEMMA LengthMade ==
  ASSUME NEW r \in ReaderType, NEW n \in Nat, NEW q, q = [r EXCEPT !.length = n]
  PROVE  /\ q \in ReaderType /\ q.payload = r.payload /\ q.plen = r.plen /\ q.length = n /\ q.chunked = r.chunked
         /\ q.complete = r.complete /\ q.left = r.left
BY DEF ReaderType

LEMMA LeftMade ==
  ASSUME NEW r \in ReaderType, NEW n \in Nat, NEW q, q = [r EXCEPT !.left = n]
  PROVE  /\ q \in ReaderType /\ q.payload = r.payload /\ q.plen = r.plen /\ q.length = r.length /\ q.chunked = r.chunked
         /\ q.complete = r.complete /\ q.left = n
BY DEF ReaderType

LEMMA CompleteMade ==
  ASSUME NEW r \in ReaderType, NEW q, q = [r EXCEPT !.complete = TRUE]
  PROVE  /\ q \in ReaderType /\ q.payload = r.payload /\ q.plen = r.plen /\ q.length = r.length /\ q.chunked = r.chunked
         /\ q.complete = TRUE /\ q.left = r.left
BY DEF ReaderType

LEMMA ReadBodyType == Types /\ ReadBody => Types'
<1> SUFFICES ASSUME Types, ReadBody PROVE Types'
  OBVIOUS
<1>1. PICK n \in Nat \ {0} :
           /\ n <= reader.length /\ n <= BufMax /\ got + n <= sent /\ got + n <= N /\ got' = got + n /\ ~gone /\ gone' = gone
           /\ Places(From, From + n - 1) \in Seq(1..N) /\ Give(Places(From, From + n - 1))
           /\ buf' = [i \in Slots |-> IF i < n THEN got + 1 + i ELSE buf[i]]
           /\ reader' = [reader EXCEPT !.length = reader.length - n] /\ reader.length - n \in Nat
  BY ReadBodyIs
<1>2. /\ ~reader.chunked /\ reader.plen = 0 /\ reader.payload = 0 /\ pending = <<>>
      /\ fill = 0 /\ line = <<>> /\ buf \in [Slots -> 0..N] /\ Lay(N, buf, 0, <<>>, reader, <<>>, got, From)
  BY AtRead DEF ReadBody
<1>3. Net' /\ N' = N
  <2>1. got' \in Nat /\ got' <= sent /\ gone' \in BOOLEAN
    BY <1>1, Facts DEF Types, Net
  <2> QED
    BY <2>1, NetStays DEF ReadBody
<1>4. call' \in {"handler", "content"} /\ all' \in BOOLEAN /\ (call' = "handler" => all' = FALSE) /\ result' \in Results /\ parts' \in Seq(1..N)
  BY <1>1, GiveType
<1>5. /\ reader' \in ReaderType /\ reader'.payload = 0 /\ reader'.plen = 0 /\ reader'.chunked = reader.chunked
      /\ reader'.complete = reader.complete /\ reader'.left = reader.left /\ reader'.length \in Nat
  <2>1. reader \in ReaderType
    BY Facts
  <2> QED
    BY <1>1, <1>2, <2>1, LengthMade
<1>6. Layout'
  <2>1. Lay(N, buf', 0, <<>>, reader', <<>>, got', From + n)
    BY <1>1, <1>2, <1>5, LayReadBody
  <2>2. Lay(N', buf', fill', line', reader', pending', got', From + n)
    BY <1>2, <1>3, <2>1 DEF ReadBody
  <2> QED
    BY <2>2, LayoutNext
<1>7. Modes'
  <2>1. ~reader'.chunked /\ reader'.left = 0 /\ ~reader'.complete /\ reader'.plen <= reader'.length /\ pending' = <<>>
    BY <1>2, <1>5 DEF Types, Modes, ReadBody
  <2>2. buf' # NoBuffer
    BY <1>1, HasSlots
  <2>3. fill' = 0 /\ line' = <<>>
    BY <1>2 DEF ReadBody
  <2> QED
    BY <1>4, <2>1, <2>2, <2>3 DEF Modes, Served, InChunks
<1>8. Rest'
  BY <1>3, <1>4 DEF Types, ReadBody, Rest, workVars, Calls
<1> QED
  BY <1>3, <1>6, <1>7, <1>8 DEF Types

LEMMA BodyCutType == ASSUME Types, NEW why, BodyCut(why) PROVE Types'
<1>1. got' = got /\ gone' \in BOOLEAN
  BY NothingIs DEF BodyCut
<1>2. Net' /\ N' = N
  <2>1. got' \in Nat /\ got' <= sent
    BY <1>1, WireType DEF Types, Net
  <2> QED
    BY <1>1, <2>1, NetStays DEF BodyCut
<1>3. call' = "handler" /\ all' = FALSE /\ result' \in Results /\ parts' \in Seq(1..N)
  <2>1. Code(why) \in Results
    BY CodeType DEF Types, BodyCut, Results, Codes
  <2> QED
    BY <2>1, EndsType DEF BodyCut
<1>4. UNCHANGED <<buf, pending, reader, keep, workVars>> /\ fill' = 0 /\ line' = <<>> /\ call \in {"read"} \cup InChunks
  BY DEF BodyCut, InChunks
<1>5. Layout'
  <2>1. Lay(N, buf, 0, <<>>, reader, pending, got, From + fill + Len(line))
    BY LayDrop DEF Types, Layout
  <2>2. Lay(N', buf', fill', line', reader', pending', got', From + fill + Len(line))
    BY <1>1, <1>2, <1>4, <2>1
  <2> QED
    BY <2>2, LayoutNext
<1>6. Modes'
  BY <1>3, <1>4 DEF Types, Modes, Served, InChunks
<1>7. Rest'
  BY <1>2, <1>3, <1>4 DEF Types, Rest, workVars, Calls
<1> QED
  BY <1>2, <1>5, <1>6, <1>7 DEF Types

-----------------------------------------------------------------------------
(* The steps within chunks.                                                *)

LEMMA AtChunks ==
  ASSUME Types, call \in InChunks
  PROVE  /\ reader.chunked /\ ~reader.complete /\ pending = <<>> /\ reader.length = 0 /\ buf \in [Slots -> 0..N]
         /\ Lay(N, buf, fill, line, reader, <<>>, got, From)
         /\ From + fill + Len(line) + reader.plen = got + 1
         /\ call \in {"size", "trailer"} => reader.left = 0 /\ fill = 0
         /\ call = "data" => reader.left > 0 /\ line = <<>> /\ fill <= Want
         /\ call = "newline" => reader.left = 0 /\ fill > 0 /\ Len(line) <= 2
<1>1. reader.chunked /\ ~reader.complete /\ buf # NoBuffer
  BY DEF Types, Modes, Served
<1>2. pending = <<>> /\ reader.length = 0
  BY <1>1 DEF Types, Modes
<1>3. Lay(N, buf, fill, line, reader, <<>>, got, From)
  BY <1>2 DEF Types, Layout
<1>4. From + fill + Len(line) + reader.plen = got + 1
  <2>1. From + fill + Len(line) + reader.plen + Len(pending) = got + 1 /\ Len(pending) = 0
    BY <1>2, Facts
  <2> QED
    BY <2>1, Facts
<1> QED
  BY <1>1, <1>2, <1>3, <1>4, Facts DEF Types, Modes

(* Modes of a turn within chunks, and of the handler behind one. *)
LEMMA ChunkModes ==
  ASSUME Types, call \in InChunks, pending' = pending, buf' # NoBuffer,
         reader'.chunked = reader.chunked, reader'.length = reader.length
  PROVE  /\ call' \in {"handler", "content"} /\ fill' = 0 /\ line' = <<>> /\ (call' = "handler" => ~all') /\ (reader'.complete => reader'.left = 0)
              => Modes'
         /\ call' \in {"size", "trailer"} /\ fill' = 0 /\ reader'.left = 0 /\ ~reader'.complete => Modes'
         /\ call' = "data" /\ reader'.left > 0 /\ line' = <<>> /\ fill' <= Want' /\ ~reader'.complete => Modes'
         /\ call' = "newline" /\ reader'.left = 0 /\ fill' > 0 /\ Len(line') <= 2 /\ ~reader'.complete => Modes'
<1>1. reader'.chunked /\ pending' = <<>> /\ reader'.length = 0
  BY AtChunks
<1> QED
  BY <1>1 DEF Modes, Served, InChunks

LEMMA TakeByteIs ==
  ASSUME Types, TakeByte
  PROVE  \E v \in Nat :
           /\ line' = Append(line, v) /\ v = From + fill + Len(line) /\ Len(line) + 1 < LineMax
           /\ Lay(N, buf, fill, line', reader', <<>>, got', From)
           /\ reader' \in ReaderType /\ reader'.chunked = reader.chunked /\ reader'.complete = reader.complete
           /\ reader'.left = reader.left /\ reader'.length = reader.length
           /\ got' \in Nat /\ got' <= sent /\ v <= sent /\ gone' = gone /\ (gone => reader.plen > 0)
<1>1. /\ buf \in [Slots -> 0..N] /\ Lay(N, buf, fill, line, reader, <<>>, got, From)
  <2>1. call \in InChunks
    BY DEF TakeByte, InChunks
  <2> QED
    BY <2>1, AtChunks
<1>2. Len(line) + 1 < LineMax
  <2>1. CASE call = "newline"
    <3>1. Len(line) < 2 /\ LineMax >= 3 /\ Len(line) < LineMax /\ Len(line) \in Nat /\ LineMax \in Nat
      BY <2>1, Facts, Sizes DEF TakeByte
    <3> QED
      BY <3>1
  <2>2. CASE call # "newline"
    <3>1. Len(line) < LineMax - 1
      BY <2>2 DEF TakeByte
    <3> QED
      BY <3>1, Facts, Sizes
  <2> QED
    BY <2>1, <2>2
<1>3. sent \in Nat /\ got \in Nat /\ got <= sent /\ sent <= N /\ N \in Nat
  BY WireType DEF Types, Net
<1>4. CASE reader.plen > 0 /\ line' = Append(line, buf[reader.payload]) /\ reader' = Payload(1) /\ UNCHANGED sockVars
  <2>1. reader' = PayloadOf(reader, 1)
    BY <1>4 DEF Payload, PayloadOf
  <2>2. Lay(N, buf, fill, line', reader', <<>>, got, From) /\ buf[reader.payload] = From + fill + Len(line)
    BY <1>1, <1>2, <1>4, <2>1, LayTakeByte
  <2>3. 1 <= reader.plen
    BY <1>4, Facts
  <2>4. /\ reader' \in ReaderType /\ reader'.chunked = reader.chunked /\ reader'.complete = reader.complete
        /\ reader'.left = reader.left /\ reader'.length = reader.length
    BY <2>1, <2>3, Facts, PayloadOfIs
  <2>5. From + fill + Len(line) \in Nat /\ From + fill + Len(line) <= sent
    <3>1. From + fill + Len(line) + reader.plen + Len(pending) = got + 1
      BY Facts
    <3> QED
      BY <1>3, <2>3, <3>1, Facts
  <2> QED
    BY <1>2, <1>3, <1>4, <2>2, <2>4, <2>5 DEF sockVars
<1>5. CASE reader.plen = 0 /\ line' = Append(line, got + 1) /\ sent > got /\ Receive(1) /\ UNCHANGED reader
  <2>1. got' = got + 1 /\ got + 1 <= N /\ got + 1 <= sent /\ got + 1 \in Nat /\ gone' = gone /\ ~gone
    BY <1>3, <1>5 DEF Receive
  <2>2. Lay(N, buf, fill, line', reader, <<>>, got + 1, From) /\ got + 1 = From + fill + Len(line)
    BY <1>1, <1>2, <1>5, <2>1, LayReceiveByte
  <2> QED
    BY <1>2, <1>3, <1>5, <2>1, <2>2, Facts
<1> QED
  BY <1>4, <1>5 DEF TakeByte

LEMMA TakeByteType == Types /\ TakeByte => Types' /\ From' = From
<1> SUFFICES ASSUME Types, TakeByte PROVE Types' /\ From' = From
  OBVIOUS
<1>0. call \in InChunks /\ call' = call /\ UNCHANGED <<netVars, buf, fill, pending, keep, call, all, result, parts, workVars>>
  BY DEF TakeByte, InChunks
<1>1. PICK v \in Nat :
           /\ line' = Append(line, v) /\ v = From + fill + Len(line) /\ Len(line) + 1 < LineMax
           /\ Lay(N, buf, fill, line', reader', <<>>, got', From)
           /\ reader' \in ReaderType /\ reader'.chunked = reader.chunked /\ reader'.complete = reader.complete
           /\ reader'.left = reader.left /\ reader'.length = reader.length
           /\ got' \in Nat /\ got' <= sent /\ v <= sent /\ gone' = gone /\ (gone => reader.plen > 0)
  BY TakeByteIs
<1>2. Net' /\ N' = N
  <2>1. gone' \in BOOLEAN
    BY <1>1 DEF Types, Net
  <2> QED
    BY <1>0, <1>1, <2>1, NetStays
<1>3. /\ ~reader.complete /\ pending = <<>> /\ buf \in [Slots -> 0..N]
      /\ call \in {"size", "trailer"} => reader.left = 0 /\ fill = 0
      /\ call = "newline" => reader.left = 0 /\ fill > 0
  BY <1>0, AtChunks
<1>4. Layout' /\ From' = From
  <2>1. Lay(N', buf', fill', line', reader', pending', got', From)
    BY <1>0, <1>1, <1>2, <1>3
  <2> QED
    BY <2>1, LayoutNext
<1>5. Modes'
  <2>1. buf' # NoBuffer
    BY <1>0, <1>3, HasSlots
  <2>2. CASE call \in {"size", "trailer"}
    BY <1>0, <1>1, <1>3, <2>1, <2>2, ChunkModes
  <2>3. CASE call = "newline"
    <3>1. Len(line') <= 2
      <4>1. Len(line) < 2 /\ line \in Seq(Nat) /\ Len(line) \in Nat
        BY <2>3, Facts DEF TakeByte
      <4>2. Len(line') = Len(line) + 1
        BY <1>1, <4>1
      <4> QED
        BY <4>1, <4>2
    <3> QED
      BY <1>0, <1>1, <1>3, <2>1, <2>3, <3>1, ChunkModes
  <2> QED
    BY <2>2, <2>3 DEF TakeByte
<1>6. Rest'
  BY <1>0, <1>2 DEF Types, Rest, workVars
<1> QED
  BY <1>2, <1>4, <1>5, <1>6 DEF Types

LEMMA ElementIn == ASSUME NEW S, NEW s \in Seq(S), NEW k \in 1..Len(s) PROVE s[k] \in S
OBVIOUS

(* A line of which every byte is known. *)
LEMMA LineIs ==
  ASSUME Types
  PROVE  /\ LineBytes \in Seq(Bytes) /\ Len(LineBytes) = Len(line) /\ Len(line) \in Nat /\ From + fill \in Nat \ {0}
         /\ \A i \in 1..Len(line) : LineBytes[i] = client.wire[From + fill + i - 1]
         /\ From + fill + Len(line) - 1 <= N
<1>1. /\ From \in Nat \ {0} /\ fill \in Nat /\ Len(line) \in Nat /\ reader.plen \in Nat /\ Len(pending) \in Nat /\ line \in Seq(Nat)
      /\ From + fill + Len(line) + reader.plen + Len(pending) = got + 1 /\ got \in Nat /\ N \in Nat /\ got <= N
  BY Facts
<1>2. From + fill + Len(line) - 1 <= N /\ From + fill \in Nat \ {0}
  BY <1>1
<1>3. ASSUME NEW i \in 1..Len(line) PROVE line[i] = From + fill + i - 1 /\ line[i] \in 1..N
  <2>1. Run(line, From + fill) /\ i \in DOMAIN line
    BY <1>1 DEF Types, Layout, Lay, LayBytes
  <2>2. line[i] = From + fill + i - 1
    BY <2>1 DEF Run
  <2>3. From + fill + i - 1 \in 1..N
    BY <1>1, <1>2
  <2> QED
    BY <2>2, <2>3
<1>4. client.wire \in Seq(Bytes) /\ DOMAIN client.wire = 1..N
  BY WireType DEF Types, N
<1>5. LineBytes = [i \in 1..Len(line) |-> client.wire[line[i]]]
  BY <1>1 DEF LineBytes, Byte
<1>6. ASSUME NEW i \in 1..Len(line) PROVE LineBytes[i] = client.wire[From + fill + i - 1] /\ client.wire[line[i]] \in Bytes
  <2>1. line[i] = From + fill + i - 1 /\ line[i] \in 1..N
    BY <1>3
  <2>2. LineBytes[i] = client.wire[line[i]]
    BY <1>5
  <2>3. client.wire[line[i]] \in Bytes
    <3>1. PICK k \in 1..N : k = line[i]
      BY <2>1
    <3>2. client.wire[k] \in Bytes
      BY <1>4, ElementIn DEF N
    <3> QED
      BY <3>1, <3>2
  <2> QED
    BY <2>1, <2>2, <2>3
<1>7. LineBytes \in Seq(Bytes) /\ Len(LineBytes) = Len(line)
  BY <1>1, <1>5, <1>6
<1> QED
  BY <1>1, <1>2, <1>6, <1>7

(* The size that a whole line says, and what is taken for it. *)
LineSize == SizeOf(client.wire, From + fill, From + fill + Len(line) - 3)

LEMMA ChunkSizeIs ==
  ASSUME Types, Len(line) > 2
  PROVE  /\ LineSize \in Nat \cup {-1} /\ ChunkSize(SizeText) \in Nat \cup {-1}
         /\ SizeOf(LineBytes, 1, Len(line) - 2) = LineSize
         /\ LineSize # -1 => ChunkSize(SizeText) = IF LineSize < Long THEN LineSize ELSE Long - 1
<1> DEFINE text == SubSeq(LineBytes, 1, Len(line) - 2)
<1>1. SizeText = NoBlanks(UpTo(text, {";", "NUL"}))
  BY DEF SizeText
<1>2. PICK n \in Nat \ {0}, p \in Nat \ {0} : n = Len(line) - 2 /\ p = From + fill /\ p + n + 1 <= N
  <2>1. Len(line) \in Nat /\ From + fill \in Nat \ {0} /\ From + fill + Len(line) - 1 <= N /\ N \in Nat
    BY LineIs, Facts
  <2>2. PICK l \in Nat, p \in Nat \ {0}, m \in Nat : l = Len(line) /\ p = From + fill /\ m = N
    BY <2>1
  <2>3. l > 2 /\ p + l - 1 <= m
    BY <2>1, <2>2
  <2>4. l - 2 \in Nat \ {0} /\ p + (l - 2) + 1 <= m
    BY <2>3
  <2> QED
    BY <2>2, <2>4
<1>3. client.wire \in Seq(Bytes) /\ N \in Nat
  BY WireType DEF Types
<1>4. LineBytes \in Seq(Bytes) /\ n <= Len(LineBytes) /\ n >= 1 /\ n \in Nat
  BY <1>2, LineIs
<1>5. text \in Seq(Bytes) /\ Len(text) = n /\ \A i \in 1..n : text[i] = LineBytes[i]
  <2>1. 1 \in Nat /\ 1 >= 1 /\ n >= 1 - 1 /\ n + 1 - 1 = n /\ \A i \in 1..n : 1 + i - 1 = i
    BY <1>4
  <2>2. SubSeq(LineBytes, 1, n) \in Seq(Bytes) /\ Len(SubSeq(LineBytes, 1, n)) = n /\ \A i \in 1..n : SubSeq(LineBytes, 1, n)[i] = LineBytes[i]
    BY <1>4, <2>1, SubSeqIs
  <2> QED
    BY <1>2, <2>2
<1> HIDE DEF text
<1>6. \A i \in 1..n : text[i] = client.wire[p + i - 1]
  <2>1. \A i \in 1..n : i \in 1..Len(line)
    BY <1>2, LineIs
  <2>2. \A i \in 1..Len(line) : LineBytes[i] = client.wire[p + i - 1]
    BY <1>2, LineIs
  <2> QED
    BY <1>5, <2>1, <2>2
<1>7. SizeIn(text) = SizeOf(client.wire, p, p + n - 1)
  <2>1. p + n - 1 <= Len(client.wire)
    BY <1>2, <1>3 DEF N
  <2>2. PICK w \in Seq(Bytes) : w = client.wire
    BY <1>3
  <2>3. p + n - 1 <= Len(w) /\ \A i \in 1..n : text[i] = w[p + i - 1]
    BY <1>6, <2>1, <2>2
  <2>4. SizeIn(text) = SizeOf(w, p, p + n - 1)
    BY <1>5, <2>3, SizeInIs
  <2> QED
    BY <2>2, <2>4
<1>8. p + n - 1 = From + fill + Len(line) - 3
  BY <1>2, LineIs
<1>9. SizeOf(client.wire, p, p + n - 1) \in Nat \cup {-1}
  <2>1. p + n - 1 \in Int /\ p + n - 1 <= Len(client.wire)
    BY <1>2, <1>3 DEF N
  <2> QED
    BY <1>3, <2>1, SizeOfType
<1>10. SizeOf(client.wire, p, p + n - 1) = SizeOf(client.wire, From + fill, From + fill + Len(line) - 3)
  BY <1>2, <1>8
<1>11. SizeOf(LineBytes, 1, Len(line) - 2) = SizeIn(text)
  <2>1. PICK s \in Seq(Bytes) : s = LineBytes /\ n <= Len(s)
    BY <1>4
  <2>2. 1 \in Nat \ {0} /\ 1 + n - 1 = n /\ \A i \in 1..n : 1 + i - 1 = i
    BY <1>4
  <2>3. 1 + n - 1 <= Len(s) /\ \A i \in 1..n : text[i] = s[1 + i - 1]
    BY <1>5, <2>1, <2>2
  <2>4. SizeIn(text) = SizeOf(s, 1, 1 + n - 1)
    BY <1>5, <2>2, <2>3, SizeInIs
  <2> QED
    BY <1>2, <2>1, <2>2, <2>4
<1>12. ChunkSize(SizeText) \in Nat \cup {-1}
  <2>1. UpTo(text, {";", "NUL"}) \in Seq(Bytes)
    BY <1>5, UpToIs
  <2>2. SizeText \in Seq(Bytes)
    BY <1>1, <2>1, NoBlanksIs
  <2> QED
    BY <2>2, ChunkSizeType
<1>13. SizeIn(text) # -1 => ChunkSize(SizeText) = IF SizeIn(text) < Long THEN SizeIn(text) ELSE Long - 1
  <2> SUFFICES ASSUME SizeIn(text) # -1 PROVE ChunkSize(SizeText) = IF SizeIn(text) < Long THEN SizeIn(text) ELSE Long - 1
    OBVIOUS
  <2>1. PICK d \in Seq(Digits) : d # <<>> /\ SizeIn(text) = Hex(d) /\ UpTo(text, {";", "NUL"}) = d
    BY <1>5, SizeInDigits
  <2>2. SizeText = d
    BY <1>1, <2>1, DigitsSize
  <2> QED
    BY <2>1, <2>2, DigitsSize
<1>14. SizeIn(text) = LineSize
  BY <1>7, <1>10 DEF LineSize
<1> QED
  BY <1>7, <1>9, <1>11, <1>12, <1>13, <1>14

LEMMA DropType ==
  ASSUME Types, UNCHANGED <<netVars, buf, pending, got>>, gone' \in BOOLEAN, fill' = 0, line' = <<>>,
         reader' \in ReaderType, reader'.payload = reader.payload, reader'.plen = reader.plen
  PROVE  Net' /\ N' = N /\ Layout' /\ From' = From + fill + Len(line)
<1>1. Net' /\ N' = N
  <2>1. got' \in Nat /\ got' <= sent
    BY WireType DEF Types, Net
  <2> QED
    BY <2>1, NetStays
<1>2. Lay(N, buf, 0, <<>>, reader, pending, got, From + fill + Len(line))
  BY LayDrop DEF Types, Layout
<1>3. Lay(N, buf, 0, <<>>, reader', pending, got, From + fill + Len(line))
  BY <1>2, LayReader
<1>4. Lay(N', buf', fill', line', reader', pending', got', From + fill + Len(line))
  BY <1>1, <1>3
<1> QED
  BY <1>1, <1>4, LayoutNext

LEMMA LineTooLongType == Types /\ LineTooLong => Types' /\ From' = From + Len(line)
<1> SUFFICES ASSUME Types, LineTooLong PROVE Types' /\ From' = From + Len(line)
  OBVIOUS
<1>1. UNCHANGED <<netVars, sockVars, buf, fill, pending, reader, keep, workVars>> /\ call \in InChunks /\ line' = <<>> /\ fill = 0
      /\ ~reader.complete /\ buf \in [Slots -> 0..N]
  BY AtChunks DEF LineTooLong, InChunks
<1>2. call' = "handler" /\ all' = FALSE /\ result' \in Results /\ parts' \in Seq(1..N)
  <2>1. "LENGTH" \in Results
    BY DEF Results, Codes
  <2> QED
    BY <2>1, EndsType DEF LineTooLong
<1>3. Net' /\ N' = N /\ Layout' /\ From' = From + Len(line)
  <2>1. got' = got /\ gone' \in BOOLEAN /\ reader' \in ReaderType /\ fill' = 0
    BY <1>1, Facts DEF sockVars, Types, Net
  <2>2. From + fill + Len(line) = From + Len(line)
    BY <1>1, Facts
  <2> QED
    BY <1>1, <2>1, <2>2, DropType
<1>4. Modes'
  <2>1. buf' # NoBuffer
    BY <1>1, HasSlots
  <2> QED
    BY <1>1, <1>2, <2>1, ChunkModes
<1>5. Rest'
  BY <1>1, <1>2, <1>3 DEF Types, Rest, workVars, Calls
<1> QED
  BY <1>3, <1>4, <1>5 DEF Types

LEMMA SizeLineType == Types /\ SizeLine => Types' /\ From' = From + Len(line)
<1> SUFFICES ASSUME Types, SizeLine PROVE Types' /\ From' = From + Len(line)
  OBVIOUS
<1>1. UNCHANGED <<netVars, sockVars, buf, pending, keep, first, served, strayed>> /\ call \in InChunks /\ call = "size" /\ line' = <<>> /\ fill = 0
      /\ ~reader.complete /\ reader.left = 0 /\ buf \in [Slots -> 0..N]
  BY AtChunks DEF SizeLine, InChunks
<1>2. "end" \in Results /\ "HEADER" \in Results /\ misled \in BOOLEAN /\ all \in BOOLEAN /\ result \in Results /\ parts \in Seq(1..N)
  BY DEF Results, Codes, Types, Rest
<1>3. \/ /\ call' = "handler" /\ all' = FALSE /\ result' \in Results /\ parts' \in Seq(1..N) /\ misled' \in BOOLEAN
         /\ UNCHANGED <<reader, fill>>
      \/ call' = "trailer" /\ misled' \in BOOLEAN /\ UNCHANGED <<reader, fill, all, result, parts>>
      \/ /\ call' = "data" /\ fill' = 0 /\ misled' \in BOOLEAN
         /\ \E m \in Nat \ {0} : reader' = [reader EXCEPT !.left = m]
         /\ UNCHANGED <<all, result, parts>>
  <2>1. PICK size : size = ChunkSize(SizeText)
    OBVIOUS
  <2>2. CASE Ends("end") /\ misled' = TRUE /\ UNCHANGED <<reader, fill>>
    BY <1>2, <2>2, EndsType
  <2>3. CASE Ends("HEADER") /\ UNCHANGED <<reader, fill, misled>>
    BY <1>2, <2>3, EndsType
  <2>4. CASE /\ Len(line) > 2 /\ size # -1 /\ misled' = (misled \/ Misleads(size))
             /\ \/ size = 0 /\ call' = "trailer" /\ UNCHANGED <<reader, fill, all, result, parts>>
                \/ size > 0 /\ size % Word = 0 /\ Ends("end") /\ UNCHANGED <<reader, fill>>
                \/ /\ size % Word > 0
                   /\ call' = "data" /\ fill' = 0 /\ reader' = [reader EXCEPT !.left = size % Word]
                   /\ UNCHANGED <<all, result, parts>>
    <3>1. misled' \in BOOLEAN
      BY <1>2, <2>4 DEF Misleads
    <3>2. size % Word > 0 => size % Word \in Nat \ {0}
      <4>1. size \in Nat
        BY <2>1, <2>4, ChunkSizeIs
      <4> QED
        BY <4>1, Widths
    <3>3. CASE size = 0 /\ call' = "trailer" /\ UNCHANGED <<reader, fill, all, result, parts>>
      BY <3>1, <3>3
    <3>4. CASE Ends("end") /\ UNCHANGED <<reader, fill>>
      BY <1>2, <3>1, <3>4, EndsType
    <3>5. CASE /\ size % Word > 0
               /\ call' = "data" /\ fill' = 0 /\ reader' = [reader EXCEPT !.left = size % Word]
               /\ UNCHANGED <<all, result, parts>>
      BY <3>1, <3>2, <3>5
    <3> QED
      BY <2>4, <3>3, <3>4, <3>5
  <2> QED
    BY <2>1, <2>2, <2>3, <2>4 DEF SizeLine
<1>4. /\ reader' \in ReaderType /\ reader'.payload = reader.payload /\ reader'.plen = reader.plen /\ fill' = 0
      /\ reader'.chunked = reader.chunked /\ reader'.complete = reader.complete /\ reader'.length = reader.length
      /\ reader'.left \in Nat /\ (call' = "data" => reader'.left > 0) /\ (call' # "data" => reader'.left = 0)
  <2>1. reader \in ReaderType
    BY Facts
  <2>2. CASE UNCHANGED <<reader, fill>> /\ call' # "data"
    BY <1>1, <2>1, <2>2
  <2>3. CASE (\E m \in Nat \ {0} : reader' = [reader EXCEPT !.left = m]) /\ fill' = 0 /\ call' = "data"
    <3>1. PICK m \in Nat \ {0} : reader' = [reader EXCEPT !.left = m]
      BY <2>3
    <3> QED
      BY <2>1, <2>3, <3>1, LeftMade
  <2> QED
    BY <1>3, <2>2, <2>3
<1>5. Net' /\ N' = N /\ Layout' /\ From' = From + Len(line)
  <2>1. got' = got /\ gone' \in BOOLEAN
    BY <1>1 DEF sockVars, Types, Net
  <2>2. From + fill + Len(line) = From + Len(line)
    BY <1>1, Facts
  <2> QED
    BY <1>1, <1>4, <2>1, <2>2, DropType
<1>6. Modes'
  <2>1. buf' # NoBuffer
    BY <1>1, HasSlots
  <2>2. 0 <= Want'
    BY <1>4, Sizes DEF Want, Lesser
  <2> QED
    BY <1>1, <1>3, <1>4, <2>1, <2>2, ChunkModes
<1>7. Rest'
  <2>1. call' \in Calls /\ all' \in BOOLEAN /\ result' \in Results /\ parts' \in Seq(1..N) /\ misled' \in BOOLEAN
    BY <1>2, <1>3 DEF Calls, Turns
  <2>2. strayed' \in BOOLEAN
    BY <1>1 DEF Types, Rest
  <2> QED
    BY <1>1, <1>5, <2>1, <2>2 DEF Types, Rest
<1> QED
  BY <1>5, <1>6, <1>7 DEF Types

LEMMA TrailerLineType == Types /\ TrailerLine => Types' /\ From' = From + Len(line)
<1> SUFFICES ASSUME Types, TrailerLine PROVE Types' /\ From' = From + Len(line)
  OBVIOUS
<1>1. UNCHANGED <<netVars, sockVars, buf, fill, pending, reader, keep, call, all, result, parts, workVars>> /\ call \in InChunks
      /\ call = "trailer" /\ line' = <<>> /\ fill = 0 /\ ~reader.complete /\ reader.left = 0 /\ buf \in [Slots -> 0..N]
  BY AtChunks DEF TrailerLine, InChunks
<1>2. Net' /\ N' = N /\ Layout' /\ From' = From + Len(line)
  <2>1. got' = got /\ gone' \in BOOLEAN /\ reader' \in ReaderType /\ fill' = 0
    BY <1>1, Facts DEF sockVars, Types, Net
  <2>2. From + fill + Len(line) = From + Len(line)
    BY <1>1, Facts
  <2> QED
    BY <1>1, <2>1, <2>2, DropType
<1>3. Modes'
  <2>1. buf' # NoBuffer
    BY <1>1, HasSlots
  <2> QED
    BY <1>1, <2>1, ChunkModes
<1>4. Rest'
  BY <1>1, <1>2 DEF Types, Rest, workVars
<1> QED
  BY <1>2, <1>3, <1>4 DEF Types

(* The end of the trailer, be it its empty line or a close. *)
LEMMA TrailerStops ==
  ASSUME Types, call = "trailer", UNCHANGED <<netVars, got, buf, fill, pending, workVars>>, gone' \in BOOLEAN, line' = <<>>,
         ChunksEnd \/ ((\E r \in Results : Ends(r)) /\ UNCHANGED <<reader, keep>>)
  PROVE  Types' /\ From' = From + Len(line)
<1>1. call \in InChunks /\ fill = 0 /\ reader.left = 0 /\ buf \in [Slots -> 0..N] /\ reader \in ReaderType
  BY AtChunks, Facts DEF InChunks
<1>2. call' = "handler" /\ all' = FALSE /\ result' \in Results /\ parts' \in Seq(1..N) /\ keep' \in BOOLEAN
  <2>1. keep \in BOOLEAN /\ "end" \in Results
    BY DEF Types, Rest, Results
  <2>2. CASE ChunksEnd
    BY <2>1, <2>2, EndsType DEF ChunksEnd
  <2>3. CASE (\E r \in Results : Ends(r)) /\ UNCHANGED <<reader, keep>>
    BY <2>1, <2>3, EndsType
  <2> QED
    BY <2>2, <2>3
<1>3. /\ reader' \in ReaderType /\ reader'.payload = reader.payload /\ reader'.plen = reader.plen
      /\ reader'.chunked = reader.chunked /\ reader'.length = reader.length /\ reader'.left = reader.left
  BY <1>1, CompleteMade DEF ChunksEnd
<1>4. Net' /\ N' = N /\ Layout' /\ From' = From + Len(line)
  <2>1. From + fill + Len(line) = From + Len(line)
    BY <1>1, Facts
  <2> QED
    BY <1>1, <1>3, <2>1, DropType
<1>5. Modes'
  <2>1. buf' # NoBuffer
    BY <1>1, HasSlots
  <2> QED
    BY <1>1, <1>2, <1>3, <2>1, ChunkModes
<1>6. Rest'
  BY <1>2, <1>4 DEF Types, Rest, workVars, Calls
<1> QED
  BY <1>4, <1>5, <1>6 DEF Types

LEMMA TrailerEndsType == Types /\ TrailerEnds => Types' /\ From' = From + Len(line)
<1> SUFFICES ASSUME Types, TrailerEnds PROVE Types' /\ From' = From + Len(line)
  OBVIOUS
<1>1. gone \in BOOLEAN
  BY DEF Types, Net
<1> QED
  BY <1>1, TrailerStops DEF TrailerEnds, sockVars

LEMMA TrailerCutType == ASSUME Types, NEW why, TrailerCut(why) PROVE Types' /\ From' = From + Len(line)
<1>1. got' = got /\ gone' \in BOOLEAN
  BY NothingIs DEF TrailerCut
<1>2. Code(why) \in Results
  BY CodeType DEF Types, TrailerCut, Results, Codes
<1> QED
  BY <1>1, <1>2, TrailerStops DEF TrailerCut

LEMMA WantIs ==
  ASSUME Types
  PROVE  Want \in Nat /\ Want <= BufMax /\ Want <= reader.left /\ (reader.left > 0 => Want > 0)
<1>1. reader.left \in Nat
  BY Facts
<1> QED
  BY <1>1, Sizes DEF Want, Lesser

LEMMA DataMoreIs ==
  ASSUME Types, DataMore
  PROVE  \E n \in Nat \ {0} :
           /\ fill' = fill + n /\ fill + n <= Want /\ DOMAIN buf' = Slots
           /\ Lay(N, buf', fill', <<>>, reader', <<>>, got', From)
           /\ reader' \in ReaderType /\ reader'.chunked = reader.chunked /\ reader'.complete = reader.complete
           /\ reader'.left = reader.left /\ reader'.length = reader.length
           /\ got' \in Nat /\ got' <= sent /\ gone' = gone /\ (gone => reader.plen > 0)
<1>1. /\ buf \in [Slots -> 0..N] /\ Lay(N, buf, fill, <<>>, reader, <<>>, got, From) /\ line = <<>>
  <2>1. call \in InChunks /\ call = "data"
    BY DEF DataMore, InChunks
  <2> QED
    BY <2>1, AtChunks
<1>2. sent \in Nat /\ got \in Nat /\ got <= sent /\ sent <= N /\ N \in Nat
  BY WireType DEF Types, Net
<1>3. fill \in Nat /\ Want \in Nat /\ Want <= BufMax /\ Want - fill \in Nat /\ reader \in ReaderType /\ reader.plen \in Nat /\ BufMax \in Nat
      /\ (reader.payload = 0 <=> reader.plen = 0)
  <2>1. fill < Want
    BY DEF DataMore
  <2>2. fill \in Nat /\ reader \in ReaderType /\ reader.plen \in Nat /\ (reader.payload = 0 <=> reader.plen = 0)
    BY Facts
  <2>3. Want \in Nat /\ Want <= BufMax /\ BufMax \in Nat
    BY WantIs, Sizes
  <2>4. Want - fill \in Nat
    BY <2>1, <2>2, <2>3
  <2> QED
    BY <2>2, <2>3, <2>4
<1>4. CASE reader.plen > 0
  <2>1. PICK n \in Nat : n = Lesser(reader.plen, Want - fill) /\ n <= reader.plen /\ n <= Want - fill
    BY <1>3 DEF Lesser
  <2>2. /\ n > 0 /\ fill' = fill + n /\ reader' = PayloadOf(reader, n) /\ got' = got /\ gone' = gone
        /\ buf' = [i \in Slots |-> IF fill <= i /\ i < fill + n THEN buf[reader.payload + (i - fill)] ELSE buf[i]]
    <3> DEFINE from(k) == IF reader.plen > 0 THEN buf[reader.payload + k] ELSE got + 1 + k
    <3>1. n > 0 /\ fill' = fill + n /\ buf' = [i \in Slots |-> IF fill <= i /\ i < fill + n THEN from(i - fill) ELSE buf[i]]
      BY <1>4, <2>1 DEF DataMore
    <3>2. reader' = Payload(n) /\ UNCHANGED sockVars
      BY <1>4, <2>1 DEF DataMore
    <3>3. \A k : from(k) = buf[reader.payload + k]
      BY <1>4
    <3> HIDE DEF from
    <3>4. buf' = [i \in Slots |-> IF fill <= i /\ i < fill + n THEN buf[reader.payload + (i - fill)] ELSE buf[i]]
      BY <3>1, <3>3
    <3> QED
      BY <3>1, <3>2, <3>4 DEF Payload, PayloadOf, sockVars
  <2>3. n \in Nat \ {0} /\ fill + n <= Want
    BY <1>3, <2>1, <2>2
  <2>4. Lay(N, buf', fill', <<>>, reader', <<>>, got', From)
    BY <1>1, <2>1, <2>2, <2>3, LayFill
  <2>5. /\ reader' \in ReaderType /\ reader'.chunked = reader.chunked /\ reader'.complete = reader.complete
        /\ reader'.left = reader.left /\ reader'.length = reader.length
    BY <1>3, <2>1, <2>2, PayloadOfIs
  <2>6. DOMAIN buf' = Slots
    BY <2>2
  <2> QED
    BY <1>2, <1>4, <2>2, <2>3, <2>4, <2>5, <2>6
<1>5. CASE reader.plen = 0
  <2>1. PICK n \in Nat : n = Arrived(Want - fill) /\ n <= Want - fill /\ got + n <= sent /\ got + n <= N
    BY <1>3, ArrivedIs
  <2>2. /\ n > 0 /\ fill' = fill + n /\ reader' = reader /\ got' = got + n /\ gone' = gone /\ ~gone
        /\ buf' = [i \in Slots |-> IF fill <= i /\ i < fill + n THEN got + 1 + (i - fill) ELSE buf[i]]
    <3> DEFINE from(k) == IF reader.plen > 0 THEN buf[reader.payload + k] ELSE got + 1 + k
    <3>1. n > 0 /\ fill' = fill + n /\ buf' = [i \in Slots |-> IF fill <= i /\ i < fill + n THEN from(i - fill) ELSE buf[i]]
      BY <1>5, <2>1 DEF DataMore
    <3>2. Receive(n) /\ UNCHANGED reader
      BY <1>5, <2>1 DEF DataMore
    <3>3. \A k : from(k) = got + 1 + k
      BY <1>5
    <3> HIDE DEF from
    <3>4. buf' = [i \in Slots |-> IF fill <= i /\ i < fill + n THEN got + 1 + (i - fill) ELSE buf[i]]
      BY <3>1, <3>3
    <3> QED
      BY <3>1, <3>2, <3>4 DEF Receive
  <2>3. n \in Nat \ {0} /\ fill + n <= Want /\ fill + n <= BufMax
    BY <1>3, <2>1, <2>2
  <2>4. Lay(N, buf', fill', <<>>, reader', <<>>, got', From)
    BY <1>1, <1>5, <2>1, <2>2, <2>3, LayReceive
  <2>5. DOMAIN buf' = Slots /\ got' \in Nat /\ got' <= sent
    BY <1>2, <2>1, <2>2
  <2> QED
    BY <1>3, <2>2, <2>3, <2>4, <2>5
<1> QED
  BY <1>3, <1>4, <1>5

LEMMA DataMoreType == Types /\ DataMore => Types' /\ From' = From
<1> SUFFICES ASSUME Types, DataMore PROVE Types' /\ From' = From
  OBVIOUS
<1>1. PICK n \in Nat \ {0} :
           /\ fill' = fill + n /\ fill + n <= Want /\ DOMAIN buf' = Slots
           /\ Lay(N, buf', fill', <<>>, reader', <<>>, got', From)
           /\ reader' \in ReaderType /\ reader'.chunked = reader.chunked /\ reader'.complete = reader.complete
           /\ reader'.left = reader.left /\ reader'.length = reader.length
           /\ got' \in Nat /\ got' <= sent /\ gone' = gone /\ (gone => reader.plen > 0)
  BY DataMoreIs
<1>2. UNCHANGED <<netVars, pending, keep, line, call, all, result, parts, workVars>> /\ call \in InChunks /\ call = "data"
      /\ pending = <<>> /\ line = <<>> /\ reader.left > 0 /\ ~reader.complete
  BY AtChunks DEF DataMore, InChunks
<1>3. Net' /\ N' = N
  <2>1. gone' \in BOOLEAN
    BY <1>1 DEF Types, Net
  <2> QED
    BY <1>1, <1>2, <2>1, NetStays
<1>4. Layout' /\ From' = From
  <2>1. Lay(N', buf', fill', line', reader', pending', got', From)
    BY <1>1, <1>2, <1>3
  <2> QED
    BY <2>1, LayoutNext
<1>5. Modes'
  <2>1. buf' # NoBuffer
    BY <1>1, HasSlots
  <2>2. Want' = Want
    BY <1>1 DEF Want
  <2>3. fill' <= Want'
    BY <1>1, <2>2
  <2> QED
    BY <1>1, <1>2, <2>1, <2>3, ChunkModes
<1>6. Rest'
  BY <1>2, <1>3 DEF Types, Rest, workVars
<1> QED
  BY <1>3, <1>4, <1>5, <1>6 DEF Types

LEMMA DataDoneType == Types /\ DataDone => Types' /\ From' = (IF reader.left = Want THEN From ELSE From + fill)
<1> SUFFICES ASSUME Types, DataDone PROVE Types' /\ From' = (IF reader.left = Want THEN From ELSE From + fill)
  OBVIOUS
<1>1. UNCHANGED <<netVars, sockVars, buf, pending, keep, workVars>> /\ call \in InChunks /\ call = "data" /\ fill = Want
      /\ pending = <<>> /\ line = <<>> /\ reader.left > 0 /\ ~reader.complete /\ buf \in [Slots -> 0..N]
  BY AtChunks DEF DataDone, InChunks
<1>2. reader.left - Want \in Nat /\ Want > 0 /\ (reader.left = Want <=> reader.left - Want = 0)
  <2>1. PICK l \in Nat, w \in Nat : l = reader.left /\ w = Want /\ w <= l
    BY WantIs, Facts
  <2>2. w > 0
    BY <1>1, <2>1, WantIs
  <2>3. l - w \in Nat /\ (l = w <=> l - w = 0)
    BY <2>1
  <2> QED
    BY <2>1, <2>2, <2>3
<1>3. PICK l \in Nat : l = reader.left - Want
  BY <1>2
<1>4. /\ reader' \in ReaderType /\ reader'.payload = reader.payload /\ reader'.plen = reader.plen
      /\ reader'.chunked = reader.chunked /\ reader'.complete = reader.complete /\ reader'.length = reader.length
      /\ reader'.left = l
  <2>1. reader' = [reader EXCEPT !.left = l]
    BY <1>3 DEF DataDone
  <2> QED
    BY <2>1, Facts, LeftMade
<1>5. Net' /\ N' = N /\ got' = got /\ gone' \in BOOLEAN
  BY <1>1, NetSame DEF Types, Net
<1>6. buf' # NoBuffer
  BY <1>1, HasSlots
<1>7. CASE reader.left = Want
  <2>1. call' = "newline" /\ line' = <<>> /\ UNCHANGED <<fill, all, result, parts>>
    BY <1>7 DEF DataDone
  <2>2. Layout' /\ From' = From
    <3>1. Lay(N, buf, fill, line, reader', pending, got, From)
      BY <1>4, LayReader DEF Types, Layout
    <3>2. Lay(N', buf', fill', line', reader', pending', got', From)
      BY <1>1, <1>5, <2>1, <3>1
    <3> QED
      BY <3>2, LayoutNext
  <2>3. Modes'
    <3>1. fill' > 0 /\ Len(line') <= 2 /\ l = 0
      BY <1>1, <1>2, <1>3, <1>7, <2>1
    <3> QED
      BY <1>1, <1>4, <1>6, <2>1, <3>1, ChunkModes
  <2>4. Rest'
    BY <1>1, <1>5, <2>1 DEF Types, Rest, workVars, Calls, Turns
  <2> QED
    BY <1>5, <1>7, <2>2, <2>3, <2>4 DEF Types
<1>8. CASE reader.left # Want
  <2>1. Give(InBuf(0, fill - 1)) /\ fill' = 0 /\ line' = line
    BY <1>8 DEF DataDone
  <2>2. call' \in {"handler", "content"} /\ all' \in BOOLEAN /\ (call' = "handler" => all' = FALSE) /\ result' \in Results /\ parts' \in Seq(1..N)
    BY <2>1, BufBytes, GiveType
  <2>3. Layout' /\ From' = From + fill
    <3>1. From + fill + Len(line) = From + fill
      BY <1>1, Facts
    <3>2. line' = <<>> /\ got' = got
      BY <1>1, <2>1, <1>5
    <3> QED
      BY <1>1, <1>4, <1>5, <2>1, <3>1, <3>2, DropType
  <2>4. Modes'
    BY <1>1, <1>4, <1>6, <2>1, <2>2, ChunkModes
  <2>5. Rest'
    BY <1>1, <1>5, <2>2 DEF Types, Rest, workVars, Calls
  <2> QED
    BY <1>5, <1>8, <2>3, <2>4, <2>5 DEF Types
<1> QED
  BY <1>7, <1>8

LEMMA NewlineType == Types /\ Newline => Types' /\ From' = From + fill + Len(line)
<1> SUFFICES ASSUME Types, Newline PROVE Types' /\ From' = From + fill + Len(line)
  OBVIOUS
<1>1. UNCHANGED <<netVars, sockVars, buf, pending, reader, keep, workVars>> /\ call \in InChunks /\ fill' = 0 /\ line' = <<>>
      /\ ~reader.complete /\ buf \in [Slots -> 0..N]
  BY AtChunks DEF Newline, InChunks
<1>2. call' \in {"handler", "content"} /\ all' \in BOOLEAN /\ (call' = "handler" => all' = FALSE) /\ result' \in Results /\ parts' \in Seq(1..N)
  <2>1. "HEADER" \in Results
    BY DEF Results, Codes
  <2>2. CASE Give(InBuf(0, fill - 1))
    BY <2>2, BufBytes, GiveType
  <2>3. CASE Ends("HEADER")
    BY <2>1, <2>3, EndsType
  <2> QED
    BY <2>2, <2>3 DEF Newline
<1>3. Net' /\ N' = N /\ Layout' /\ From' = From + fill + Len(line)
  <2>1. got' = got /\ gone' \in BOOLEAN /\ reader' \in ReaderType
    BY <1>1, Facts DEF sockVars, Types, Net
  <2> QED
    BY <1>1, <2>1, DropType
<1>4. Modes'
  <2>1. buf' # NoBuffer
    BY <1>1, HasSlots
  <2> QED
    BY <1>1, <1>2, <2>1, ChunkModes
<1>5. Rest'
  BY <1>1, <1>2, <1>3 DEF Types, Rest, workVars, Calls
<1> QED
  BY <1>3, <1>4, <1>5 DEF Types

-----------------------------------------------------------------------------
(* The end of a request, and all steps together.                           *)

LEMMA KeptType ==
  ASSUME Types, call = "handler", ~(reader.length > reader.plen), strayed' \in BOOLEAN,
         UNCHANGED <<netVars, sockVars, keep, result, parts, first, served, misled>>,
         call' = "idle", buf' = NoBuffer, reader' = NoReader, UNCHANGED <<fill, pending, line, all>>
  PROVE  Types' /\ From' = From + reader.plen
<1>1. Net' /\ N' = N /\ got' = got
  BY NetSame
<1>2. fill = 0 /\ line = <<>> /\ ~all
  BY DEF Types, Modes
<1>3. Layout' /\ From' = From + reader.plen
  <2>1. Lay(N, buf, 0, <<>>, reader, pending, got, From)
    BY <1>2 DEF Types, Layout
  <2>2. Lay(N, NoBuffer, 0, <<>>, NoReader, pending, got, From + reader.plen)
    BY <2>1, Drained, LayDropPayload
  <2>3. Lay(N', buf', fill', line', reader', pending', got', From + reader.plen)
    BY <1>1, <1>2, <2>2
  <2> QED
    BY <2>3, LayoutNext
<1>4. Modes'
  BY <1>2, Drained DEF Modes, Served, InChunks
<1>5. Rest'
  BY <1>1 DEF Types, Rest, Calls
<1> QED
  BY <1>1, <1>3, <1>4, <1>5 DEF Types

LEMMA AnsweredType == Types /\ Answered => Types'
<1> SUFFICES ASSUME Types, Answered PROVE Types'
  OBVIOUS
<1>3. strayed' \in BOOLEAN
  BY StraysType DEF Answered
<1>1. CASE Close
  BY <1>1, <1>3, CloseType DEF Answered, sockVars, Types, Net
<1>2. CASE ~(reader.length > reader.plen) /\ call' = "idle" /\ buf' = NoBuffer /\ reader' = NoReader /\ UNCHANGED <<fill, pending, line, all>>
  BY <1>2, <1>3, KeptType DEF Answered
<1> QED
  BY <1>1, <1>2 DEF Answered, FreeRequest

LEMMA ClosesType ==
  Types /\ (ReadRequestNoMemory \/ GiveUp \/ HandlerFails \/ HeadTooLong \/ HeadRefused \/ \E why \in Whys : HeadCut(why)) => Types'
<1> SUFFICES ASSUME Types, ReadRequestNoMemory \/ GiveUp \/ HandlerFails \/ HeadTooLong \/ HeadRefused \/ \E why \in Whys : HeadCut(why)
             PROVE  Types'
  OBVIOUS
<1>1. gone \in BOOLEAN /\ strayed \in BOOLEAN
  BY DEF Types, Net, Rest
<1>2. Close /\ UNCHANGED <<netVars, got, keep, result, parts, workVars>> /\ gone' \in BOOLEAN
  <2>1. CASE ReadRequestNoMemory \/ GiveUp \/ HandlerFails \/ HeadTooLong \/ HeadRefused
    BY <1>1, <2>1 DEF ReadRequestNoMemory, GiveUp, HandlerFails, HeadTooLong, HeadRefused, sockVars
  <2>2. ASSUME NEW why \in Whys, HeadCut(why) PROVE Close /\ UNCHANGED <<netVars, got, keep, result, parts, workVars>> /\ gone' \in BOOLEAN
    BY <2>2, NothingIs DEF HeadCut
  <2> QED
    BY <2>1, <2>2
<1>3. UNCHANGED <<first, served, misled>> /\ strayed' \in BOOLEAN
  BY <1>1, <1>2 DEF workVars
<1> QED
  BY <1>2, <1>3, CloseType

LEMMA TypesStep == Types /\ [Next]_vars => Types'
<1> SUFFICES ASSUME Types, [Next]_vars PROVE Types'
  OBVIOUS
<1>1. CASE Network
  BY <1>1, NetworkType
<1>2. CASE Worker
  BY <1>2, ReadRequestType, ClosesType, NextConnectionType, ReadContentType, ReadAllContentType, AnsweredType DEF Worker
<1>3. CASE Reader
  <2>1. CASE \/ HeadTooLong \/ HeadMore \/ HeadDone \/ HeadOdd \/ HeadForgets \/ HeadRefused
             \/ ContentOver \/ ContentPayload \/ ContentBegins \/ ReadBody
    BY <2>1, ClosesType, HeadMoreType, HeadDoneType, HeadOddType, HeadForgetsType, ContentOverType, ContentPayloadType, ContentBeginsType, ReadBodyType
  <2>2. CASE \/ TakeByte \/ LineTooLong \/ SizeLine \/ TrailerLine \/ TrailerEnds
             \/ DataMore \/ DataDone \/ Newline
    BY <2>2, TakeByteType, LineTooLongType, SizeLineType, TrailerLineType, TrailerEndsType, DataMoreType, DataDoneType, NewlineType
  <2>3. CASE \E why \in Whys : HeadTimesOut(why) \/ HeadCut(why) \/ BodyCut(why) \/ TrailerCut(why)
    BY <2>3, HeadTimesOutType, ClosesType, BodyCutType, TrailerCutType
  <2> QED
    BY <1>3, <2>1, <2>2, <2>3 DEF Reader
<1>4. CASE UNCHANGED vars
  <2>1. Net' /\ N' = N
    BY <1>4 DEF vars, netVars, sockVars, Types, Net, N
  <2>2. Layout' /\ Modes' /\ Rest'
    BY <1>4, <2>1 DEF vars, netVars, sockVars, bodyVars, workVars, Types, Layout, From, Modes, Served, InChunks, Want, Rest
  <2> QED
    BY <2>1, <2>2 DEF Types
<1> QED
  BY <1>1, <1>2, <1>3, <1>4 DEF Next

(* What is left of a chunk has room in its counter. *)
LeftOK == reader.left < Word

LEMMA NoneLeft == ASSUME reader' = NoReader \/ reader' = reader, LeftOK PROVE LeftOK'
BY Drained, Widths DEF LeftOK

LEMMA ClosesLeft ==
  ASSUME LeftOK, ReadRequestNoMemory \/ GiveUp \/ HandlerFails \/ HeadTooLong \/ HeadRefused \/ Answered \/ \E why \in Whys : HeadCut(why)
  PROVE  LeftOK'
BY NoneLeft DEF ReadRequestNoMemory, GiveUp, HandlerFails, HeadTooLong, HeadRefused, Answered, FreeRequest, HeadCut, Close

LEMMA LeftGoesOn ==
  ASSUME Types, LeftOK, ContentPayload \/ ReadBody \/ TakeByte \/ DataMore \/ TrailerEnds \/ \E why \in Whys : TrailerCut(why)
  PROVE  LeftOK'
<1>1. reader \in ReaderType
  BY Facts
<1>2. \/ reader' = reader
      \/ \E x, y, z : reader' = [reader EXCEPT !.payload = x, !.plen = y, !.length = z]
      \/ \E x, y : reader' = [reader EXCEPT !.plen = x, !.payload = y]
      \/ \E x : reader' = [reader EXCEPT !.length = x]
      \/ reader' = [reader EXCEPT !.complete = TRUE]
  <2>1. CASE ContentPayload
    BY <2>1 DEF ContentPayload
  <2>2. CASE ReadBody
    BY <2>2 DEF ReadBody
  <2>3. CASE TakeByte
    BY <2>3 DEF TakeByte, Payload
  <2>4. CASE DataMore
    BY <2>4 DEF DataMore, Payload
  <2>5. CASE TrailerEnds
    BY <2>5 DEF TrailerEnds, ChunksEnd
  <2>6. CASE \E why \in Whys : TrailerCut(why)
    BY <2>6 DEF TrailerCut, ChunksEnd
  <2> QED
    BY <2>1, <2>2, <2>3, <2>4, <2>5, <2>6
<1>3. reader'.left = reader.left
  BY <1>1, <1>2 DEF ReaderType
<1> QED
  BY <1>3 DEF LeftOK

LEMMA SizeLineLeft == Types /\ LeftOK /\ SizeLine => LeftOK'
<1> SUFFICES ASSUME Types, LeftOK, SizeLine PROVE LeftOK'
  OBVIOUS
<1>1. PICK size : /\ size = ChunkSize(SizeText)
                  /\ reader' = reader \/ (Len(line) > 2 /\ size # -1 /\ reader' = [reader EXCEPT !.left = size % Word])
  BY DEF SizeLine
<1>2. CASE Len(line) > 2 /\ size # -1 /\ reader' = [reader EXCEPT !.left = size % Word]
  <2>1. size \in Nat
    BY <1>1, <1>2, ChunkSizeIs
  <2>2. size % Word \in Nat /\ size % Word < Word
    BY <2>1, Widths
  <2>3. PICK m \in Nat : m = size % Word
    BY <2>2
  <2>4. reader'.left = m
    BY <1>2, <2>3, Facts, LeftMade
  <2> QED
    BY <2>2, <2>3, <2>4 DEF LeftOK
<1> QED
  BY <1>1, <1>2, NoneLeft

LEMMA DataDoneLeft == Types /\ LeftOK /\ DataDone => LeftOK'
<1> SUFFICES ASSUME Types, LeftOK, DataDone PROVE LeftOK'
  OBVIOUS
<1>1. Want \in Nat /\ Want <= reader.left /\ reader.left \in Nat
  BY Facts, Sizes DEF Want, Lesser
<1>2. PICK m \in Nat : m = reader.left - Want
  BY <1>1
<1>3. reader'.left = m
  BY <1>2, Facts, LeftMade DEF DataDone
<1> QED
  BY <1>1, <1>2, <1>3, Widths DEF LeftOK

LEMMA LeftStep == Types /\ LeftOK /\ [Next]_vars => LeftOK'
<1> SUFFICES ASSUME Types, LeftOK, [Next]_vars PROVE LeftOK'
  OBVIOUS
<1>1. CASE Network \/ UNCHANGED vars
  BY <1>1, NoneLeft DEF Network, Arrive, ArriveEnding, vars, bodyVars
<1>2. CASE Worker
  <2>1. CASE ReadRequest \/ NextConnection \/ ReadContent \/ ReadAllContent
    BY <2>1, NoneLeft DEF ReadRequest, NextConnection, ReadContent, ReadAllContent, bodyVars
  <2> QED
    BY <1>2, <2>1, ClosesLeft DEF Worker
<1>3. CASE Reader
  <2>1. CASE HeadDone
    <3>1. reader'.left = 0
      BY <2>1, HeadDoneIs
    <3> QED
      BY <3>1, Widths DEF LeftOK
  <2>2. CASE HeadOdd \/ HeadForgets
    <3>1. \E c \in BOOLEAN : OffReader(reader', c)
      BY <2>2, OffReaderIs DEF HeadOdd, HeadForgets
    <3>2. reader'.left = 0
      BY <3>1 DEF OffReader
    <3> QED
      BY <3>2, Widths DEF LeftOK
  <2>3. CASE \/ HeadMore \/ ContentOver \/ ContentBegins \/ LineTooLong \/ TrailerLine \/ Newline
             \/ \E why \in Whys : HeadTimesOut(why) \/ BodyCut(why)
    BY <2>3, NoneLeft DEF HeadMore, ContentOver, ContentBegins, LineTooLong, TrailerLine, Newline, HeadTimesOut, BodyCut, bodyVars
  <2> QED
    BY <1>3, <2>1, <2>2, <2>3, ClosesLeft, LeftGoesOn, SizeLineLeft, DataDoneLeft DEF Reader
<1> QED
  BY <1>1, <1>2, <1>3 DEF Next

LEMMA TypesOK == Types /\ LeftOK => TypeOK
<1> SUFFICES ASSUME Types, LeftOK PROVE TypeOK
  OBVIOUS
<1>1. line \in Seq(1..N) /\ pending \in Seq(1..N)
  <2>1. /\ From \in Nat \ {0} /\ fill \in Nat /\ Len(line) \in Nat /\ reader.plen \in Nat /\ Len(pending) \in Nat /\ line \in Seq(Nat)
        /\ pending \in Seq(Nat) /\ From + fill + Len(line) + reader.plen + Len(pending) = got + 1 /\ got \in Nat /\ N \in Nat /\ got <= N
    BY Facts
  <2>2. Run(line, From + fill) /\ Run(pending, From + fill + Len(line) + reader.plen)
    BY DEF Types, Layout, Lay, LayBytes
  <2>3. line \in Seq(1..N)
    <3>1. From + fill \in Nat \ {0} /\ (From + fill) + Len(line) <= N + 1
      BY <2>1
    <3> QED
      BY <2>1, <2>2, <3>1, RunTyped
  <2>4. pending \in Seq(1..N)
    <3>1. PICK p \in Nat \ {0} : p = From + fill + Len(line) + reader.plen /\ p + Len(pending) <= N + 1
      BY <2>1
    <3>2. Run(pending, p)
      BY <2>2, <3>1
    <3> QED
      BY <2>1, <3>1, <3>2, RunTyped
  <2> QED
    BY <2>3, <2>4
<1>2. reader.payload + reader.plen \in 0..BufMax /\ fill \in 0..BufMax
  BY Facts, Sizes
<1>3. reader.left \in 0..Word-1
  <2>1. reader.left \in Nat /\ reader.left < Word /\ Word \in Nat
    BY Facts, Widths DEF LeftOK
  <2> QED
    BY <2>1
<1> QED
  BY <1>1, <1>2, <1>3, Facts DEF TypeOK, Types, Net, Rest, Calls, Results, N

LEMMA TypesAlways == Spec => []Types
<1>1. Types /\ [Next]_vars => Types'
  BY TypesStep
<1> QED
  BY <1>1, InitType, PTL DEF Spec

LEMMA LeftAlways == Spec => []LeftOK
<1>1. Types /\ LeftOK /\ [Next]_vars => LeftOK'
  BY LeftStep
<1>2. Init => LeftOK
  BY Drained, Widths DEF Init, LeftOK
<1> QED
  BY <1>1, <1>2, TypesAlways, PTL DEF Spec

(* Every variable keeps its type, whatever clients send and handlers do.   *)
THEOREM TypeCorrect == Spec => []TypeOK
BY TypesAlways, LeftAlways, TypesOK, PTL

-----------------------------------------------------------------------------
(* What is left of a body when some of it was handed out.                  *)

(* The reading r is the bytes b, and then the reading s. *)
Follows(r, b, s) == r.body = b \o s.body /\ r.last = s.last /\ r.how = s.how

LEMMA FollowsReading ==
  ASSUME NEW b, NEW c, NEW l, NEW h
  PROVE  Follows(Reading(b \o c, l, h), b, Reading(c, l, h))
<1> DEFINE d == b \o c
<1> HIDE DEF d
<1>1. Reading(d, l, h).body = d /\ Reading(d, l, h).last = l /\ Reading(d, l, h).how = h
  BY ReadingIs
<1>2. Reading(c, l, h).body = c /\ Reading(c, l, h).last = l /\ Reading(c, l, h).how = h
  BY ReadingIs
<1> QED
  BY <1>1, <1>2 DEF Follows, d

LEMMA FollowsRest ==
  ASSUME NEW b, NEW s
  PROVE  Follows(Reading(b \o s.body, s.last, s.how), b, s)
<1> DEFINE d == b \o s.body
           l == s.last
           h == s.how
<1> HIDE DEF d, l, h
<1>1. Reading(d, l, h).body = d /\ Reading(d, l, h).last = l /\ Reading(d, l, h).how = h
  BY ReadingIs
<1> QED
  BY <1>1 DEF Follows, d, l, h

LEMMA FollowsOn ==
  ASSUME NEW r, NEW s, NEW t, NEW b \in Seq(Nat), NEW c \in Seq(Nat), t.body \in Seq(Nat), Follows(r, b, s), Follows(s, c, t)
  PROVE  Follows(r, b \o c, t)
<1>1. r.body = b \o (c \o t.body)
  BY DEF Follows
<1> DEFINE d == t.body
<1>2. d \in Seq(Nat)
  OBVIOUS
<1> HIDE DEF d
<1>3. (b \o c) \o d = b \o (c \o d)
  BY <1>2, JoinAssoc
<1> QED
  BY <1>1, <1>3 DEF Follows, d

LEMMA FollowsItself ==
  ASSUME NEW r, NEW s, r.body \in Seq(Nat), s.body = r.body, s.last = r.last, s.how = r.how
  PROVE  Follows(r, <<>>, s)
<1> DEFINE d == r.body
<1>1. d \in Seq(Nat)
  OBVIOUS
<1> HIDE DEF d
<1>2. <<>> \o d = d
  BY <1>1, PrefixOf
<1> QED
  BY <1>2 DEF Follows, d

LEMMA FollowsPrefix ==
  ASSUME NEW r, NEW s, NEW b \in Seq(Nat), s.body \in Seq(Nat), Follows(r, b, s)
  PROVE  IsPrefix(b, r.body) /\ r.body \in Seq(Nat)
<1> DEFINE d == s.body
<1>1. d \in Seq(Nat)
  OBVIOUS
<1> HIDE DEF d
<1>2. IsPrefix(b, b \o d) /\ b \o d \in Seq(Nat)
  BY <1>1, PrefixOf, Joined
<1> QED
  BY <1>2 DEF Follows, d

(* The places p to K fall in two, p to M and q to K. *)
Cuts(p, M, q, K) ==
  p \in Nat /\ M \in Nat /\ q \in Nat /\ K \in Nat /\ q = M + 1 /\ p <= q /\ M <= K

LEMMA PlacesSplit ==
  ASSUME NEW p, NEW M, NEW q, NEW K, Cuts(p, M, q, K)
  PROVE  /\ Places(p, K) = Places(p, M) \o Places(q, K)
         /\ Places(p, K) \in Seq(Nat) /\ Places(p, M) \in Seq(Nat) /\ Places(q, K) \in Seq(Nat)
<1>1. p \in Nat /\ K \in Nat
  BY DEF Cuts
<1>2. PICK n \in Nat : p + n = q /\ p + n - 1 = M /\ p + n <= K + 1
  <2>1. p + (q - p) = q /\ p + (q - p) - 1 = M /\ p + (q - p) <= K + 1 /\ q - p \in Nat
    BY DEF Cuts
  <2> QED
    BY <2>1
<1>3. /\ Places(p, K) = Places(p, p + n - 1) \o Places(p + n, K)
      /\ Places(p, K) \in Seq(Nat) /\ Places(p, p + n - 1) \in Seq(Nat) /\ Places(p + n, K) \in Seq(Nat)
  BY <1>1, <1>2, PlacesJoin
<1> QED
  BY <1>2, <1>3

(* n bytes of the m that begin at p are taken, up to M; k are left at q. *)
Moves(w, p, m, n, M, q, k) ==
  /\ w \in Seq(Bytes) /\ p \in Nat /\ m \in Nat /\ n \in Nat /\ M \in Nat /\ q \in Nat /\ k \in Nat
  /\ 1 <= p /\ q = p + n /\ q = M + 1 /\ M <= Len(w) /\ m = n + k

LEMMA MovesIs ==
  ASSUME NEW w \in Seq(Bytes), NEW p \in Nat \ {0}, NEW m \in Nat, NEW n \in Nat, n <= m, p + n <= Len(w) + 1
  PROVE  Moves(w, p, m, n, p + n - 1, p + n, m - n)
BY DEF Moves

LEMMA AnnouncedIs ==
  ASSUME NEW w, NEW p \in Nat, NEW n \in Nat, NEW K \in Nat, p + n - 1 = K, Len(w) \in Nat
  PROVE  /\ K <= Len(w) => Announced(w, p, n) = Reading(Places(p, K), K, "whole")
         /\ ~(K <= Len(w)) => Announced(w, p, n) = Reading(Places(p, Len(w)), 0, "cut")
<1>1. p + n <= Len(w) + 1 <=> K <= Len(w)
  OBVIOUS
<1> QED
  BY <1>1 DEF Announced

LEMMA LengthGoesOnAt ==
  ASSUME NEW w, NEW p, NEW m, NEW n, NEW M, NEW q, NEW k, Moves(w, p, m, n, M, q, k)
  PROVE  Follows(Announced(w, p, m), Places(p, M), Announced(w, q, k))
<1>1. w \in Seq(Bytes) /\ p \in Nat /\ m \in Nat /\ q \in Nat /\ k \in Nat /\ Len(w) \in Nat
  BY DEF Moves
<1>2. PICK K \in Nat : p + m - 1 = K /\ q + k - 1 = K /\ Cuts(p, M, q, Lesser(Len(w), K))
  <2>1. p + m - 1 \in Nat /\ q + k - 1 = p + m - 1 /\ Cuts(p, M, q, Lesser(Len(w), p + m - 1))
    BY DEF Moves, Cuts, Lesser
  <2> QED
    BY <2>1
<1>3. CASE K <= Len(w)
  <2>1. Lesser(Len(w), K) = K
    BY <1>1, <1>3 DEF Lesser
  <2>2. Places(p, K) = Places(p, M) \o Places(q, K)
    BY <1>2, <2>1, PlacesSplit
  <2>3. Announced(w, p, m) = Reading(Places(p, K), K, "whole") /\ Announced(w, q, k) = Reading(Places(q, K), K, "whole")
    BY <1>1, <1>2, <1>3, AnnouncedIs
  <2>4. Follows(Reading(Places(p, M) \o Places(q, K), K, "whole"), Places(p, M), Reading(Places(q, K), K, "whole"))
    BY FollowsReading
  <2> QED
    BY <2>2, <2>3, <2>4
<1>4. CASE ~(K <= Len(w))
  <2>1. Lesser(Len(w), K) = Len(w)
    BY <1>1, <1>4 DEF Lesser
  <2>2. Places(p, Len(w)) = Places(p, M) \o Places(q, Len(w))
    BY <1>2, <2>1, PlacesSplit
  <2>3. Announced(w, p, m) = Reading(Places(p, Len(w)), 0, "cut") /\ Announced(w, q, k) = Reading(Places(q, Len(w)), 0, "cut")
    BY <1>1, <1>2, <1>4, AnnouncedIs
  <2>4. Follows(Reading(Places(p, M) \o Places(q, Len(w)), 0, "cut"), Places(p, M), Reading(Places(q, Len(w)), 0, "cut"))
    BY FollowsReading
  <2> QED
    BY <2>2, <2>3, <2>4
<1> QED
  BY <1>3, <1>4

LEMMA LengthGoesOn ==
  ASSUME NEW w \in Seq(Bytes), NEW p \in Nat \ {0}, NEW m \in Nat, NEW n \in Nat, n <= m, p + n <= Len(w) + 1
  PROVE  Follows(Announced(w, p, m), Places(p, p + n - 1), Announced(w, p + n, m - n))
BY MovesIs, LengthGoesOnAt

(* Of n bytes of data from p on the last is at K, and their end at q. *)
DataIs(w, p, n, K, q) ==
  w \in Seq(Bytes) /\ p \in Nat /\ n \in Nat /\ K \in Nat /\ q \in Nat /\ q = p + n /\ q = K + 1 /\ p >= 1

LEMMA DataReads ==
  ASSUME NEW w, NEW p, NEW n, NEW K, NEW q, DataIs(w, p, n, K, q)
  PROVE  Data(w, p, n) =
           IF q + 1 > Len(w) THEN Reading(Places(p, Lesser(Len(w), K)), 0, "cut")
           ELSE IF ~(w[q] = "CR" /\ w[q + 1] = "LF") THEN Reading(Places(p, K), 0, "bad")
           ELSE Reading(Places(p, K) \o Chunks(w, q + 2, "size").body, Chunks(w, q + 2, "size").last, Chunks(w, q + 2, "size").how)
<1>1. p + n = q /\ p + n - 1 = K
  BY DEF DataIs
<1> QED
  BY <1>1 DEF Data, DataAt, Chunks

LEMMA DataGoesOnAt ==
  ASSUME NEW w, NEW p, NEW m, NEW n, NEW M, NEW q, NEW k, Moves(w, p, m, n, M, q, k), k > 0
  PROVE  Follows(Data(w, p, m), Places(p, M), Data(w, q, k))
<1>1. w \in Seq(Bytes) /\ p \in Nat /\ m \in Nat /\ q \in Nat /\ k \in Nat /\ Len(w) \in Nat
  BY DEF Moves
<1>2. PICK K, e : DataIs(w, p, m, K, e) /\ DataIs(w, q, k, K, e) /\ Cuts(p, M, q, K) /\ Cuts(p, M, q, Lesser(Len(w), K))
  <2>1. /\ DataIs(w, p, m, p + m - 1, p + m) /\ DataIs(w, q, k, p + m - 1, p + m)
        /\ Cuts(p, M, q, p + m - 1) /\ Cuts(p, M, q, Lesser(Len(w), p + m - 1))
    BY DEF Moves, Cuts, DataIs, Lesser
  <2> QED
    BY <2>1
<1>3. Places(p, K) = Places(p, M) \o Places(q, K) /\ Places(p, M) \in Seq(Nat) /\ Places(q, K) \in Seq(Nat)
  BY <1>2, PlacesSplit
<1>4. CASE e + 1 > Len(w)
  <2> DEFINE L == Lesser(Len(w), K)
  <2>1. Places(p, L) = Places(p, M) \o Places(q, L)
    BY <1>2, PlacesSplit
  <2>2. Data(w, p, m) = Reading(Places(p, L), 0, "cut") /\ Data(w, q, k) = Reading(Places(q, L), 0, "cut")
    BY <1>2, <1>4, DataReads
  <2>3. Follows(Reading(Places(p, M) \o Places(q, L), 0, "cut"), Places(p, M), Reading(Places(q, L), 0, "cut"))
    BY FollowsReading
  <2> HIDE DEF L
  <2> QED
    BY <2>1, <2>2, <2>3
<1>5. CASE ~(e + 1 > Len(w)) /\ ~(w[e] = "CR" /\ w[e + 1] = "LF")
  <2>1. Data(w, p, m) = Reading(Places(p, K), 0, "bad") /\ Data(w, q, k) = Reading(Places(q, K), 0, "bad")
    BY <1>2, <1>5, DataReads
  <2>2. Follows(Reading(Places(p, M) \o Places(q, K), 0, "bad"), Places(p, M), Reading(Places(q, K), 0, "bad"))
    BY FollowsReading
  <2> QED
    BY <1>3, <2>1, <2>2
<1>6. CASE ~(e + 1 > Len(w)) /\ (w[e] = "CR" /\ w[e + 1] = "LF")
  <2> DEFINE rest == Chunks(w, e + 2, "size")
             t == rest.body
             r == Places(p, M)
             s == Places(q, K)
  <2>1. /\ Data(w, p, m) = Reading(Places(p, K) \o t, rest.last, rest.how)
        /\ Data(w, q, k) = Reading(s \o t, rest.last, rest.how)
    BY <1>2, <1>6, DataReads
  <2>2. t \in Seq(Nat)
    <3>1. e + 2 \in 1..Len(w) + 1
      BY <1>1, <1>2, <1>6 DEF DataIs
    <3>2. GoodBody(Chunks(w, e + 2, "size"), e + 2, Len(w))
      BY <1>1, <3>1, ChunksType DEF Steps
    <3> QED
      BY <3>2 DEF GoodBody
  <2>3. r \in Seq(Nat) /\ s \in Seq(Nat) /\ Places(p, K) = r \o s
    BY <1>3
  <2> HIDE DEF rest, t, r, s
  <2>4. (r \o s) \o t = r \o (s \o t)
    BY <2>2, <2>3, JoinAssoc
  <2> DEFINE u == s \o t
             l == rest.last
             h == rest.how
  <2>5. Data(w, p, m) = Reading(r \o u, l, h) /\ Data(w, q, k) = Reading(u, l, h)
    BY <2>1, <2>3, <2>4
  <2> HIDE DEF u, l, h
  <2>6. Follows(Reading(r \o u, l, h), r, Reading(u, l, h))
    BY FollowsReading
  <2> QED
    BY <2>5, <2>6 DEF r
<1> QED
  BY <1>4, <1>5, <1>6

LEMMA DataGoesOn ==
  ASSUME NEW w \in Seq(Bytes), NEW p \in Nat \ {0}, NEW m \in Nat, NEW n \in Nat, n < m, p + n <= Len(w) + 1
  PROVE  Follows(Data(w, p, m), Places(p, p + n - 1), Data(w, p + n, m - n))
<1>1. n <= m /\ m - n > 0
  OBVIOUS
<1> QED
  BY <1>1, MovesIs, DataGoesOnAt

LEMMA DataEnds ==
  ASSUME NEW w \in Seq(Bytes), NEW p \in Nat \ {0}, NEW n \in Nat \ {0}, p + n + 1 <= Len(w)
  PROVE  /\ w[p + n] = "CR" /\ w[p + n + 1] = "LF" =>
              Follows(Data(w, p, n), Places(p, p + n - 1), Chunks(w, p + n + 2, "size"))
         /\ ~(w[p + n] = "CR" /\ w[p + n + 1] = "LF") => Data(w, p, n).how = "bad"
<1>1. ~(p + n + 1 > Len(w))
  OBVIOUS
<1>2. CASE w[p + n] = "CR" /\ w[p + n + 1] = "LF"
  <2> DEFINE rest == Chunks(w, p + n + 2, "size")
  <2>1. Data(w, p, n) = Reading(Places(p, p + n - 1) \o rest.body, rest.last, rest.how)
    BY <1>1, <1>2 DEF Data, DataAt, Chunks
  <2> HIDE DEF rest
  <2>2. Follows(Data(w, p, n), Places(p, p + n - 1), rest)
    BY <2>1, FollowsRest
  <2> QED
    BY <1>2, <2>2 DEF rest
<1>3. CASE ~(w[p + n] = "CR" /\ w[p + n + 1] = "LF")
  <2>1. Data(w, p, n) = Reading(Places(p, p + n - 1), 0, "bad")
    BY <1>1, <1>3 DEF Data, DataAt
  <2> QED
    BY <1>3, <2>1, ReadingIs
<1> QED
  BY <1>2, <1>3

-----------------------------------------------------------------------------
(* The line that the worker reads is the one that begins at From.          *)

LEMMA LineEndsAt ==
  ASSUME NEW w \in Seq(Bytes), NEW p \in Nat \ {0}, NEW n \in Nat, n >= 2, n < LineMax, p + n - 1 <= Len(w),
         w[p + n - 2] = "CR", w[p + n - 1] = "LF", \A i \in LineEnds(w, p) : i >= p + n - 1
  PROVE  ~NoLine(w, p) /\ LineEnd(w, p) = p + n - 1
<1> DEFINE e == p + n - 1
<1>1. e \in LineEnds(w, p)
  <2>1. e \in p + 1..Len(w) /\ e - 1 = p + n - 2
    OBVIOUS
  <2> QED
    BY <2>1 DEF LineEnds
<1>2. /\ LineEnd(w, p) \in Nat /\ LineEnd(w, p) >= p + 1 /\ LineEnd(w, p) <= Len(w)
      /\ w[LineEnd(w, p)] = "LF" /\ w[LineEnd(w, p) - 1] = "CR"
      /\ LineEnd(w, p) <= e
  BY <1>1, LineEndIs
<1>3. LineEnd(w, p) \in LineEnds(w, p)
  BY <1>2 DEF LineEnds
<1>4. LineEnd(w, p) >= e
  BY <1>3
<1>5. LineEnd(w, p) = e
  <2>1. e \in Nat
    OBVIOUS
  <2> HIDE DEF e
  <2> QED
    BY <1>2, <1>4, <2>1
<1>6. e - p < LineMax - 1
  BY Sizes
<1>7. ~NoLine(w, p)
  <2>1. ~(e - p >= LineMax - 1)
    <3>1. e - p \in Int /\ LineMax - 1 \in Int
      BY Sizes
    <3> QED
      BY <1>6, <3>1
  <2> QED
    BY <1>1, <1>5, <2>1 DEF NoLine
<1> QED
  BY <1>5, <1>7

LEMMA LineGoesOn ==
  ASSUME NEW w \in Seq(Bytes), NEW p \in Nat \ {0}, NEW n \in Nat,
         ~(n >= 2 /\ w[p + n - 2] = "CR" /\ w[p + n - 1] = "LF"), \A i \in LineEnds(w, p) : i >= p + n - 1
  PROVE  \A i \in LineEnds(w, p) : i >= p + n
<1> SUFFICES ASSUME NEW i \in LineEnds(w, p) PROVE i >= p + n
  OBVIOUS
<1>1. i \in Nat /\ i >= p + 1 /\ w[i] = "LF" /\ w[i - 1] = "CR"
  BY DEF LineEnds
<1>2. i >= p + n - 1
  OBVIOUS
<1>3. i # p + n - 1
  <2> SUFFICES ASSUME i = p + n - 1 PROVE FALSE
    OBVIOUS
  <2>1. n >= 2 /\ i - 1 = p + n - 2
    BY <1>1
  <2> QED
    BY <1>1, <2>1
<1> QED
  BY <1>1, <1>2, <1>3

LEMMA LineIsLong ==
  ASSUME NEW w \in Seq(Bytes), NEW p \in Nat \ {0}, \A i \in LineEnds(w, p) : i >= p + LineMax - 1, p + LineMax - 2 <= Len(w)
  PROVE  NoLine(w, p) /\ Len(w) - p >= LineMax - 2
<1>1. LineMax \in Nat /\ Len(w) \in Nat
  BY Sizes
<1>2. CASE LineEnds(w, p) # {}
  <2>1. /\ LineEnd(w, p) \in Nat /\ LineEnd(w, p) >= p + 1 /\ LineEnd(w, p) <= Len(w)
        /\ w[LineEnd(w, p)] = "LF" /\ w[LineEnd(w, p) - 1] = "CR"
    BY <1>2, LineEndIs
  <2>2. LineEnd(w, p) \in LineEnds(w, p)
    BY <2>1 DEF LineEnds
  <2>3. LineEnd(w, p) >= p + LineMax - 1
    BY <2>2
  <2>4. LineEnd(w, p) - p >= LineMax - 1
    BY <1>1, <2>1, <2>3
  <2> QED
    BY <1>1, <2>4 DEF NoLine
<1>3. CASE LineEnds(w, p) = {}
  BY <1>1, <1>3 DEF NoLine
<1> QED
  BY <1>2, <1>3

LEMMA LineDoneIs ==
  ASSUME Types
  PROVE  LineDone <=> Len(line) >= 2 /\ client.wire[From + fill + Len(line) - 2] = "CR" /\ client.wire[From + fill + Len(line) - 1] = "LF"
<1>1. /\ LineBytes \in Seq(Bytes) /\ Len(LineBytes) = Len(line) /\ Len(line) \in Nat /\ From + fill \in Nat \ {0}
      /\ \A i \in 1..Len(line) : LineBytes[i] = client.wire[From + fill + i - 1]
  BY LineIs
<1> DEFINE s == LineBytes
<1>2. PICK n \in Nat, p \in Nat \ {0} : n = Len(line) /\ p = From + fill
  BY <1>1
<1>3. s \in Seq(Bytes) /\ Len(s) = n /\ \A i \in 1..n : s[i] = client.wire[p + i - 1]
  BY <1>1, <1>2
<1>4. LineDone <=> n >= 2 /\ SubSeq(s, n - 1, n) = <<"CR", "LF">>
  BY <1>2 DEF LineDone
<1> HIDE DEF s
<1>5. n >= 2 => (SubSeq(s, n - 1, n) = <<"CR", "LF">> <=> s[n - 1] = "CR" /\ s[n] = "LF")
  <2> SUFFICES ASSUME n >= 2 PROVE SubSeq(s, n - 1, n) = <<"CR", "LF">> <=> s[n - 1] = "CR" /\ s[n] = "LF"
    OBVIOUS
  <2> DEFINE t == SubSeq(s, n - 1, n)
  <2>1. t \in Seq(Bytes) /\ Len(t) = 2 /\ t[1] = s[n - 1] /\ t[2] = s[n]
    <3>1. n - 1 \in Nat /\ n - 1 >= 1 /\ n >= (n - 1) - 1 /\ n + 1 - (n - 1) = 2 /\ (n - 1) + 1 - 1 = n - 1 /\ (n - 1) + 2 - 1 = n /\ n <= Len(s)
      BY <1>3
    <3>2. SubSeq(s, n - 1, n) \in Seq(Bytes) /\ Len(SubSeq(s, n - 1, n)) = 2
          /\ \A i \in 1..2 : SubSeq(s, n - 1, n)[i] = s[(n - 1) + i - 1]
      BY <1>3, <3>1, SubSeqIs
    <3> QED
      BY <3>1, <3>2
  <2> HIDE DEF t
  <2>2. t = <<"CR", "LF">> <=> t[1] = "CR" /\ t[2] = "LF"
    BY <2>1
  <2> QED
    BY <2>1, <2>2 DEF t
<1>6. n >= 2 => s[n - 1] = client.wire[p + n - 2] /\ s[n] = client.wire[p + n - 1]
  <2> SUFFICES ASSUME n >= 2 PROVE s[n - 1] = client.wire[p + n - 2] /\ s[n] = client.wire[p + n - 1]
    OBVIOUS
  <2>1. n - 1 \in 1..n /\ n \in 1..n /\ p + (n - 1) - 1 = p + n - 2
    OBVIOUS
  <2> QED
    BY <1>3, <2>1
<1>7. LineDone <=> n >= 2 /\ client.wire[p + n - 2] = "CR" /\ client.wire[p + n - 1] = "LF"
  BY <1>4, <1>5, <1>6
<1> QED
  BY <1>2, <1>7

-----------------------------------------------------------------------------
(* What the state says of the client's requests, as long as no handler of   *)
(* the connection has strayed.                                             *)

(* What is left of the body that the worker reads. *)
LeftAt(w, p, f, r, at) ==
  IF ~r.chunked THEN Announced(w, p, r.length)
  ELSE IF r.complete THEN Reading(<<>>, p - 1, "whole")
  ELSE IF at = "trailer" THEN Chunks(w, p, "trailer")
  ELSE IF at = "newline" THEN Data(w, p, f)
  ELSE IF r.left > 0 THEN Data(w, p, r.left)
  ELSE Chunks(w, p, "size")
Left == LeftAt(client.wire, From, fill, reader, call)
This == Asked[served]

(* A reader of chunks has lost its place after an error, and after a close. *)
Readable == ~reader.chunked \/ (~gone /\ ~(call = "handler" /\ Failed))

(* When no more comes, nothing is left of what came.                       *)
NothingMore ==
  /\ reader.plen = 0
  /\ reader.chunked => fill = 0 /\ line = <<>> /\ (client.tls => call = "handler" /\ Failed)
  /\ ~reader.chunked => reader.length > 0
GoneOK ==
  /\ gone /\ call \in {"idle", "head"} => \A q \in From..got : Byte(q) \notin DOMAIN Heads
  /\ gone /\ Served => NothingMore
  /\ Served /\ call # "handler" /\ reader.chunked => ~Failed
KeepOK == reader.complete /\ keep => reader.plen = 0
LineSays == call \in {"size", "trailer"} => \A i \in LineEnds(client.wire, From) : i >= From + Len(line) - 1

(* The request that is served is the next of the client's.                 *)
Misleading == Asked # <<>> /\ Last(Asked).how \in {"empty", "bad", "wide", "odd"}
RequestOK ==
  /\ misled => Misleading
  /\ ~misled /\ call \in {"idle", "head"} => NextIs(client.wire, served, From) \/ gone
  /\ ~misled /\ Served =>
       /\ Turn(client.wire, served) /\ first = This.first /\ IsPrefix(parts, This.body)
       /\ Readable => Follows(This, parts, Left)

(* What the last read told the handler is true of the request.             *)
ResultSays ==
  ~misled /\ call = "handler" =>
    /\ result = "end" \/ (result = "body" /\ reader.chunked)
         => (gone /\ ~client.tls) \/ (IF reader.chunked THEN reader.complete ELSE reader.length = 0)
    /\ result = "HEADER" => This.how = "bad"
    /\ result = "LENGTH" => This.how = "long" \/ reader.length > ContentMax \/ Len(This.body) > ContentMax

Means == GoneOK /\ KeepOK /\ LineSays /\ RequestOK /\ ResultSays

-----------------------------------------------------------------------------
(* Steps in general.                                                       *)

LEMMA SameMeans ==
  ASSUME Means, UNCHANGED <<client, sockVars, fill, pending, reader, keep, line, call, result, parts, workVars>>
  PROVE  Means'
<1>1. From' = From /\ Served' = Served /\ Failed' = Failed /\ This' = This /\ Asked' = Asked /\ Readable' = Readable /\ client.wire' = client.wire
  BY DEF From, Served, InChunks, Failed, This, Asked, Readable, sockVars, workVars
<1>2. Left' = Left
  BY <1>1 DEF Left
<1>3. GoneOK'
  BY <1>1 DEF Means, GoneOK, NothingMore, Byte, sockVars
<1>4. KeepOK' /\ LineSays'
  BY <1>1 DEF Means, KeepOK, LineSays
<1>5. RequestOK'
  BY <1>1, <1>2 DEF Means, RequestOK, Misleading, sockVars, workVars
<1>6. ResultSays'
  BY <1>1 DEF Means, ResultSays, sockVars, workVars
<1> QED
  BY <1>3, <1>4, <1>5, <1>6 DEF Means

LEMMA ClosedMeans ==
  ASSUME Means, call' = "closed", reader' = NoReader, UNCHANGED <<client, misled>>
  PROVE  Means'
<1>1. ~Served' /\ Asked' = Asked
  BY DEF Served, InChunks, Asked
<1>2. GoneOK'
  BY <1>1 DEF GoneOK
<1>3. KeepOK'
  BY Drained DEF KeepOK
<1>4. LineSays'
  BY DEF LineSays
<1>5. RequestOK'
  BY <1>1 DEF Means, RequestOK, Misleading
<1>6. ResultSays'
  BY DEF ResultSays
<1> QED
  BY <1>2, <1>3, <1>4, <1>5, <1>6 DEF Means

(* Before a request the next one is where From is. *)
LEMMA BetweenMeans ==
  ASSUME Means, call \in {"idle", "head"}, call' \in {"idle", "head"}, From' = From, reader' = reader, reader = NoReader,
         UNCHANGED <<client, served, misled>>, gone => gone',
         gone' => \A q \in From..got' : Byte(q) \notin DOMAIN Heads
  PROVE  Means'
<1>1. ~Served' /\ Asked' = Asked /\ client.wire' = client.wire
  BY DEF Served, InChunks, Asked
<1>2. GoneOK'
  BY <1>1 DEF GoneOK, Byte
<1>3. KeepOK'
  BY Drained DEF KeepOK
<1>4. LineSays'
  BY DEF LineSays
<1>5. RequestOK'
  BY <1>1 DEF Means, RequestOK, Misleading
<1>6. ResultSays'
  BY DEF ResultSays
<1> QED
  BY <1>2, <1>3, <1>4, <1>5, <1>6 DEF Means

(* A step within a request. *)
LEMMA WithinMeans ==
  ASSUME Means, Served, Served', UNCHANGED <<client, first, served, misled>>,
         GoneOK', KeepOK', LineSays', ResultSays',
         ~misled => IsPrefix(parts', This.body),
         ~misled /\ Readable' => Follows(This, parts', Left')
  PROVE  Means'
<1>1. This' = This /\ Asked' = Asked /\ client.wire' = client.wire
  BY DEF This, Asked
<1>2. call' \notin {"idle", "head"}
  BY DEF Served, InChunks
<1>3. RequestOK'
  BY <1>1, <1>2 DEF Means, RequestOK, Misleading
<1> QED
  BY <1>3 DEF Means

(* While bytes may come, only an error of the reader matters. *)
LEMMA HereGoneOK ==
  ASSUME ~gone', call' # "handler" /\ reader'.chunked => ~Failed'
  PROVE  GoneOK'
BY DEF GoneOK

LEMMA PartsType == ASSUME Types PROVE parts \in Seq(Nat)
<1>1. parts \in Seq(1..N) /\ N \in Nat
  BY WireType DEF Types, Rest
<1> QED
  BY <1>1

LEMMA LeftSame ==
  ASSUME From' = From, UNCHANGED client, reader'.chunked = reader.chunked, reader'.complete = reader.complete,
         reader'.left = reader.left, reader'.length = reader.length,
         call \notin {"trailer", "newline"}, call' \notin {"trailer", "newline"}
  PROVE  Left' = Left
<1>1. client.wire' = client.wire
  OBVIOUS
<1> QED
  BY <1>1 DEF Left, LeftAt

LEMMA LeftAtType ==
  ASSUME NEW w \in Seq(Bytes), NEW p \in Nat \ {0}, p <= Len(w) + 1, NEW f \in Nat, NEW r \in ReaderType, NEW at,
         at = "newline" => f > 0
  PROVE  LeftAt(w, p, f, r, at).body \in Seq(Nat)
<1>1. PICK n \in Nat, l \in Nat : n = r.length /\ l = r.left
  BY ReaderIs
<1>2. CASE ~r.chunked
  <2>1. Announced(w, p, n).body \in Seq(Nat)
    BY AnnouncedType DEF GoodBody
  <2> QED
    BY <1>1, <1>2, <2>1 DEF LeftAt
<1>3. CASE r.chunked /\ r.complete
  <2>1. LeftAt(w, p, f, r, at).body = <<>>
    BY <1>3, ReadingIs DEF LeftAt
  <2> QED
    BY <2>1
<1>4. CASE r.chunked /\ ~r.complete
  <2>1. p \in 1..Len(w) + 1
    OBVIOUS
  <2>2. \A a \in Steps : Chunks(w, p, a).body \in Seq(Nat)
    BY <2>1, ChunksType DEF GoodBody
  <2>3. ASSUME NEW m \in Nat \ {0} PROVE Data(w, p, m).body \in Seq(Nat)
    <3>1. p + m + 1 <= Len(w) => GoodBody(Chunks(w, p + m + 2, "size"), p + m + 2, Len(w))
      <4> SUFFICES ASSUME p + m + 1 <= Len(w) PROVE GoodBody(Chunks(w, p + m + 2, "size"), p + m + 2, Len(w))
        OBVIOUS
      <4>1. p + m + 2 \in 1..Len(w) + 1
        OBVIOUS
      <4> QED
        BY <4>1, ChunksType DEF Steps
    <3> QED
      BY <3>1, DataType DEF GoodBody
  <2>4. at = "newline" => Data(w, p, f).body \in Seq(Nat)
    <3>1. f > 0 => f \in Nat \ {0}
      OBVIOUS
    <3> QED
      BY <2>3, <3>1
  <2>5. l > 0 => Data(w, p, l).body \in Seq(Nat)
    <3>1. l > 0 => l \in Nat \ {0}
      OBVIOUS
    <3> QED
      BY <2>3, <3>1
  <2> QED
    BY <1>1, <1>4, <2>2, <2>4, <2>5 DEF LeftAt, Steps
<1> QED
  BY <1>2, <1>3, <1>4

LEMMA PlaceWithin == ASSUME Types PROVE From \in Nat \ {0} /\ From <= N + 1 /\ From + fill + Len(line) + reader.plen <= N + 1
<1>1. /\ From \in Nat \ {0} /\ fill \in Nat /\ Len(line) \in Nat /\ reader.plen \in Nat /\ Len(pending) \in Nat
      /\ From + fill + Len(line) + reader.plen + Len(pending) = got + 1 /\ got \in Nat /\ N \in Nat /\ got <= N
  BY Facts, WireType DEF Types
<1> QED
  BY <1>1

LEMMA LeftType == Types => Left.body \in Seq(Nat)
<1> SUFFICES ASSUME Types PROVE Left.body \in Seq(Nat)
  OBVIOUS
<1>1. client.wire \in Seq(Bytes) /\ From \in Nat \ {0} /\ From <= Len(client.wire) + 1 /\ fill \in Nat /\ reader \in ReaderType
  BY WireType, PlaceWithin, Facts DEF Types, N
<1>2. call = "newline" => fill > 0
  BY DEF Types, Modes
<1> QED
  BY <1>1, <1>2, LeftAtType DEF Left

LEMMA LeftTypeNext == Types' => (Left.body \in Seq(Nat))'
BY LeftType, PTL

(* The worker hands bytes on that are the next of the body. *)
LEMMA GiveMeans ==
  ASSUME Types, Types', Means, Served, Served', call # "handler", ~gone, ~gone', UNCHANGED <<client, first, served, misled>>,
         NEW more \in Seq(Nat), Give(more), call' \in {"handler", "content"}, reader'.chunked = reader.chunked, ~reader'.complete,
         Follows(Left, more, Left')
  PROVE  Means'
<1>0. parts \in Seq(Nat) /\ Left.body \in Seq(Nat) /\ Left'.body \in Seq(Nat)
  BY PartsType, LeftType, LeftTypeNext
<1>1. Readable /\ (reader.chunked => ~Failed)
  BY DEF Readable, Means, GoneOK
<1>2. ~misled => Follows(This, parts \o more, Left')
  <2> SUFFICES ASSUME ~misled PROVE Follows(This, parts \o more, Left')
    OBVIOUS
  <2>1. Follows(This, parts, Left) /\ Follows(Left, more, Left')
    BY <1>0, <1>1 DEF Means, RequestOK
  <2> QED
    BY <1>0, <2>1, FollowsOn
<1>3. parts \o more \in Seq(Nat) /\ Len(parts \o more) = Len(parts) + Len(more) /\ Len(parts) \in Nat /\ Len(more) \in Nat
  BY <1>0, Joined
<1> DEFINE b == parts \o more
<1>4. b \in Seq(Nat) /\ (~misled => Follows(This, b, Left')) /\ Len(b) = Len(parts) + Len(more)
  BY <1>2, <1>3
<1> HIDE DEF b
<1>5. ~misled => IsPrefix(b, This.body) /\ This.body \in Seq(Nat)
  BY <1>0, <1>4, FollowsPrefix
<1>6. KeepOK' /\ LineSays'
  BY DEF KeepOK, LineSays
<1>7. \/ parts' = b /\ (call' = "handler" => result' = "part") /\ (call' = "content" => result' = result)
      \/ /\ parts' = <<>> /\ reader.chunked /\ call' = "handler"
         /\ \/ result' = "MEMORY"
            \/ result' = "LENGTH" /\ Len(parts) + Len(more) > ContentMax
  BY DEF Give, Ends, b
<1>8. CASE parts' = b /\ (call' = "handler" => result' = "part") /\ (call' = "content" => result' = result)
  <2>1. GoneOK'
    BY <1>1, <1>8, HereGoneOK DEF Failed
  <2>2. ResultSays'
    BY <1>8 DEF ResultSays
  <2> QED
    BY <1>4, <1>5, <1>6, <1>8, <2>1, <2>2, WithinMeans
<1>9. CASE parts' = <<>> /\ reader.chunked /\ call' = "handler" /\ result' = "MEMORY"
  <2>1. GoneOK' /\ ~Readable'
    BY <1>9, HereGoneOK DEF Failed, Codes, Readable
  <2>2. ResultSays'
    BY <1>9 DEF ResultSays
  <2>3. ~misled => IsPrefix(<<>>, This.body)
    BY <1>5, PrefixOf
  <2> QED
    BY <1>6, <1>9, <2>1, <2>2, <2>3, WithinMeans
<1>10. CASE parts' = <<>> /\ reader.chunked /\ call' = "handler" /\ result' = "LENGTH" /\ Len(parts) + Len(more) > ContentMax
  <2>1. GoneOK' /\ ~Readable'
    BY <1>10, HereGoneOK DEF Failed, Codes, Readable
  <2>2. ~misled => Len(This.body) > ContentMax
    <3> SUFFICES ASSUME ~misled PROVE Len(This.body) > ContentMax
      OBVIOUS
    <3> DEFINE d == Left'.body
    <3>1. This.body = b \o d /\ d \in Seq(Nat)
      BY <1>0, <1>4 DEF Follows
    <3> HIDE DEF d
    <3>2. Len(This.body) = Len(b) + Len(d) /\ Len(d) \in Nat
      <4>1. Len(b \o d) = Len(b) + Len(d) /\ Len(d) \in Nat
        <5>1. b \in Seq(Nat) /\ d \in Seq(Nat)
          BY <1>4, <3>1
        <5> QED
          BY <5>1, Joined
      <4> QED
        BY <3>1, <4>1
    <3>3. PICK m \in Nat, k \in Nat : m = Len(b) /\ k = Len(d)
      BY <1>4, <3>2
    <3>4. m > ContentMax
      BY <1>4, <1>10, <3>3
    <3>5. m + k > ContentMax
      BY <3>4, Sizes
    <3> QED
      BY <3>2, <3>3, <3>5
  <2>3. ResultSays'
    <3>1. This' = This
      BY DEF This, Asked
    <3> QED
      BY <1>10, <2>2, <3>1 DEF ResultSays
  <2>4. ~misled => IsPrefix(<<>>, This.body)
    BY <1>5, PrefixOf
  <2> QED
    BY <1>6, <1>10, <2>1, <2>3, <2>4, WithinMeans
<1> QED
  BY <1>7, <1>8, <1>9, <1>10

LEMMA BodyTyped == ASSUME Means, Served, ~misled PROVE This.body \in Seq(Nat) /\ IsPrefix(<<>>, This.body)
<1>1. This.body \in Seq(Nat)
  BY DEF Means, RequestOK, Turn, GoodBody, This, Asked
<1> QED
  BY <1>1, PrefixOf

(* The worker's read ends with an error, or with the close of a plain      *)
(* connection.                                                             *)
LEMMA EndsMeans ==
  ASSUME Types, Means, Served, Served', call # "handler", UNCHANGED <<client, first, served, misled, reader, keep>>,
         NEW r, Ends(r), r \in Codes \/ (r = "end" /\ gone' /\ ~client.tls), GoneOK', ~reader.chunked => Left' = Left,
         r = "HEADER" /\ ~misled => This.how = "bad", r = "LENGTH" /\ ~misled => This.how = "long"
  PROVE  Means'
<1>1. call' = "handler" /\ KeepOK' /\ LineSays' /\ This' = This /\ reader' = reader
  BY DEF Ends, Means, KeepOK, LineSays, This, Asked
<1>2. r \in Codes => r # "end"
  BY DEF Codes
<1>3. \/ parts' = parts
      \/ parts' = <<>> /\ reader.chunked
  BY DEF Ends
<1>4. ~misled => IsPrefix(parts', This.body)
  BY <1>3, BodyTyped DEF Means, RequestOK
<1>5. CASE r \in Codes /\ reader.chunked
  <2>1. result' = r
    BY <1>2, <1>5 DEF Ends
  <2>2. ~Readable'
    BY <1>1, <1>5, <2>1 DEF Readable, Failed
  <2>3. ResultSays'
    <3>1. r # "body"
      BY <1>5 DEF Codes
    <3> QED
      BY <1>1, <1>2, <1>5, <2>1, <3>1 DEF ResultSays
  <2> QED
    BY <1>1, <1>4, <2>2, <2>3, WithinMeans
<1>6. CASE r \in Codes /\ ~reader.chunked
  <2>1. result' = "body" \/ result' = r
    BY DEF Ends
  <2>2. parts' = parts /\ Left' = Left /\ Readable
    BY <1>3, <1>6 DEF Readable
  <2>3. ResultSays'
    BY <1>1, <1>2, <1>6, <2>1 DEF ResultSays
  <2>4. ~misled => Follows(This, parts, Left)
    BY <2>2 DEF Means, RequestOK
  <2> QED
    BY <1>1, <1>4, <2>2, <2>3, <2>4, WithinMeans
<1>7. CASE r = "end" /\ gone' /\ ~client.tls
  <2>1. (result' = "body" \/ result' = "end") /\ parts' = parts
    BY <1>7 DEF Ends
  <2>2. ResultSays'
    BY <1>1, <1>7, <2>1 DEF ResultSays
  <2>3. ~misled /\ Readable' => Follows(This, parts', Left')
    <3> SUFFICES ASSUME ~misled, Readable' PROVE Follows(This, parts', Left')
      OBVIOUS
    <3>1. ~reader.chunked /\ Readable
      BY <1>1, <1>7 DEF Readable
    <3> QED
      BY <2>1, <3>1 DEF Means, RequestOK
  <2> QED
    BY <1>1, <1>4, <2>2, <2>3, WithinMeans
<1> QED
  BY <1>5, <1>6, <1>7

LEMMA ReadContentMeans == Types /\ Means /\ ReadContent /\ ~strayed' => Means'
<1> SUFFICES ASSUME Types, Means, ReadContent, ~strayed' PROVE Means'
  OBVIOUS
<1>1. /\ call = "handler" /\ call' = "content" /\ (reader.chunked => ~Failed)
      /\ UNCHANGED <<netVars, sockVars, buf, fill, pending, bodyVars, first, served, misled>>
  BY DEF ReadContent, Strays
<1>2. /\ UNCHANGED <<client, gone, reader, keep, line, fill, result, parts, first, served, misled>> /\ Served /\ Served' /\ From' = From
  BY <1>1, ReadContentType DEF netVars, sockVars, bodyVars, Served
<1>3. Left' = Left
  BY <1>1, <1>2, LeftSame
<1>4. GoneOK'
  BY <1>1, <1>2 DEF Means, GoneOK, NothingMore, Failed
<1>5. KeepOK' /\ LineSays' /\ ResultSays'
  BY <1>1, <1>2 DEF Means, KeepOK, LineSays, ResultSays
<1>6. Readable' => Readable
  BY <1>1, <1>2 DEF Readable
<1>7. ~misled => IsPrefix(parts', This.body) /\ (Readable' => Follows(This, parts', Left'))
  BY <1>2, <1>3, <1>6 DEF Means, RequestOK
<1> QED
  BY <1>2, <1>4, <1>5, <1>7, WithinMeans

LEMMA ReadAllContentMeans == Types /\ Means /\ ReadAllContent => Means'
<1> SUFFICES ASSUME Types, Means, ReadAllContent PROVE Means'
  OBVIOUS
<1>1. /\ call = "handler" /\ result = "none"
      /\ UNCHANGED <<netVars, sockVars, buf, fill, pending, reader, keep, line, parts, workVars>>
      /\ \/ call' = "content" /\ result' = result
         \/ call' = "handler" /\ ~reader.chunked /\ result' = "LENGTH" /\ reader.length > ContentMax
         \/ call' = "handler" /\ ~reader.chunked /\ result' = "MEMORY"
  BY DEF ReadAllContent
<1>2. /\ UNCHANGED <<client, gone, reader, keep, line, fill, parts, first, served, misled>> /\ Served /\ Served' /\ From' = From /\ ~Failed
  BY <1>1, ReadAllContentType DEF netVars, sockVars, workVars, Served, Failed, Codes
<1>3. Left' = Left /\ call' \notin {"size", "trailer"}
  BY <1>1, <1>2, LeftSame
<1>4. GoneOK'
  BY <1>1, <1>2 DEF Means, GoneOK, NothingMore, Failed
<1>5. KeepOK' /\ LineSays' /\ ResultSays'
  BY <1>1, <1>2 DEF Means, KeepOK, LineSays, ResultSays
<1>6. Readable' => Readable
  BY <1>1, <1>2 DEF Readable
<1>7. ~misled => IsPrefix(parts', This.body) /\ (Readable' => Follows(This, parts', Left'))
  BY <1>2, <1>3, <1>6 DEF Means, RequestOK
<1> QED
  BY <1>2, <1>4, <1>5, <1>7, WithinMeans

LEMMA ContentOverMeans == Types /\ Means /\ ContentOver => Means'
<1> SUFFICES ASSUME Types, Means, ContentOver PROVE Means'
  OBVIOUS
<1>1. /\ call = "content" /\ (IF reader.chunked THEN reader.complete ELSE reader.length = 0) /\ call' = "handler"
      /\ UNCHANGED <<netVars, sockVars, buf, fill, pending, reader, keep, line, workVars>>
      /\ parts' = parts /\ result' \in {"end", "body"}
  BY DEF ContentOver, Ends
<1>2. /\ UNCHANGED <<client, gone, reader, keep, line, fill, first, served, misled>> /\ Served /\ Served' /\ From' = From
  BY <1>1, ContentOverType DEF netVars, sockVars, workVars, Served
<1>3. Left' = Left
  BY <1>1, <1>2, LeftSame
<1>4. GoneOK'
  BY <1>1, <1>2 DEF Means, GoneOK, NothingMore
<1>5. KeepOK' /\ LineSays' /\ ResultSays'
  BY <1>1, <1>2 DEF Means, KeepOK, LineSays, ResultSays
<1>6. Readable' => Readable
  BY <1>1, <1>2 DEF Readable
<1>7. ~misled => IsPrefix(parts', This.body) /\ (Readable' => Follows(This, parts', Left'))
  BY <1>1, <1>2, <1>3, <1>6 DEF Means, RequestOK
<1> QED
  BY <1>2, <1>4, <1>5, <1>7, WithinMeans

LEMMA EmptyLineSays == Types /\ line = <<>> => LineSays
<1> SUFFICES ASSUME Types, line = <<>>, NEW i \in LineEnds(client.wire, From) PROVE i >= From + Len(line) - 1
  BY DEF LineSays
<1>1. PICK p \in Nat : p = From
  BY PlaceWithin
<1>2. i \in p + 1..Len(client.wire) /\ Len(client.wire) \in Nat
  BY <1>1, WireType DEF LineEnds, Types, N
<1>3. i >= p + 0 - 1
  BY <1>2
<1> QED
  BY <1>1, <1>3

LEMMA EmptyLineSaysNext == Types' /\ (line = <<>>)' => LineSays'
BY EmptyLineSays, PTL

LEMMA ContentBeginsMeans == Types /\ Means /\ ContentBegins => Means'
<1> SUFFICES ASSUME Types, Means, ContentBegins PROVE Means'
  OBVIOUS
<1>1. /\ call = "content" /\ call' \in {"read", "size", "data"} /\ (reader.chunked => ~reader.complete)
      /\ UNCHANGED <<netVars, sockVars, buf, pending, reader, keep, all, result, parts, workVars>>
      /\ line' = <<>> /\ fill' = 0
  <2>1. reader.chunked \in BOOLEAN /\ reader.left \in Nat
    BY Facts
  <2>2. call' = CASE ~reader.chunked -> "read"
                  [] reader.chunked /\ reader.left = 0 -> "size"
                  [] reader.chunked /\ reader.left > 0 -> "data"
    BY DEF ContentBegins
  <2>3. reader.left = 0 \/ reader.left > 0
    BY <2>1
  <2> QED
    BY <2>1, <2>2, <2>3 DEF ContentBegins
<1>2. /\ UNCHANGED <<client, gone, reader, keep, result, parts, first, served, misled>> /\ Served /\ Served' /\ From' = From
  BY <1>1, ContentBeginsType DEF netVars, sockVars, workVars, Served, InChunks
<1>3. Left' = Left
  BY <1>1, <1>2, LeftSame
<1>4. GoneOK'
  BY <1>1, <1>2 DEF Means, GoneOK, NothingMore, Failed
<1>5. KeepOK' /\ ResultSays'
  BY <1>1, <1>2 DEF Means, KeepOK, ResultSays
<1>6. Readable' => Readable
  BY <1>1, <1>2 DEF Readable
<1>7. ~misled => IsPrefix(parts', This.body) /\ (Readable' => Follows(This, parts', Left'))
  BY <1>1, <1>2, <1>3, <1>6 DEF Means, RequestOK
<1>8. LineSays'
  BY <1>1, ContentBeginsType, EmptyLineSaysNext
<1> QED
  BY <1>2, <1>4, <1>5, <1>7, <1>8, WithinMeans

LEMMA ContentPayloadMeans == Types /\ Means /\ ContentPayload => Means'
<1> SUFFICES ASSUME Types, Means, ContentPayload PROVE Means'
  OBVIOUS
<1>1. /\ call = "content" /\ ~reader.chunked /\ reader.payload # 0 /\ Give(InBuf(reader.payload, reader.payload + reader.plen - 1))
      /\ reader' = [reader EXCEPT !.payload = 0, !.plen = 0, !.length = @ - reader.plen]
      /\ UNCHANGED <<netVars, sockVars, buf, fill, pending, keep, line, workVars>> /\ fill = 0 /\ line = <<>>
  BY DEF ContentPayload, Types, Modes
<1>2. PICK n \in Nat, m \in Nat, p \in Nat \ {0} :
         n = reader.plen /\ m = reader.length /\ p = From /\ n <= m /\ p + n <= N + 1 /\ N \in Nat /\ n > 0
  <2>1. reader.plen \in Nat /\ reader.length \in Nat /\ reader.plen <= reader.length /\ reader.plen # 0
    BY <1>1, Facts DEF Types, Modes
  <2>2. From \in Nat \ {0} /\ From + fill + Len(line) + reader.plen <= N + 1 /\ N \in Nat
    BY PlaceWithin, WireType DEF Types
  <2>3. From + 0 + 0 + reader.plen <= N + 1
    BY <1>1, <2>2
  <2> QED
    BY <2>1, <2>2, <2>3
<1>3. Types' /\ From' = p + n
  BY <1>1, <1>2, ContentPayloadType
<1>4. /\ UNCHANGED <<client, gone, first, served, misled>> /\ Served /\ Served' /\ call' \in {"handler", "content"} /\ ~gone
  <2>1. call' \in {"handler", "content"}
    BY <1>1 DEF Give, Ends
  <2>2. Served /\ Served'
    BY <1>1, <2>1 DEF Served
  <2> QED
    BY <1>1, <1>2, <2>1, <2>2 DEF netVars, sockVars, workVars, Means, GoneOK, NothingMore
<1>5. /\ reader'.chunked = FALSE /\ reader'.complete = reader.complete /\ reader'.length = m - n
  <2>1. reader \in ReaderType
    BY Facts
  <2>2. reader' = [reader EXCEPT !.payload = 0, !.plen = 0, !.length = m - n]
    BY <1>1, <1>2
  <2> QED
    BY <1>1, <2>1, <2>2 DEF ReaderType
<1>6. ~reader.complete /\ ~reader'.complete
  BY <1>1, <1>5 DEF Types, Modes
<1> DEFINE more == InBuf(reader.payload, reader.payload + reader.plen - 1)
<1>7. more = Places(p, p + n - 1) /\ more \in Seq(Nat)
  <2>1. more = Places(p, p + n - 1)
    BY <1>1, <1>2, BufBytes
  <2>2. Places(p, p + n - 1) \in Seq(Nat)
    BY <1>2, PlacesType
  <2> QED
    BY <2>1, <2>2
<1>8. Follows(Left, more, Left')
  <2>1. client.wire \in Seq(Bytes) /\ p + n <= Len(client.wire) + 1
    BY <1>2, WireType DEF Types, N
  <2>2. Follows(Announced(client.wire, p, m), Places(p, p + n - 1), Announced(client.wire, p + n, m - n))
    BY <1>2, <2>1, LengthGoesOn
  <2>3. Left = Announced(client.wire, p, m) /\ Left' = Announced(client.wire, p + n, m - n)
    BY <1>1, <1>2, <1>3, <1>4, <1>5 DEF Left, LeftAt
  <2> QED
    BY <1>7, <2>2, <2>3
<1> HIDE DEF more
<1>9. Give(more)
  BY <1>1 DEF more
<1> QED
  BY <1>1, <1>3, <1>4, <1>5, <1>6, <1>7, <1>8, <1>9, GiveMeans

LEMMA ReadBodyMeans == Types /\ Means /\ ReadBody => Means'
<1> SUFFICES ASSUME Types, Means, ReadBody PROVE Means'
  OBVIOUS
<1>1. PICK n \in Nat \ {0} :
           /\ n <= reader.length /\ n <= BufMax /\ got + n <= sent /\ got + n <= N /\ got' = got + n /\ ~gone /\ gone' = gone
           /\ Places(From, From + n - 1) \in Seq(1..N) /\ Give(Places(From, From + n - 1))
           /\ buf' = [i \in Slots |-> IF i < n THEN got + 1 + i ELSE buf[i]]
           /\ reader' = [reader EXCEPT !.length = reader.length - n] /\ reader.length - n \in Nat
  BY ReadBodyIs
<1>2. /\ call = "read" /\ ~reader.chunked /\ fill = 0 /\ line = <<>> /\ pending = <<>> /\ reader.plen = 0 /\ From = got + 1
      /\ UNCHANGED <<netVars, fill, pending, keep, line, workVars>>
  BY AtRead DEF ReadBody
<1>3. PICK m \in Nat, p \in Nat \ {0} : m = reader.length /\ p = From /\ n <= m /\ p + n <= N + 1
  <2>1. reader.length \in Nat /\ From \in Nat \ {0} /\ got \in Nat /\ N \in Nat
    BY Facts
  <2>2. From + n <= N + 1
    BY <1>1, <1>2, <2>1
  <2> QED
    BY <1>1, <2>1, <2>2
<1>4. PICK l \in Nat : l = m - n /\ reader' = [reader EXCEPT !.length = l]
  BY <1>1, <1>3
<1>5. reader'.chunked = FALSE /\ reader'.complete = reader.complete /\ reader'.length = l /\ reader'.plen = 0
  <2>1. reader \in ReaderType
    BY Facts
  <2> QED
    BY <1>2, <1>4, <2>1, LengthMade
<1>6. Types' /\ From' = p + n
  <2>1. Types'
    BY ReadBodyType
  <2>2. From' = got' + 1 - 0 - 0 - 0 - 0
    BY <1>2, <1>5 DEF From
  <2>3. PICK g \in Nat : g = got
    BY Facts
  <2>4. g + n + 1 - 0 - 0 - 0 - 0 = (g + 1) + n
    BY <2>3
  <2> QED
    BY <1>1, <1>2, <1>3, <2>1, <2>2, <2>3, <2>4
<1>7. /\ UNCHANGED <<client, first, served, misled>> /\ Served /\ Served' /\ call' \in {"handler", "content"} /\ ~gone'
  <2>1. call' \in {"handler", "content"}
    BY <1>1 DEF Give, Ends
  <2>2. Served /\ Served'
    BY <1>2, <2>1 DEF Served
  <2> QED
    BY <1>1, <1>2, <2>1, <2>2 DEF netVars, workVars
<1>8. ~reader.complete /\ ~reader'.complete
  BY <1>2, <1>5 DEF Types, Modes
<1>9. Places(From, From + n - 1) \in Seq(Nat) /\ Places(From, From + n - 1) = Places(p, p + n - 1)
  <2>1. Places(p, p + n - 1) \in Seq(Nat)
    BY <1>3, PlacesType
  <2> QED
    BY <1>3, <2>1
<1>10. Follows(Left, Places(From, From + n - 1), Left')
  <2>1. client.wire \in Seq(Bytes) /\ p + n <= Len(client.wire) + 1
    BY <1>3, WireType DEF Types, N
  <2>2. Follows(Announced(client.wire, p, m), Places(p, p + n - 1), Announced(client.wire, p + n, m - n))
    BY <1>3, <2>1, LengthGoesOn
  <2>3. Left = Announced(client.wire, p, m) /\ Left' = Announced(client.wire, p + n, m - n)
    BY <1>2, <1>3, <1>4, <1>5, <1>6, <1>7 DEF Left, LeftAt
  <2> QED
    BY <1>9, <2>2, <2>3
<1> DEFINE more == Places(From, From + n - 1)
<1>11. Give(more) /\ more \in Seq(Nat) /\ Follows(Left, more, Left')
  BY <1>1, <1>9, <1>10
<1> HIDE DEF more
<1> QED
  BY <1>1, <1>2, <1>5, <1>6, <1>7, <1>8, <1>11, GiveMeans

(* What Code returns, as the handler sees it. *)
LEMMA CodeIs ==
  ASSUME Types, NEW why, Nothing(why)
  PROVE  /\ Code(why) \in Codes \/ (Code(why) = "end" /\ gone' /\ ~client.tls)
         /\ Code(why) # "HEADER" /\ Code(why) # "LENGTH"
<1>1. why \in Whys /\ gone' = (why # "timeout")
  BY DEF Nothing, Whys
<1>2. client.tls \in BOOLEAN
  BY WireType DEF Types
<1>3. CASE why = "timeout"
  BY <1>3 DEF Code, Codes
<1>4. CASE why = "gone"
  BY <1>4 DEF Code, Codes
<1>5. CASE why \in {"closed", "reset"} /\ client.tls
  BY <1>5 DEF Code, Codes
<1>6. CASE why = "closed" /\ ~client.tls
  BY <1>1, <1>6 DEF Code, Codes
<1>7. CASE why = "reset" /\ ~client.tls
  BY <1>7 DEF Code, Codes
<1> QED
  BY <1>1, <1>2, <1>3, <1>4, <1>5, <1>6, <1>7 DEF Whys

LEMMA BodyCutMeans == ASSUME Types, Means, NEW why, BodyCut(why) PROVE Means'
<1>1. /\ call \in {"read", "size", "data", "newline"} /\ (call # "read" => reader.plen = 0) /\ Nothing(why) /\ Ends(Code(why))
      /\ fill' = 0 /\ line' = <<>> /\ UNCHANGED <<netVars, buf, pending, reader, keep, workVars>> /\ call' = "handler"
  BY DEF BodyCut, Ends
<1>2. /\ UNCHANGED <<client, first, served, misled, reader, keep>> /\ Served /\ Served' /\ got' = got
  BY <1>1, NothingIs DEF netVars, workVars, Served, InChunks
<1>3. /\ Code(why) \in Codes \/ (Code(why) = "end" /\ gone' /\ ~client.tls)
      /\ Code(why) # "HEADER" /\ Code(why) # "LENGTH"
  BY <1>1, CodeIs
<1>4. call = "read" => ~reader.chunked /\ reader.plen = 0 /\ reader.length > 0
  BY DEF Types, Modes
<1>5. call # "read" => reader.chunked /\ reader.plen = 0
  BY <1>1 DEF Types, Modes, InChunks
<1>6. GoneOK'
  <2>1. reader.chunked /\ client.tls => Failed'
    <3> SUFFICES ASSUME reader.chunked, client.tls PROVE Failed'
      OBVIOUS
    <3>1. Code(why) \in Codes
      BY <1>3
    <3>2. Code(why) # "end"
      BY <3>1 DEF Codes
    <3>3. result' = Code(why)
      BY <1>1, <3>2 DEF Ends
    <3> QED
      BY <3>1, <3>3 DEF Failed
  <2>2. NothingMore'
    BY <1>1, <1>2, <1>4, <1>5, <2>1 DEF NothingMore
  <2> QED
    BY <1>1, <2>2 DEF GoneOK
<1>7. ~reader.chunked => Left' = Left
  <2> SUFFICES ASSUME ~reader.chunked PROVE Left' = Left
    OBVIOUS
  <2>1. call = "read"
    BY <1>5
  <2>2. fill = 0 /\ line = <<>>
    BY <2>1, AtRead
  <2>3. From' = From
    BY <1>1, <1>2, <2>2 DEF From
  <2> QED
    BY <1>1, <1>2, <2>1, <2>3, LeftSame
<1> QED
  BY <1>1, <1>2, <1>3, <1>6, <1>7, EndsMeans

-----------------------------------------------------------------------------
(* The steps within chunks keep what is left of the body.                  *)

LEMMA WithinChunks ==
  ASSUME Types, Means, call \in InChunks
  PROVE  /\ Served /\ reader.chunked /\ ~reader.complete /\ ~Failed /\ call # "handler"
         /\ fill > 0 \/ line # <<>> \/ reader.plen > 0 => ~gone
         /\ ~gone /\ ~misled => Follows(This, parts, Left)
<1>1. Served /\ reader.chunked /\ ~reader.complete /\ call # "handler"
  BY DEF Types, Modes, Served, InChunks
<1>2. ~Failed
  BY <1>1 DEF Means, GoneOK
<1>3. fill > 0 \/ line # <<>> \/ reader.plen > 0 => ~gone
  <2>1. reader.plen \in Nat /\ fill \in Nat
    BY Facts
  <2>2. gone => fill = 0 /\ line = <<>> /\ reader.plen = 0
    BY <1>1 DEF Means, GoneOK, NothingMore
  <2> QED
    BY <2>1, <2>2
<1>4. ~gone => Readable
  BY <1>1 DEF Readable
<1> QED
  BY <1>1, <1>2, <1>3, <1>4 DEF Means, RequestOK

LEMMA ChunkStep ==
  ASSUME Types, Means, call \in InChunks, ~gone, ~gone', UNCHANGED <<client, first, served, misled, parts>>,
         (call' \in InChunks /\ result' = result) \/ (call' = "handler" /\ result' \in {"end", "body"} /\ reader'.complete),
         KeepOK', LineSays', Left' = Left, reader'.chunked
  PROVE  Means'
<1>1. Served /\ Served' /\ (~misled => Follows(This, parts, Left)) /\ ~Failed
  BY WithinChunks DEF Served
<1>2. GoneOK'
  BY <1>1, HereGoneOK DEF Failed
<1>3. ResultSays'
  BY DEF ResultSays, InChunks
<1>4. ~misled => IsPrefix(parts', This.body)
  BY <1>1 DEF Means, RequestOK
<1>5. ~misled => Follows(This, parts', Left')
  BY <1>1
<1> QED
  BY <1>1, <1>2, <1>3, <1>4, <1>5, WithinMeans

LEMMA TakeByteMeans == Types /\ Means /\ TakeByte => Means'
<1> SUFFICES ASSUME Types, Means, TakeByte PROVE Means'
  OBVIOUS
<1>1. call \in InChunks /\ call' = call /\ UNCHANGED <<netVars, buf, fill, pending, keep, call, all, result, parts, workVars>>
      /\ (call \in {"size", "trailer"} => ~LineDone)
  BY DEF TakeByte, InChunks
<1>2. PICK v \in Nat :
           /\ line' = Append(line, v) /\ v = From + fill + Len(line) /\ Len(line) + 1 < LineMax
           /\ Lay(N, buf, fill, line', reader', <<>>, got', From)
           /\ reader' \in ReaderType /\ reader'.chunked = reader.chunked /\ reader'.complete = reader.complete
           /\ reader'.left = reader.left /\ reader'.length = reader.length
           /\ got' \in Nat /\ got' <= sent /\ v <= sent /\ gone' = gone /\ (gone => reader.plen > 0)
  BY TakeByteIs
<1>3. ~gone /\ ~gone' /\ reader.chunked /\ ~reader.complete
  BY <1>1, <1>2, WithinChunks
<1>4. From' = From
  BY TakeByteType
<1>5. UNCHANGED <<client, first, served, misled, parts, result, keep, fill>> /\ client.wire' = client.wire
  BY <1>1 DEF netVars, workVars
<1>6. Left' = Left
  BY <1>1, <1>2, <1>4, <1>5 DEF Left, LeftAt
<1>7. LineSays'
  <2> SUFFICES ASSUME call \in {"size", "trailer"} PROVE \A i \in LineEnds(client.wire, From) : i >= From + Len(line') - 1
    BY <1>1, <1>4, <1>5 DEF LineSays
  <2>1. fill = 0
    BY <1>1, AtChunks
  <2>2. PICK p \in Nat \ {0}, n \in Nat : p = From /\ n = Len(line) /\ p + fill = p
    BY <2>1, Facts
  <2>3. client.wire \in Seq(Bytes)
    BY WireType DEF Types
  <2>4. ~(n >= 2 /\ client.wire[p + n - 2] = "CR" /\ client.wire[p + n - 1] = "LF")
    BY <1>1, <2>2, LineDoneIs
  <2>5. \A i \in LineEnds(client.wire, p) : i >= p + n - 1
    BY <2>2 DEF Means, LineSays
  <2>6. \A i \in LineEnds(client.wire, p) : i >= p + n
    BY <2>3, <2>4, <2>5, LineGoesOn
  <2>7. Len(line') = n + 1
    <3>1. line \in Seq(Nat)
      BY Facts
    <3>2. Len(Append(line, v)) = Len(line) + 1
      BY <3>1
    <3> QED
      BY <1>2, <2>2, <3>2
  <2>8. p + (n + 1) - 1 = p + n
    BY <2>2
  <2> QED
    BY <2>2, <2>6, <2>7, <2>8
<1>8. KeepOK'
  BY <1>2, <1>3 DEF KeepOK
<1> QED
  BY <1>1, <1>2, <1>3, <1>5, <1>6, <1>7, <1>8, ChunkStep

LEMMA DataMoreMeans == Types /\ Means /\ DataMore => Means'
<1> SUFFICES ASSUME Types, Means, DataMore PROVE Means'
  OBVIOUS
<1>1. UNCHANGED <<netVars, pending, keep, line, call, all, result, parts, workVars>> /\ call \in InChunks /\ call = "data"
  BY DEF DataMore, InChunks
<1>2. PICK n \in Nat \ {0} :
           /\ fill' = fill + n /\ fill + n <= Want /\ DOMAIN buf' = Slots
           /\ Lay(N, buf', fill', <<>>, reader', <<>>, got', From)
           /\ reader' \in ReaderType /\ reader'.chunked = reader.chunked /\ reader'.complete = reader.complete
           /\ reader'.left = reader.left /\ reader'.length = reader.length
           /\ got' \in Nat /\ got' <= sent /\ gone' = gone /\ (gone => reader.plen > 0)
  BY DataMoreIs
<1>3. ~gone /\ ~gone' /\ reader.chunked /\ ~reader.complete
  BY <1>1, <1>2, WithinChunks
<1>4. From' = From
  BY DataMoreType
<1>5. UNCHANGED <<client, first, served, misled, parts, result, keep>> /\ call' = call
  BY <1>1 DEF netVars, workVars
<1>6. Left' = Left
  BY <1>1, <1>2, <1>4, <1>5, LeftSame
<1>7. LineSays' /\ KeepOK'
  BY <1>1, <1>2, <1>3 DEF LineSays, KeepOK
<1> QED
  BY <1>1, <1>2, <1>3, <1>5, <1>6, <1>7, ChunkStep

LEMMA DataDoneMeans == Types /\ Means /\ DataDone => Means'
<1> SUFFICES ASSUME Types, Means, DataDone PROVE Means'
  OBVIOUS
<1>1. UNCHANGED <<netVars, sockVars, buf, pending, keep, workVars>> /\ call \in InChunks /\ call = "data" /\ fill = Want
      /\ line = <<>> /\ reader.left > 0 /\ reader.chunked /\ ~reader.complete
  BY AtChunks DEF DataDone, InChunks
<1>2. UNCHANGED <<client, gone, first, served, misled, keep>>
  BY <1>1 DEF netVars, sockVars, workVars
<1>3. PICK m \in Nat, n \in Nat, p \in Nat \ {0} : m = reader.left /\ n = fill /\ n = Want /\ p = From /\ n <= m /\ n > 0
  BY <1>1, Facts, WantIs
<1>4. ~gone /\ ~gone'
  BY <1>1, <1>2, <1>3, WithinChunks
<1>5. Types' /\ From' = (IF m = n THEN p ELSE p + n)
  BY <1>3, DataDoneType
<1>6. PICK l \in Nat : l = m - n /\ reader' = [reader EXCEPT !.left = l]
  <2>1. m - n \in Nat
    BY <1>3
  <2>2. reader' = [reader EXCEPT !.left = m - n]
    BY <1>3 DEF DataDone
  <2> QED
    BY <2>1, <2>2
<1>7. reader'.chunked /\ ~reader'.complete /\ reader'.left = l
  BY <1>1, <1>6, Facts, LeftMade
<1>8. Left = Data(client.wire, p, m)
  BY <1>1, <1>3 DEF Left, LeftAt
<1>9. CASE m = n
  <2>1. call' = "newline" /\ UNCHANGED <<fill, all, result, parts>>
    BY <1>3, <1>9 DEF DataDone
  <2>2. Left' = Left
    BY <1>2, <1>3, <1>5, <1>7, <1>8, <1>9, <2>1 DEF Left, LeftAt
  <2>3. LineSays' /\ KeepOK'
    BY <1>7, <2>1 DEF LineSays, KeepOK
  <2>4. call' \in InChunks
    BY <2>1 DEF InChunks
  <2> QED
    BY <1>1, <1>2, <1>4, <1>7, <2>1, <2>2, <2>3, <2>4, ChunkStep
<1>10. CASE m # n
  <2>1. Give(InBuf(0, fill - 1)) /\ fill' = 0
    BY <1>3, <1>10 DEF DataDone
  <2>2. call' \in {"handler", "content"}
    BY <2>1 DEF Give, Ends
  <2>3. Served /\ Served' /\ call # "handler"
    BY <1>1, <2>2, WithinChunks DEF Served
  <2> DEFINE more == InBuf(0, fill - 1)
  <2>4. more = Places(p, p + n - 1) /\ more \in Seq(Nat)
    <3>1. more = Places(p, p + n - 1)
      BY <1>3, BufBytes
    <3>2. Places(p, p + n - 1) \in Seq(Nat)
      BY PlacesType
    <3> QED
      BY <3>1, <3>2
  <2>5. l > 0 /\ n < m
    BY <1>3, <1>6, <1>10
  <2>6. Follows(Left, more, Left')
    <3>1. client.wire \in Seq(Bytes) /\ p + n <= Len(client.wire) + 1
      <4>1. From + fill + Len(line) + reader.plen <= N + 1 /\ Len(line) = 0 /\ reader.plen \in Nat /\ N \in Nat
        BY <1>1, PlaceWithin, Facts
      <4>2. p + n <= N + 1
        BY <1>3, <4>1
      <4> QED
        BY <4>2, WireType DEF Types, N
    <3>2. Follows(Data(client.wire, p, m), Places(p, p + n - 1), Data(client.wire, p + n, m - n))
      BY <1>3, <2>5, <3>1, DataGoesOn
    <3>3. Left' = Data(client.wire, p + n, m - n)
      BY <1>2, <1>5, <1>6, <1>7, <1>10, <2>2, <2>5 DEF Left, LeftAt
    <3> QED
      BY <1>8, <2>4, <3>2, <3>3
  <2> HIDE DEF more
  <2>7. Give(more)
    BY <2>1 DEF more
  <2> QED
    BY <1>1, <1>2, <1>4, <1>5, <1>7, <2>2, <2>3, <2>4, <2>6, <2>7, GiveMeans
<1> QED
  BY <1>9, <1>10

(* A whole line is the one that the client sent there. *)
LEMMA WholeLine ==
  ASSUME Types, Means, call \in {"size", "trailer"}, LineDone
  PROVE  \E p \in Nat \ {0}, n \in Nat, w \in Seq(Bytes) :
           /\ p = From /\ n = Len(line) /\ w = client.wire /\ n >= 2 /\ p + n - 1 <= Len(w) /\ p \in 1..Len(w) + 1
           /\ ~NoLine(w, p) /\ LineEnd(w, p) = p + n - 1 /\ (n = 2 <=> LineEnd(w, p) = p + 1)
           /\ fill = 0 /\ ~gone /\ reader.chunked /\ ~reader.complete /\ reader.left = 0
<1>1. call \in InChunks /\ fill = 0 /\ reader.chunked /\ ~reader.complete /\ reader.left = 0
  BY AtChunks DEF InChunks
<1>2. PICK p \in Nat \ {0}, n \in Nat, w \in Seq(Bytes) : p = From /\ n = Len(line) /\ w = client.wire /\ p + fill = p
  <2>1. From \in Nat \ {0} /\ Len(line) \in Nat
    BY Facts
  <2>2. client.wire \in Seq(Bytes)
    BY WireType DEF Types
  <2>3. From + fill = From
    BY <1>1, <2>1
  <2> QED
    BY <2>1, <2>2, <2>3
<1>3. n >= 2 /\ w[p + n - 2] = "CR" /\ w[p + n - 1] = "LF"
  BY <1>2, LineDoneIs
<1>4. p + n - 1 <= Len(w) /\ n < LineMax
  <2>1. From + fill + Len(line) - 1 <= N /\ Len(line) < LineMax
    BY LineIs, Facts
  <2> QED
    BY <1>2, <2>1 DEF N
<1>5. \A i \in LineEnds(w, p) : i >= p + n - 1
  BY <1>2 DEF Means, LineSays
<1>6. ~NoLine(w, p) /\ LineEnd(w, p) = p + n - 1
  BY <1>3, <1>4, <1>5, LineEndsAt
<1>7. p \in 1..Len(w) + 1 /\ (n = 2 <=> p + n - 1 = p + 1)
  BY <1>3, <1>4
<1>8. line # <<>>
  BY <1>2, <1>3
<1>9. ~gone
  BY <1>1, <1>8, WithinChunks
<1> QED
  BY <1>1, <1>2, <1>3, <1>4, <1>6, <1>7, <1>9

LEMMA TrailerLineMeans == Types /\ Means /\ TrailerLine => Means'
<1> SUFFICES ASSUME Types, Means, TrailerLine PROVE Means'
  OBVIOUS
<1>1. UNCHANGED <<netVars, sockVars, buf, fill, pending, reader, keep, call, all, result, parts, workVars>> /\ call \in InChunks
      /\ call = "trailer" /\ line' = <<>> /\ LineDone /\ Len(line) > 2
  BY DEF TrailerLine, InChunks
<1>2. UNCHANGED <<client, gone, first, served, misled, parts, keep, reader>>
  BY <1>1 DEF netVars, sockVars, workVars
<1>3. PICK p \in Nat \ {0}, n \in Nat, w \in Seq(Bytes) :
           /\ p = From /\ n = Len(line) /\ w = client.wire /\ n >= 2 /\ p + n - 1 <= Len(w) /\ p \in 1..Len(w) + 1
           /\ ~NoLine(w, p) /\ LineEnd(w, p) = p + n - 1 /\ (n = 2 <=> LineEnd(w, p) = p + 1)
           /\ fill = 0 /\ ~gone /\ reader.chunked /\ ~reader.complete /\ reader.left = 0
  BY <1>1, WholeLine
<1>4. Types' /\ From' = p + n
  BY <1>3, TrailerLineType
<1>5. Left = Chunks(w, p, "trailer") /\ Left' = Chunks(w, p + n, "trailer")
  BY <1>1, <1>2, <1>3, <1>4 DEF Left, LeftAt
<1>6. Chunks(w, p, "trailer") = Chunks(w, p + n, "trailer")
  <2>1. n # 2 /\ (p + n - 1) + 1 = p + n
    BY <1>1, <1>3
  <2>2. Chunks(w, p, "trailer") = ReadLine(w, ReadOf(w), p, "trailer")
    BY <1>3, ChunksIs DEF Steps
  <2>3. LineEnd(w, p) + 1 = p + n
    BY <1>3, <2>1
  <2> QED
    BY <1>3, <2>1, <2>2, <2>3 DEF ReadLine, Chunks
<1>7. KeepOK' /\ LineSays'
  BY <1>1, <1>2, <1>3, <1>4, EmptyLineSaysNext DEF KeepOK
<1> QED
  BY <1>1, <1>2, <1>3, <1>5, <1>6, <1>7, ChunkStep

LEMMA TrailerEndsMeans == Types /\ Means /\ TrailerEnds => Means'
<1> SUFFICES ASSUME Types, Means, TrailerEnds PROVE Means'
  OBVIOUS
<1>1. UNCHANGED <<netVars, sockVars, buf, fill, pending, workVars>> /\ call \in InChunks
      /\ call = "trailer" /\ line' = <<>> /\ LineDone /\ Len(line) = 2
      /\ call' = "handler" /\ result' \in {"end", "body"} /\ parts' = parts
      /\ reader' = [reader EXCEPT !.complete = TRUE] /\ keep' = (keep /\ reader.plen = 0)
  BY DEF TrailerEnds, ChunksEnd, Ends, InChunks
<1>2. UNCHANGED <<client, gone, first, served, misled, parts>>
  BY <1>1 DEF netVars, sockVars, workVars
<1>3. PICK p \in Nat \ {0}, n \in Nat, w \in Seq(Bytes) :
           /\ p = From /\ n = Len(line) /\ w = client.wire /\ n >= 2 /\ p + n - 1 <= Len(w) /\ p \in 1..Len(w) + 1
           /\ ~NoLine(w, p) /\ LineEnd(w, p) = p + n - 1 /\ (n = 2 <=> LineEnd(w, p) = p + 1)
           /\ fill = 0 /\ ~gone /\ reader.chunked /\ ~reader.complete /\ reader.left = 0
  BY <1>1, WholeLine
<1>4. From' = p + n
  BY <1>3, TrailerEndsType
<1>5. reader'.plen = reader.plen /\ reader'.chunked /\ reader'.complete
  BY <1>1, <1>3, Facts, CompleteMade
<1>6. Left = Chunks(w, p, "trailer") /\ Left' = Reading(<<>>, (p + n) - 1, "whole")
  BY <1>1, <1>2, <1>3, <1>4, <1>5 DEF Left, LeftAt
<1>7. Chunks(w, p, "trailer") = Reading(<<>>, (p + n) - 1, "whole")
  <2>1. n = 2 /\ (p + n) - 1 = p + n - 1
    BY <1>1, <1>3
  <2>2. Chunks(w, p, "trailer") = ReadLine(w, ReadOf(w), p, "trailer")
    BY <1>3, ChunksIs DEF Steps
  <2>3. LineEnd(w, p) = (p + n) - 1
    BY <1>3, <2>1
  <2> QED
    BY <1>3, <2>1, <2>2, <2>3 DEF ReadLine
<1>8. KeepOK' /\ LineSays'
  BY <1>1, <1>5 DEF KeepOK, LineSays
<1> QED
  BY <1>1, <1>2, <1>3, <1>5, <1>6, <1>7, <1>8, ChunkStep

LEMMA LineTooLongMeans == Types /\ Means /\ LineTooLong => Means'
<1> SUFFICES ASSUME Types, Means, LineTooLong PROVE Means'
  OBVIOUS
<1>1. UNCHANGED <<netVars, sockVars, buf, fill, pending, reader, keep, workVars>> /\ call \in InChunks /\ call \in {"size", "trailer"}
      /\ ~LineDone /\ Len(line) >= LineMax - 1 /\ Ends("LENGTH") /\ line' = <<>> /\ call' = "handler"
  BY DEF LineTooLong, InChunks, Ends
<1>2. UNCHANGED <<client, gone, first, served, misled, reader, keep>> /\ Served'
  BY <1>1 DEF netVars, sockVars, workVars, Served
<1>3. Served /\ reader.chunked /\ ~reader.complete /\ call # "handler" /\ reader.left = 0 /\ fill = 0
  BY <1>1, WithinChunks, AtChunks
<1>4. PICK p \in Nat \ {0}, n \in Nat, w \in Seq(Bytes) : p = From /\ n = Len(line) /\ w = client.wire /\ p + fill = p
  <2>1. From \in Nat \ {0} /\ Len(line) \in Nat
    BY Facts
  <2>2. client.wire \in Seq(Bytes)
    BY WireType DEF Types
  <2>3. From + fill = From
    BY <1>3, <2>1
  <2> QED
    BY <2>1, <2>2, <2>3
<1>5. n = LineMax - 1 /\ n >= 2 /\ p + n - 1 <= Len(w)
  <2>1. n >= LineMax - 1 /\ n < LineMax /\ LineMax \in Nat /\ LineMax >= 3
    BY <1>1, <1>4, Facts, Sizes
  <2>2. From + fill + Len(line) - 1 <= N
    BY LineIs
  <2> QED
    BY <1>4, <2>1, <2>2 DEF N
<1>6. NoLine(w, p) /\ Len(w) - p >= LineMax - 2
  <2>1. \A i \in LineEnds(w, p) : i >= p + n - 1
    BY <1>1, <1>4 DEF Means, LineSays
  <2>2. ~(n >= 2 /\ w[p + n - 2] = "CR" /\ w[p + n - 1] = "LF")
    BY <1>1, <1>4, LineDoneIs
  <2>3. \A i \in LineEnds(w, p) : i >= p + n
    BY <2>1, <2>2, LineGoesOn
  <2>4. p + n = p + LineMax - 1 /\ p + LineMax - 2 <= Len(w)
    BY <1>5, Sizes
  <2>5. \A i \in LineEnds(w, p) : i >= p + LineMax - 1
    BY <2>3, <2>4
  <2> QED
    BY <2>4, <2>5, LineIsLong
<1>7. Left = Chunks(w, p, call)
  BY <1>1, <1>3, <1>4 DEF Left, LeftAt
<1>8. Left.how = "long"
  <2>1. p \in 1..Len(w) + 1 /\ call \in Steps
    BY <1>1, <1>5 DEF Steps
  <2>2. Chunks(w, p, call) = ReadLine(w, ReadOf(w), p, call)
    BY <2>1, ChunksIs
  <2>3. Chunks(w, p, call) = Reading(<<>>, 0, "long")
    BY <1>6, <2>2 DEF ReadLine
  <2> QED
    BY <1>7, <2>3, ReadingIs
<1>9. ~gone /\ ~gone'
  <2>1. Len(line) # 0
    BY <1>4, <1>5
  <2>2. line # <<>>
    BY <2>1
  <2> QED
    BY <1>1, <1>2, <2>2, WithinChunks
<1>10. ~misled => This.how = "long"
  BY <1>1, <1>8, <1>9, WithinChunks DEF Follows
<1>11. GoneOK' /\ "LENGTH" \in Codes
  BY <1>1, <1>9, HereGoneOK DEF Codes
<1> QED
  BY <1>1, <1>2, <1>3, <1>10, <1>11, EndsMeans

(* The size that a whole line says is the one that it has in the body; it  *)
(* is what is taken for it, or the line misleads.                          *)
SizeSaid(m, size) ==
  /\ m \in Nat \cup {-1} /\ size \in Nat \cup {-1}
  /\ Misleads(size) <=> m # size \/ size >= Word
  /\ m # -1 => size = IF m < Long THEN m ELSE Long - 1

LEMMA SizeSays ==
  ASSUME Types, Means, call = "size", LineDone
  PROVE  \E p \in Nat \ {0}, n \in Nat, w \in Seq(Bytes) :
           /\ p = From /\ n = Len(line) /\ w = client.wire /\ p + n \in 1..Len(w) + 1 /\ ~NoLine(w, p)
           /\ LineEnd(w, p) + 1 = p + n /\ (n = 2 <=> LineEnd(w, p) = p + 1) /\ n >= 2
           /\ n > 2 => SizeSaid(SizeAt(w, p), ChunkSize(SizeText))
           /\ fill = 0 /\ ~gone /\ reader.chunked /\ ~reader.complete /\ reader.left = 0
           /\ Left = ReadLine(w, ReadOf(w), p, "size")
<1>1. PICK p \in Nat \ {0}, n \in Nat, w \in Seq(Bytes) :
           /\ p = From /\ n = Len(line) /\ w = client.wire /\ n >= 2 /\ p + n - 1 <= Len(w) /\ p \in 1..Len(w) + 1
           /\ ~NoLine(w, p) /\ LineEnd(w, p) = p + n - 1 /\ (n = 2 <=> LineEnd(w, p) = p + 1)
           /\ fill = 0 /\ ~gone /\ reader.chunked /\ ~reader.complete /\ reader.left = 0
  BY WholeLine
<1>2. (p + n - 1) + 1 = p + n /\ p + n \in 1..Len(w) + 1 /\ (p + n - 1) - 2 = p + n - 3
  BY <1>1
<1>3. n > 2 => SizeSaid(SizeAt(w, p), ChunkSize(SizeText))
  <2> SUFFICES ASSUME n > 2 PROVE SizeSaid(SizeAt(w, p), ChunkSize(SizeText))
    OBVIOUS
  <2>1. /\ LineSize \in Nat \cup {-1} /\ ChunkSize(SizeText) \in Nat \cup {-1}
        /\ SizeOf(LineBytes, 1, Len(line) - 2) = LineSize
        /\ LineSize # -1 => ChunkSize(SizeText) = IF LineSize < Long THEN LineSize ELSE Long - 1
    BY <1>1, ChunkSizeIs
  <2>2. From + fill = p /\ From + fill + Len(line) - 3 = p + n - 3
    BY <1>1
  <2>3. SizeAt(w, p) = SizeOf(w, p, p + n - 3)
    BY <1>1, <1>2 DEF SizeAt
  <2>4. LineSize = SizeAt(w, p)
    BY <1>1, <2>2, <2>3 DEF LineSize
  <2> QED
    BY <2>1, <2>4 DEF SizeSaid, Misleads
<1>4. Left = Chunks(w, p, "size")
  BY <1>1 DEF Left, LeftAt
<1>5. Chunks(w, p, "size") = ReadLine(w, ReadOf(w), p, "size")
  BY <1>1, ChunksIs DEF Steps
<1>6. LineEnd(w, p) + 1 = p + n
  BY <1>1, <1>2
<1> QED
  BY <1>1, <1>2, <1>3, <1>4, <1>5, <1>6

LEMMA SizeLineMeans == Types /\ Means /\ SizeLine => Means'
<1> SUFFICES ASSUME Types, Means, SizeLine PROVE Means'
  OBVIOUS
<1>1. UNCHANGED <<netVars, sockVars, buf, pending, keep, first, served, strayed>> /\ call \in InChunks /\ call = "size" /\ line' = <<>> /\ LineDone
  BY DEF SizeLine, InChunks
<1>2. UNCHANGED <<client, gone, first, served, keep>>
  BY <1>1 DEF netVars, sockVars
<1>3. PICK p \in Nat \ {0}, n \in Nat, w \in Seq(Bytes) :
           /\ p = From /\ n = Len(line) /\ w = client.wire /\ p + n \in 1..Len(w) + 1 /\ ~NoLine(w, p)
           /\ LineEnd(w, p) + 1 = p + n /\ (n = 2 <=> LineEnd(w, p) = p + 1) /\ n >= 2
           /\ n > 2 => SizeSaid(SizeAt(w, p), ChunkSize(SizeText))
           /\ fill = 0 /\ ~gone /\ reader.chunked /\ ~reader.complete /\ reader.left = 0
           /\ Left = ReadLine(w, ReadOf(w), p, "size")
  BY <1>1, SizeSays
<1>4. Types' /\ From' = p + n
  BY <1>3, SizeLineType
<1>5. Served /\ ~Failed /\ call # "handler" /\ ~gone' /\ (~misled => Follows(This, parts, Left) /\ Turn(client.wire, served))
  <2>1. Served /\ ~Failed /\ call # "handler" /\ (~misled => Follows(This, parts, Left))
    BY <1>1, <1>3, WithinChunks
  <2> QED
    BY <1>2, <1>3, <2>1 DEF Means, RequestOK
<1>6. ASSUME n = 2, Ends("end"), misled' = TRUE, UNCHANGED <<reader, fill>>
      PROVE  Means'
  <2>1. call' = "handler"
    BY <1>6 DEF Ends
  <2>2. Misleading
    <3>1. CASE misled
      BY <3>1 DEF Means, RequestOK
    <3>2. CASE ~misled
      <4>1. Left.how = "empty"
        <5>1. Left = Reading(<<>>, 0, "empty")
          BY <1>3, <1>6 DEF ReadLine
        <5> QED
          BY <5>1, ReadingIs
      <4>2. This.how = "empty"
        BY <1>5, <3>2, <4>1 DEF Follows
      <4>3. Requests(client.wire)[served].how = "empty"
        BY <4>2 DEF This, Asked
      <4> QED
        BY <1>3, <1>5, <3>2, <4>3, TurnIsLast DEF Asked, Misleading
    <3> QED
      BY <3>1, <3>2
  <2>3. Asked' = Asked
    BY <1>2 DEF Asked
  <2>4. GoneOK'
    BY <1>5, <2>1, HereGoneOK
  <2>5. KeepOK'
    BY <1>2, <1>3, <1>6 DEF KeepOK
  <2>6. LineSays' /\ ResultSays'
    BY <1>6, <2>1 DEF LineSays, ResultSays
  <2>7. RequestOK'
    BY <1>6, <2>2, <2>3 DEF RequestOK, Misleading
  <2> QED
    BY <2>4, <2>5, <2>6, <2>7 DEF Means
<1>7. PICK size : size = ChunkSize(SizeText)
  OBVIOUS
<1>8. n > 2 => SizeSaid(SizeAt(w, p), size)
  BY <1>3, <1>7
<1>9. Long \in Nat /\ Word \in Nat \ {0} /\ Word <= Long
  BY Widths
<1>10. ASSUME n > 2, size = -1, Ends("HEADER"), UNCHANGED <<reader, fill, misled>>
       PROVE  Means'
  <2>1. call' = "handler" /\ Served'
    BY <1>10 DEF Ends, Served
  <2>2. SizeAt(w, p) = -1
    BY <1>8, <1>9, <1>10 DEF SizeSaid
  <2>3. Left.how = "bad"
    <3>1. Left = Reading(<<>>, 0, "bad")
      BY <1>3, <1>10, <2>2 DEF ReadLine
    <3> QED
      BY <3>1, ReadingIs
  <2>4. ~misled => This.how = "bad"
    BY <1>5, <2>3 DEF Follows
  <2>5. GoneOK' /\ "HEADER" \in Codes
    BY <1>5, <2>1, HereGoneOK DEF Codes
  <2> QED
    BY <1>2, <1>3, <1>5, <1>10, <2>1, <2>4, <2>5, EndsMeans
<1>11. ASSUME n > 2, size # -1, misled' = (misled \/ Misleads(size)), ~Misleads(size),
              size = 0, call' = "trailer", UNCHANGED <<reader, fill, all, result, parts>>
       PROVE  Means'
  <2>1. SizeAt(w, p) = 0 /\ ~(SizeAt(w, p) >= Word) /\ SizeAt(w, p) # -1
    BY <1>8, <1>9, <1>11 DEF SizeSaid
  <2>2. Left = Chunks(w, p + n, "trailer")
    BY <1>3, <1>11, <2>1 DEF ReadLine, Chunks
  <2>3. Left' = Chunks(w, p + n, "trailer")
    BY <1>2, <1>3, <1>4, <1>11 DEF Left, LeftAt
  <2>4. KeepOK' /\ LineSays'
    BY <1>1, <1>3, <1>4, <1>11, EmptyLineSaysNext DEF KeepOK
  <2>5. call' \in InChunks
    BY <1>11 DEF InChunks
  <2>6. misled' = misled
    BY <1>11 DEF Types, Rest
  <2> QED
    BY <1>1, <1>2, <1>3, <1>5, <1>11, <2>2, <2>3, <2>4, <2>5, <2>6, ChunkStep
<1>12. ASSUME n > 2, size # -1, misled' = (misled \/ Misleads(size)), ~Misleads(size),
              size % Word > 0, call' = "data", fill' = 0, reader' = [reader EXCEPT !.left = size % Word],
              UNCHANGED <<all, result, parts>>
       PROVE  Means'
  <2>1. size \in Nat /\ size = SizeAt(w, p) /\ size < Word
    BY <1>8, <1>9, <1>12 DEF SizeSaid
  <2>2. PICK m \in Nat \ {0} : m = SizeAt(w, p) /\ m = size % Word /\ ~(m >= Word)
    <3>1. size % Word = size
      BY <1>9, <2>1
    <3> QED
      BY <1>9, <1>12, <2>1, <3>1
  <2>3. reader'.chunked /\ ~reader'.complete /\ reader'.left = m
    BY <1>3, <1>12, <2>2, Facts, LeftMade
  <2>4. Left = Data(w, p + n, m)
    <3>1. m # -1 /\ m # 0
      OBVIOUS
    <3> QED
      BY <1>3, <1>12, <2>2, <3>1 DEF ReadLine, Data
  <2>5. Left' = Data(w, p + n, m)
    BY <1>2, <1>3, <1>4, <1>12, <2>2, <2>3 DEF Left, LeftAt
  <2>6. KeepOK' /\ LineSays'
    BY <1>12, <2>3 DEF KeepOK, LineSays
  <2>7. call' \in InChunks
    BY <1>12 DEF InChunks
  <2>8. misled' = misled
    BY <1>12 DEF Types, Rest
  <2> QED
    BY <1>1, <1>2, <1>3, <1>5, <1>12, <2>3, <2>4, <2>5, <2>6, <2>7, <2>8, ChunkStep
<1>13. ASSUME n > 2, size # -1, misled' = (misled \/ Misleads(size)), size > 0, size % Word = 0, ~Misleads(size)
       PROVE  FALSE
  <2>1. size \in Nat /\ size < Word
    BY <1>8, <1>9, <1>13 DEF SizeSaid
  <2>2. size % Word = size
    BY <1>9, <2>1
  <2> QED
    BY <1>13, <2>1, <2>2
<1>14. ASSUME n > 2, size # -1, misled' = (misled \/ Misleads(size)), Misleads(size),
              \/ call' = "trailer" /\ UNCHANGED <<reader, fill, all, result, parts>>
              \/ Ends("end") /\ UNCHANGED <<reader, fill>>
              \/ /\ call' = "data" /\ fill' = 0 /\ reader' = [reader EXCEPT !.left = size % Word]
                 /\ UNCHANGED <<all, result, parts>>
       PROVE  Means'
  <2>1. Misleading
    <3>1. CASE misled
      BY <3>1 DEF Means, RequestOK
    <3>2. CASE ~misled
      <4>1. SizeAt(w, p) = -1 \/ (SizeAt(w, p) # -1 /\ SizeAt(w, p) >= Word)
        BY <1>8, <1>9, <1>14 DEF SizeSaid
      <4>2. Left = Reading(<<>>, 0, "bad") \/ Left = Reading(<<>>, 0, "wide")
        BY <1>3, <1>14, <4>1 DEF ReadLine
      <4>3. Left.how \in {"bad", "wide"}
        BY <4>2, ReadingIs
      <4>4. This.how \in {"bad", "wide"}
        BY <1>5, <3>2, <4>3 DEF Follows
      <4>5. Requests(client.wire)[served].how \in {"bad", "wide"}
        BY <4>4 DEF This, Asked
      <4> QED
        BY <1>3, <1>5, <3>2, <4>5, TurnIsLast DEF Asked, Misleading
    <3> QED
      BY <3>1, <3>2
  <2>2. Asked' = Asked
    BY <1>2 DEF Asked
  <2>3. misled' /\ call' \in {"trailer", "handler", "data"}
    BY <1>14 DEF Ends
  <2>4. GoneOK'
    <3>1. call' # "handler" => ~Failed'
      BY <1>5, <1>14 DEF Ends, Failed
    <3> QED
      BY <1>5, <3>1, HereGoneOK
  <2>5. reader'.complete = reader.complete
    <3>1. CASE UNCHANGED <<reader, fill>>
      BY <3>1
    <3>2. CASE reader' = [reader EXCEPT !.left = size % Word]
      <4>1. size % Word \in Nat
        BY <1>8, <1>9, <1>14 DEF SizeSaid
      <4>2. PICK m \in Nat : m = size % Word
        BY <4>1
      <4> QED
        BY <3>2, <4>2, Facts, LeftMade
    <3> QED
      BY <1>14, <3>1, <3>2
  <2>6. KeepOK'
    BY <1>3, <2>5 DEF KeepOK
  <2>7. LineSays'
    BY <1>1, <1>4, EmptyLineSaysNext
  <2>8. RequestOK' /\ ResultSays'
    BY <2>1, <2>2, <2>3 DEF RequestOK, ResultSays, Misleading
  <2> QED
    BY <2>4, <2>6, <2>7, <2>8 DEF Means
<1>15. n = Len(line)
  BY <1>3
<1>16. ASSUME n > 2, size # -1, misled' = (misled \/ Misleads(size)),
              \/ size = 0 /\ call' = "trailer" /\ UNCHANGED <<reader, fill, all, result, parts>>
              \/ size > 0 /\ size % Word = 0 /\ Ends("end") /\ UNCHANGED <<reader, fill>>
              \/ /\ size % Word > 0
                 /\ call' = "data" /\ fill' = 0 /\ reader' = [reader EXCEPT !.left = size % Word]
                 /\ UNCHANGED <<all, result, parts>>
       PROVE  Means'
  <2>1. CASE Misleads(size)
    BY <1>14, <1>16, <2>1
  <2>2. CASE ~Misleads(size)
    BY <1>11, <1>12, <1>13, <1>16, <2>2
  <2> QED
    BY <2>1, <2>2
<1> QED
  BY <1>6, <1>7, <1>10, <1>15, <1>16 DEF SizeLine

LEMMA TrailerCutMeans == ASSUME Types, Means, NEW why, TrailerCut(why) PROVE Means'
<1>1. /\ call = "trailer" /\ call \in InChunks /\ reader.plen = 0 /\ Nothing(why) /\ line' = <<>>
      /\ UNCHANGED <<netVars, buf, fill, pending, workVars>> /\ call' = "handler"
  BY DEF TrailerCut, ChunksEnd, Ends, InChunks
<1>2. UNCHANGED <<client, first, served, misled>> /\ Served /\ Served' /\ got' = got /\ fill = 0 /\ fill' = 0
      /\ reader.chunked /\ ~reader.complete /\ ~Failed
  BY <1>1, NothingIs, AtChunks, WithinChunks DEF netVars, workVars, Served
<1>3. /\ Code(why) \in Codes \/ (Code(why) = "end" /\ gone' /\ ~client.tls)
      /\ Code(why) # "HEADER" /\ Code(why) # "LENGTH"
  BY <1>1, CodeIs
<1>4. CASE Code(why) = "end"
  <2>1. ChunksEnd /\ gone' /\ ~client.tls
    <3>1. "end" \notin Codes
      BY DEF Codes
    <3> QED
      BY <1>3, <1>4, <3>1 DEF TrailerCut
  <2>2. reader' = [reader EXCEPT !.complete = TRUE] /\ parts' = parts /\ result' \in {"end", "body"}
    BY <2>1 DEF ChunksEnd, Ends
  <2>3. reader'.plen = 0 /\ reader'.chunked /\ reader'.complete
    BY <1>1, <1>2, <2>2, Facts, CompleteMade
  <2>4. GoneOK'
    <3>1. NothingMore'
      BY <1>1, <1>2, <2>1, <2>3 DEF NothingMore
    <3> QED
      BY <1>1, <3>1 DEF GoneOK
  <2>5. KeepOK' /\ LineSays'
    BY <1>1, <2>3 DEF KeepOK, LineSays
  <2>6. ResultSays'
    BY <1>2, <2>1, <2>2 DEF ResultSays
  <2>7. ~misled => IsPrefix(parts', This.body)
    BY <1>2, <2>2 DEF Means, RequestOK
  <2>8. ~Readable'
    BY <2>1, <2>3 DEF Readable
  <2> QED
    BY <1>2, <2>4, <2>5, <2>6, <2>7, <2>8, WithinMeans
<1>5. CASE Code(why) # "end"
  <2>1. Ends(Code(why)) /\ UNCHANGED <<reader, keep>> /\ Code(why) \in Codes
    BY <1>3, <1>5 DEF TrailerCut
  <2>2. result' = Code(why) /\ Failed'
    BY <1>2, <1>5, <2>1 DEF Ends, Failed
  <2>3. GoneOK'
    <3>1. NothingMore'
      BY <1>1, <1>2, <2>1, <2>2 DEF NothingMore
    <3> QED
      BY <1>1, <3>1 DEF GoneOK
  <2> QED
    BY <1>1, <1>2, <1>3, <2>1, <2>3, EndsMeans
<1> QED
  BY <1>4, <1>5

LEMMA NewlineMeans == Types /\ Means /\ Newline => Means'
<1> SUFFICES ASSUME Types, Means, Newline PROVE Means'
  OBVIOUS
<1>1. UNCHANGED <<netVars, sockVars, buf, pending, reader, keep, workVars>> /\ call \in InChunks /\ call = "newline" /\ fill' = 0 /\ line' = <<>>
      /\ Len(line) = 2
  BY DEF Newline, InChunks
<1>2. UNCHANGED <<client, gone, first, served, misled, reader, keep>>
  BY <1>1 DEF netVars, sockVars, workVars
<1>3. reader.chunked /\ ~reader.complete /\ reader.left = 0 /\ fill > 0 /\ Served /\ ~Failed /\ call # "handler" /\ ~gone /\ ~gone'
  <2>1. reader.chunked /\ ~reader.complete /\ reader.left = 0 /\ fill > 0
    BY <1>1, AtChunks
  <2> QED
    BY <1>1, <1>2, <2>1, WithinChunks
<1>4. PICK p \in Nat \ {0}, n \in Nat \ {0}, w \in Seq(Bytes) : p = From /\ n = fill /\ w = client.wire
  <2>1. From \in Nat \ {0} /\ fill \in Nat
    BY Facts
  <2>2. client.wire \in Seq(Bytes)
    BY WireType DEF Types
  <2> QED
    BY <1>3, <2>1, <2>2
<1>5. p + n + 1 <= Len(w) /\ (LineDone <=> w[p + n] = "CR" /\ w[p + n + 1] = "LF")
  <2>1. p + n + 2 - 1 = p + n + 1 /\ p + n + 2 - 2 = p + n
    BY <1>4
  <2>2. p + n + 2 - 1 <= Len(w)
    BY <1>1, <1>4, LineIs DEF N
  <2>3. LineDone <=> w[p + n + 2 - 2] = "CR" /\ w[p + n + 2 - 1] = "LF"
    BY <1>1, <1>4, LineDoneIs
  <2> QED
    BY <2>1, <2>2, <2>3
<1>6. Types' /\ From' = p + n + 2
  BY <1>1, <1>4, NewlineType
<1>7. Left = Data(w, p, n)
  BY <1>1, <1>3, <1>4 DEF Left, LeftAt
<1>8. CASE LineDone
  <2> DEFINE more == InBuf(0, fill - 1)
  <2>1. Give(more) /\ call' \in {"handler", "content"}
    BY <1>8 DEF Newline, Give, Ends
  <2>2. more = Places(p, p + n - 1) /\ more \in Seq(Nat)
    <3>1. more = Places(p, p + n - 1)
      BY <1>4, BufBytes
    <3>2. Places(p, p + n - 1) \in Seq(Nat)
      BY <1>4, PlacesType
    <3> QED
      BY <3>1, <3>2
  <2>3. Follows(Left, more, Left')
    <3>1. Follows(Data(w, p, n), Places(p, p + n - 1), Chunks(w, p + n + 2, "size"))
      BY <1>5, <1>8, DataEnds
    <3>2. Left' = Chunks(w, p + n + 2, "size")
      BY <1>2, <1>3, <1>4, <1>6, <2>1 DEF Left, LeftAt
    <3> QED
      BY <1>7, <2>2, <3>1, <3>2
  <2>4. Served'
    BY <2>1 DEF Served
  <2> HIDE DEF more
  <2> QED
    BY <1>1, <1>2, <1>3, <1>6, <2>1, <2>2, <2>3, <2>4, GiveMeans
<1>9. CASE ~LineDone
  <2>1. Ends("HEADER") /\ call' = "handler" /\ Served'
    BY <1>9 DEF Newline, Ends, Served
  <2>2. Left.how = "bad"
    <3>1. Data(w, p, n).how = "bad"
      BY <1>5, <1>9, DataEnds
    <3> QED
      BY <1>7, <3>1
  <2>3. ~misled => This.how = "bad"
    BY <1>1, <1>3, <2>2, WithinChunks DEF Follows
  <2>4. GoneOK' /\ "HEADER" \in Codes
    BY <1>3, <2>1, HereGoneOK DEF Codes
  <2> QED
    BY <1>2, <1>3, <2>1, <2>3, <2>4, EndsMeans
<1> QED
  BY <1>8, <1>9

-----------------------------------------------------------------------------
(* The steps between requests: the next one begins at From.                *)

LEMMA NetworkMeans == Means /\ Network => Means'
BY SameMeans DEF Network, Arrive, ArriveEnding, sockVars, bodyVars, workVars

(* The bytes of a head are in the buffer. *)
LEMMA BufPlaces ==
  ASSUME Types, call = "head"
  PROVE  From + fill = got + 1 /\ \A i \in Nat : i < fill => i \in Slots /\ buf[i] = From + i
<1>1. Lay(N, buf, fill, <<>>, NoReader, <<>>, got, From) /\ line = <<>> /\ reader = NoReader /\ pending = <<>>
  BY AtHead
<1>2. fill \in Nat /\ fill <= BufMax /\ From \in Nat \ {0} /\ got \in Nat /\ From + fill + Len(line) + reader.plen + Len(pending) = got + 1
  BY Facts
<1>3. From + fill = got + 1
  BY <1>1, <1>2, Drained
<1>4. ASSUME NEW i \in Nat, i < fill PROVE i \in Slots /\ buf[i] = From + i
  <2>1. i < BufMax
    BY <1>2, <1>4, Sizes
  <2>2. Region(buf, 0, fill, From)
    BY <1>1, <1>2, <1>4 DEF Lay, LayBytes
  <2>3. buf[0 + i] = From + i
    BY <1>2, <1>4, <2>2 DEF Region
  <2> QED
    BY <2>1, <2>3, Sizes
<1> QED
  BY <1>3, <1>4

LEMMA NoHeads ==
  ASSUME Types, call = "head", HeadEnds = {}
  PROVE  \A q \in From..got : Byte(q) \notin DOMAIN Heads
<1> SUFFICES ASSUME NEW q \in From..got PROVE Byte(q) \notin DOMAIN Heads
  OBVIOUS
<1>1. From \in Nat /\ fill \in Nat /\ got \in Nat /\ From + fill = got + 1
  BY Facts, BufPlaces
<1>2. PICK i \in Nat : i < fill /\ From + i = q
  <2>1. q - From \in Nat /\ q - From < fill /\ From + (q - From) = q
    BY <1>1
  <2> QED
    BY <2>1
<1>3. i \in Slots /\ buf[i] = q
  BY <1>2, BufPlaces
<1> QED
  BY <1>2, <1>3 DEF HeadEnds

LEMMA ReadRequestMeans == Types /\ Means /\ ReadRequest => Means'
<1> SUFFICES ASSUME Types, Means, ReadRequest PROVE Means'
  OBVIOUS
<1>1. call = "idle" /\ call' = "head" /\ UNCHANGED <<client, served, misled, reader, gone, got>> /\ From' = From
  BY ReadRequestType DEF ReadRequest, netVars, sockVars, bodyVars, workVars
<1>2. reader = NoReader
  BY <1>1 DEF Types, Modes
<1> QED
  BY <1>1, <1>2, BetweenMeans DEF Means, GoneOK

LEMMA HeadMoreMeans == Types /\ Means /\ HeadMore => Means'
<1> SUFFICES ASSUME Types, Means, HeadMore PROVE Means'
  OBVIOUS
<1>1. call = "head" /\ call' = "head" /\ UNCHANGED <<client, served, misled, reader>> /\ ~gone /\ gone' = gone /\ From' = From
  BY HeadMoreType DEF HeadMore, Receive, netVars, bodyVars, workVars
<1>2. reader = NoReader
  BY <1>1 DEF Types, Modes
<1> QED
  BY <1>1, <1>2, BetweenMeans

LEMMA HeadTimesOutMeans == ASSUME Types, Means, NEW why, HeadTimesOut(why) PROVE Means'
<1>1. call = "head" /\ call' = "idle" /\ UNCHANGED <<client, served, misled, reader>> /\ From' = From /\ HeadEnds = {} /\ Nothing(why)
  BY HeadTimesOutType DEF HeadTimesOut, netVars, bodyVars, workVars
<1>2. reader = NoReader
  BY <1>1 DEF Types, Modes
<1>3. got' = got /\ (gone => gone')
  BY <1>1 DEF Nothing
<1>4. \A q \in From..got' : Byte(q) \notin DOMAIN Heads
  BY <1>1, <1>3, NoHeads
<1> QED
  BY <1>1, <1>2, <1>3, <1>4, BetweenMeans

(* The head that the worker finds is the one that begins at From. *)
LEMMA HeadHere ==
  ASSUME Types, call = "head", HeadEnds # {}
  PROVE  /\ HeadEndsAt(client.wire, From) # {} /\ HeadEndAt(client.wire, From) = From + HeadEnd
         /\ Ended = client.wire[From + HeadEnd] /\ buf[0] = From /\ From + HeadEnd \in From..got
<1>1. PICK p \in Nat \ {0}, w \in Seq(Bytes), h \in Nat : p = From /\ w = client.wire /\ h = HeadEnd
  <2>1. From \in Nat \ {0} /\ HeadEnd \in Nat
    BY Facts, HeadEndHere
  <2>2. client.wire \in Seq(Bytes)
    BY WireType DEF Types
  <2> QED
    BY <2>1, <2>2
<1>2. h < fill /\ h \in Slots /\ Ended \in DOMAIN Heads /\ \A i \in HeadEnds : h <= i
  BY <1>1, HeadEndHere
<1>3. fill \in Nat /\ fill <= BufMax /\ got \in Nat /\ got <= Len(w) /\ p + fill = got + 1
  BY <1>1, Facts, BufPlaces DEF N
<1>4. \A i \in Nat : i < fill => i \in Slots /\ buf[i] = p + i
  BY <1>1, BufPlaces
<1>5. Ended = w[p + h] /\ buf[0] = p
  BY <1>1, <1>2, <1>3, <1>4 DEF Ended, Byte
<1>6. p + h \in HeadEndsAt(w, p)
  <2>1. p + h \in Nat /\ p <= p + h /\ p + h <= Len(w) /\ p + h < p + BufMax
    BY <1>2, <1>3, Sizes
  <2> QED
    BY <1>2, <1>5, <2>1, HeadEndIs
<1>7. HeadEndAt(w, p) \in HeadEndsAt(w, p) /\ HeadEndAt(w, p) \in Nat /\ HeadEndAt(w, p) <= p + h
  BY <1>6, HeadEndIs
<1>8. HeadEndAt(w, p) = p + h
  <2>1. PICK e \in Nat : e = HeadEndAt(w, p)
    BY <1>7
  <2>2. p <= e /\ e <= p + h /\ w[e] \in DOMAIN Heads
    BY <1>7, <2>1, HeadEndIs
  <2>3. PICK i \in Nat : p + i = e /\ i <= h
    <3>1. e - p \in Nat /\ p + (e - p) = e /\ e - p <= h
      BY <2>2
    <3> QED
      BY <3>1
  <2>4. i \in HeadEnds
    <3>1. i < fill
      BY <1>2, <1>3, <2>3
    <3>2. i \in Slots /\ buf[i] = e
      BY <1>4, <2>3, <3>1
    <3> QED
      BY <1>1, <2>2, <3>1, <3>2 DEF HeadEnds, Byte
  <2>5. h <= i
    BY <1>2, <2>4
  <2> QED
    BY <2>1, <2>3, <2>5
<1>9. p + h \in p..got
  BY <1>2, <1>3
<1> QED
  BY <1>1, <1>5, <1>6, <1>8, <1>9

(* A head that is not refused begins the next of the client's requests. *)
LEMMA RequestBegins ==
  ASSUME Types, Means, call = "head", HeadEnds # {}, Byte(buf[0]) = "G", Ended \notin {"EB", "EL"}, ~misled
  PROVE  IsRequest(client.wire, From) /\ Turn(client.wire, served + 1)
         /\ Requests(client.wire)[served + 1] = RequestAt(client.wire, From)
<1>1. /\ HeadEndsAt(client.wire, From) # {} /\ HeadEndAt(client.wire, From) = From + HeadEnd
      /\ Ended = client.wire[From + HeadEnd] /\ buf[0] = From /\ From + HeadEnd \in From..got
  BY HeadHere
<1>2. ~gone
  <2>1. Byte(From + HeadEnd) \in DOMAIN Heads
    BY <1>1, HeadEndHere DEF Byte
  <2> QED
    BY <1>1, <2>1 DEF Means, GoneOK
<1>3. PICK p \in Nat \ {0}, w \in Seq(Bytes) : p = From /\ w = client.wire /\ p <= Len(w) + 1
  <2>1. From \in Nat \ {0} /\ From <= N + 1
    BY Facts, PlaceWithin
  <2>2. client.wire \in Seq(Bytes)
    BY WireType DEF Types
  <2> QED
    BY <2>1, <2>2 DEF N
<1>4. IsRequest(w, p)
  BY <1>1, <1>3 DEF IsRequest, Byte
<1>5. NextIs(w, served, p) /\ p \in 1..Len(w) + 1 /\ served \in Nat
  BY <1>2, <1>3 DEF Means, RequestOK, Types, Rest
<1> QED
  BY <1>3, <1>4, <1>5, TurnBegins

LEMMA HeadDoneMeans == Types /\ Means /\ HeadDone => Means'
<1> SUFFICES ASSUME Types, Means, HeadDone PROVE Means'
  OBVIOUS
<1>1. /\ call = "head" /\ call' = "handler" /\ HeadEnds # {} /\ Byte(buf[0]) = "G" /\ Ended \notin {"EB", "EL", "EO"}
      /\ first' = buf[0] /\ served' = served + 1 /\ parts' = <<>> /\ result' = "none"
      /\ UNCHANGED <<client, gone, misled>>
  BY DEF HeadDone, Begins, netVars, sockVars
<1>2. /\ HeadEndsAt(client.wire, From) # {} /\ HeadEndAt(client.wire, From) = From + HeadEnd
      /\ Ended = client.wire[From + HeadEnd] /\ buf[0] = From /\ From + HeadEnd \in From..got
  BY <1>1, HeadHere
<1>3. ~gone /\ ~gone'
  <2>1. Byte(From + HeadEnd) \in DOMAIN Heads
    BY <1>1, <1>2, HeadEndHere DEF Byte
  <2> QED
    BY <1>1, <1>2, <2>1 DEF Means, GoneOK
<1>4. /\ reader'.chunked = (Ended = "EC") /\ reader'.complete = FALSE /\ reader'.left = 0 /\ reader'.length = Heads[Ended]
  BY HeadDoneIs
<1>5. From' = From + HeadEnd + 1
  BY HeadDoneType
<1>6. GoneOK'
  BY <1>1, <1>3, HereGoneOK
<1>7. KeepOK' /\ LineSays' /\ ResultSays'
  BY <1>1, <1>4 DEF KeepOK, LineSays, ResultSays
<1>8. Served' /\ call' \notin {"idle", "head"} /\ Asked' = Asked
  BY <1>1 DEF Served, Asked
<1>9. ASSUME ~misled
      PROVE  Turn(client.wire, served + 1) /\ This' = RequestAt(client.wire, From) /\ first' = This'.first
             /\ IsPrefix(<<>>, This'.body) /\ Follows(This', <<>>, Left')
  <2>1. PICK p \in Nat \ {0}, w \in Seq(Bytes), e \in Nat : p = From /\ w = client.wire /\ e = From + HeadEnd /\ p <= Len(w) + 1
    <3>1. From \in Nat \ {0} /\ HeadEnd \in Nat /\ From <= N + 1
      BY <1>1, Facts, HeadEndHere, PlaceWithin
    <3>2. client.wire \in Seq(Bytes)
      BY WireType DEF Types
    <3> QED
      BY <3>1, <3>2 DEF N
  <2>2. HeadEndsAt(w, p) # {} /\ HeadEndAt(w, p) = e /\ Ended = w[e] /\ From' = e + 1 /\ first' = p
    BY <1>1, <1>2, <1>5, <2>1
  <2>3. IsRequest(w, p) /\ Turn(w, served + 1) /\ Requests(w)[served + 1] = RequestAt(w, p)
    BY <1>1, <1>9, <2>1, RequestBegins
  <2>6. This' = RequestAt(w, p)
    BY <1>1, <2>1, <2>3 DEF This, Asked
  <2>7. /\ RequestAt(w, p).body \in Seq(Nat) /\ RequestAt(w, p).first = p
        /\ RequestAt(w, p).body = BodyAt(w, p).body /\ RequestAt(w, p).last = BodyAt(w, p).last
        /\ RequestAt(w, p).how = BodyAt(w, p).how
    BY <2>3, RequestAtGood DEF GoodBody
  <2>8. Left' = BodyAt(w, p)
    <3>1. Left' = LeftAt(w, e + 1, fill', reader', "handler")
      BY <1>1, <2>1, <2>2 DEF Left
    <3>2. CASE Ended = "EC"
      <4>1. Left' = Chunks(w, e + 1, "size")
        <5>1. reader'.chunked = TRUE /\ reader'.complete = FALSE /\ ~(reader'.left > 0)
          <6>1. (Ended = "EC") = TRUE
            BY <3>2
          <6>2. reader'.chunked = TRUE
            BY <1>4, <6>1, Zenon
          <6>3. reader'.complete = FALSE /\ ~(reader'.left > 0)
            BY <1>4
          <6> QED
            BY <6>2, <6>3
        <5>2. PICK r : r = reader'
          OBVIOUS
        <5>3. LeftAt(w, e + 1, fill', r, "handler") = Chunks(w, e + 1, "size")
          BY <5>1, <5>2 DEF LeftAt
        <5> QED
          BY <3>1, <5>2, <5>3
      <4>2. BodyAt(w, p) = ChunksFrom(w, e + 1)
        BY <2>2, <3>2 DEF BodyAt
      <4> QED
        BY <4>1, <4>2 DEF ChunksFrom, Chunks
    <3>3. CASE Ended # "EC"
      BY <1>1, <1>4, <2>2, <3>1, <3>3 DEF LeftAt, BodyAt
    <3> QED
      BY <3>2, <3>3
  <2>9. Follows(This', <<>>, Left')
    BY <2>6, <2>7, <2>8, FollowsItself
  <2>10. IsPrefix(<<>>, This'.body)
    BY <2>6, <2>7, PrefixOf
  <2> QED
    BY <2>1, <2>2, <2>3, <2>6, <2>7, <2>9, <2>10
<1>10. RequestOK'
  BY <1>1, <1>8, <1>9 DEF Means, RequestOK, Misleading
<1> QED
  BY <1>6, <1>7, <1>10 DEF Means

LEMMA HeadOddMeans == Types /\ Means /\ HeadOdd => Means'
<1> SUFFICES ASSUME Types, Means, HeadOdd PROVE Means'
  OBVIOUS
<1>1. /\ call = "head" /\ call' = "handler" /\ HeadEnds # {} /\ Byte(buf[0]) = "G" /\ Ended = "EO"
      /\ misled' = TRUE /\ UNCHANGED <<client, gone>>
  BY DEF HeadOdd, Begins, netVars, sockVars
<1>2. /\ HeadEndAt(client.wire, From) = From + HeadEnd
      /\ Ended = client.wire[From + HeadEnd] /\ From + HeadEnd \in From..got
  BY <1>1, HeadHere
<1>3. ~gone'
  <2>1. Byte(From + HeadEnd) \in DOMAIN Heads
    BY <1>1, <1>2, HeadEndHere DEF Byte
  <2> QED
    BY <1>1, <1>2, <2>1 DEF Means, GoneOK
<1>4. Misleading
  <2>1. CASE misled
    BY <2>1 DEF Means, RequestOK
  <2>2. CASE ~misled
    <3>1. PICK p \in Nat \ {0}, w \in Seq(Bytes) : p = From /\ w = client.wire
      <4>1. From \in Nat \ {0} /\ client.wire \in Seq(Bytes)
        BY Facts, WireType DEF Types
      <4> QED
        BY <4>1
    <3>2. IsRequest(w, p) /\ Turn(w, served + 1) /\ Requests(w)[served + 1] = RequestAt(w, p)
      BY <1>1, <2>2, <3>1, RequestBegins
    <3>3. BodyAt(w, p) = Reading(<<>>, 0, "odd")
      BY <1>1, <1>2, <3>1 DEF BodyAt
    <3>4. RequestAt(w, p).how = "odd"
      BY <3>2, <3>3, RequestAtGood, ReadingIs
    <3> QED
      BY <3>1, <3>2, <3>4, TurnIsLast DEF Misleading, Asked
  <2> QED
    BY <2>1, <2>2
<1>5. reader'.complete = FALSE
  <2>1. OffReader(reader', FALSE) \/ \E c \in BOOLEAN : OffReader(reader', c)
    BY OffReaderIs DEF HeadOdd
  <2> QED
    BY <2>1 DEF OffReader
<1>6. Asked' = Asked
  BY <1>1 DEF Asked
<1>7. GoneOK'
  BY <1>1, <1>3, HereGoneOK
<1>8. KeepOK' /\ LineSays' /\ ResultSays'
  BY <1>1, <1>5 DEF KeepOK, LineSays, ResultSays
<1>9. RequestOK'
  BY <1>1, <1>4, <1>6 DEF RequestOK, Misleading
<1> QED
  BY <1>7, <1>8, <1>9 DEF Means

LEMMA InitMeans == Init => Means
<1> SUFFICES ASSUME Init PROVE Means
  OBVIOUS
<1>1. call = "idle" /\ ~gone /\ ~misled /\ served = 0 /\ reader = NoReader /\ result = "none"
  BY DEF Init
<1>2. From = 1
  <2>1. Len(line) = 0 /\ Len(pending) = 0 /\ got = 0 /\ fill = 0 /\ reader.plen = 0
    BY <1>1, Drained DEF Init
  <2> QED
    BY <2>1 DEF From
<1>3. client.wire \in Seq(Bytes)
  BY ClientsAssumption DEF Init
<1>4. NextIs(client.wire, served, From)
  BY <1>1, <1>2, <1>3, FirstNext
<1>5. ~Served
  BY <1>1 DEF Served, InChunks
<1> QED
  BY <1>1, <1>4, <1>5, Drained DEF Means, GoneOK, KeepOK, LineSays, RequestOK, ResultSays

LEMMA NextConnectionMeans == Types /\ NextConnection => Means'
<1> SUFFICES ASSUME Types, NextConnection PROVE Means'
  OBVIOUS
<1>1. call' = "idle" /\ ~gone' /\ ~misled' /\ served' = 0 /\ reader' = NoReader
  BY DEF NextConnection, Types, Modes
<1>2. From' = 1
  <2>1. Len(line') = 0 /\ Len(pending') = 0 /\ got' = 0 /\ fill' = 0 /\ reader'.plen = 0
    BY <1>1, Drained DEF NextConnection, Types, Modes
  <2> QED
    BY <2>1 DEF From
<1>3. client'.wire \in Seq(Bytes)
  BY ClientsAssumption DEF NextConnection
<1>4. NextIs(client'.wire, served', From')
  BY <1>1, <1>2, <1>3, FirstNext
<1>5. ~Served'
  BY <1>1 DEF Served, InChunks
<1> QED
  BY <1>1, <1>4, <1>5, Drained DEF Means, GoneOK, KeepOK, LineSays, RequestOK, ResultSays

(* The connection is kept: what the worker has left is the next request.   *)
LEMMA KeptMeans ==
  ASSUME Types, Means, call = "handler", ~(reader.length > reader.plen), keep, reader.chunked => result \in {"end", "body"},
         UNCHANGED <<netVars, sockVars, keep, result, parts, first, served, misled>>, strayed' \in BOOLEAN,
         call' = "idle", buf' = NoBuffer, reader' = NoReader, UNCHANGED <<fill, pending, line, all>>
  PROVE  Means'
<1>1. UNCHANGED <<client, got, gone, served, misled>> /\ Served /\ ~Served' /\ Asked' = Asked
  BY DEF netVars, sockVars, Served, InChunks, Asked
<1>2. From' = From + reader.plen
  BY KeptType
<1>3. fill = 0 /\ line = <<>> /\ (reader.chunked => pending = <<>>) /\ (~reader.chunked => reader.plen <= reader.length)
  BY DEF Types, Modes
<1>4. PICK p \in Nat \ {0}, n \in Nat, w \in Seq(Bytes) :
           p = From /\ n = reader.plen /\ w = client.wire /\ (p + n) - 1 <= Len(w) /\ (~reader.chunked => n = reader.length)
  <2>1. From \in Nat \ {0} /\ reader.plen \in Nat /\ reader.length \in Nat /\ N \in Nat
    BY Facts
  <2>2. client.wire \in Seq(Bytes)
    BY WireType DEF Types
  <2>3. From + reader.plen <= N + 1
    <3>1. From + fill + Len(line) + reader.plen <= N + 1 /\ Len(line) = 0
      BY <1>3, PlaceWithin
    <3> QED
      BY <1>3, <2>1, <3>1
  <2>4. (From + reader.plen) - 1 <= Len(client.wire)
    BY <2>1, <2>3 DEF N
  <2>5. ~reader.chunked => reader.plen = reader.length
    BY <1>3, <2>1
  <2> QED
    BY <2>1, <2>2, <2>4, <2>5
<1>5. gone => \A q \in From'..got' : Byte(q)' \notin DOMAIN Heads
  <2> SUFFICES ASSUME gone, NEW q \in From'..got' PROVE FALSE
    OBVIOUS
  <2>1. NothingMore
    BY <1>1 DEF Means, GoneOK
  <2>2. n = 0 /\ reader.chunked
    <3>1. ~reader.chunked => reader.length > 0
      BY <2>1 DEF NothingMore
    <3>2. n = 0
      BY <1>4, <2>1 DEF NothingMore
    <3> QED
      BY <1>4, <3>1, <3>2
  <2>3. From + fill + Len(line) + reader.plen + Len(pending) = got + 1 /\ Len(line) = 0 /\ Len(pending) = 0 /\ got \in Nat
    BY <1>3, <2>2, Facts
  <2>4. p = got + 1
    BY <1>3, <1>4, <2>2, <2>3
  <2>5. From' = p /\ got' = got
    BY <1>1, <1>2, <1>4, <2>2
  <2> QED
    BY <2>3, <2>4, <2>5
<1>6. GoneOK'
  BY <1>1, <1>5 DEF GoneOK
<1>7. KeepOK' /\ LineSays' /\ ResultSays'
  BY Drained DEF KeepOK, LineSays, ResultSays
<1>8. ASSUME ~misled, ~gone PROVE NextIs(w, served, p + n)
  <2>1. ~(call = "handler" /\ Failed /\ reader.chunked)
    BY DEF Failed, Codes
  <2>2. Readable
    BY <1>8, <2>1 DEF Readable
  <2>3. Turn(w, served) /\ Follows(This, parts, Left)
    BY <1>1, <1>4, <1>8, <2>2 DEF Means, RequestOK
  <2>4. Left.how = "whole" /\ Left.last = (p + n) - 1
    <3>1. CASE ~reader.chunked
      <4>1. Left = Announced(w, p, n)
        BY <1>4, <3>1 DEF Left, LeftAt
      <4>2. Announced(w, p, n) = Reading(Places(p, (p + n) - 1), (p + n) - 1, "whole")
        <5>1. PICK K \in Nat : K = (p + n) - 1 /\ p + n - 1 = K
          BY <1>4
        <5>2. Len(w) \in Nat /\ K <= Len(w)
          BY <1>4, <5>1
        <5> QED
          BY <5>1, <5>2, AnnouncedIs
      <4> QED
        BY <4>1, <4>2, ReadingIs
    <3>2. CASE reader.chunked
      <4>1. reader.complete
        BY <1>8, <3>2 DEF Means, ResultSays
      <4>2. n = 0
        BY <1>4, <4>1 DEF Means, KeepOK
      <4>3. Left = Reading(<<>>, p - 1, "whole")
        BY <1>4, <3>2, <4>1 DEF Left, LeftAt
      <4>4. (p + n) - 1 = p - 1
        BY <1>4, <4>2
      <4> QED
        BY <4>3, <4>4, ReadingIs
    <3> QED
      BY <3>1, <3>2
  <2>5. Requests(w)[served].how = "whole" /\ Requests(w)[served].last = (p + n) - 1
    BY <1>4, <2>3, <2>4 DEF Follows, This, Asked
  <2>6. NextIs(w, served, (p + n) - 1 + 1)
    BY <2>3, <2>5, TurnEnds
  <2>7. (p + n) - 1 + 1 = p + n
    BY <1>4
  <2> QED
    BY <2>6, <2>7
<1>9. RequestOK'
  BY <1>1, <1>2, <1>4, <1>8 DEF Means, RequestOK, Misleading
<1> QED
  BY <1>6, <1>7, <1>9 DEF Means

LEMMA AnsweredMeans == Types /\ Means /\ Answered /\ ~strayed' => Means'
<1> SUFFICES ASSUME Types, Means, Answered, ~strayed' PROVE Means'
  OBVIOUS
<1>1. call = "handler" /\ (reader.chunked => result \in {"end", "body"}) /\ UNCHANGED <<netVars, sockVars, keep, result, parts, first, served, misled>>
  BY DEF Answered, Strays
<1>4. strayed' \in BOOLEAN
  BY StraysType DEF Answered
<1>2. CASE Close
  BY <1>1, <1>2, ClosedMeans DEF Close, netVars
<1>3. CASE ~(reader.length > reader.plen) /\ keep /\ call' = "idle" /\ buf' = NoBuffer /\ reader' = NoReader /\ UNCHANGED <<fill, pending, line, all>>
  BY <1>1, <1>3, <1>4, KeptMeans
<1> QED
  BY <1>2, <1>3 DEF Answered, FreeRequest

LEMMA ClosesMeans ==
  Means /\ (ReadRequestNoMemory \/ GiveUp \/ HandlerFails \/ HeadTooLong \/ HeadRefused \/ \E why \in Whys : HeadCut(why)) => Means'
<1> SUFFICES ASSUME Means, ReadRequestNoMemory \/ GiveUp \/ HandlerFails \/ HeadTooLong \/ HeadRefused \/ \E why \in Whys : HeadCut(why)
             PROVE  Means'
  OBVIOUS
<1>1. Close /\ UNCHANGED <<client, misled>>
  BY DEF ReadRequestNoMemory, GiveUp, HandlerFails, HeadTooLong, HeadRefused, HeadCut, netVars, workVars
<1> QED
  BY <1>1, ClosedMeans DEF Close

-----------------------------------------------------------------------------
(* All steps together.                                                     *)

LEMMA MeansStep == Types /\ Means /\ [Next]_vars /\ ~strayed' => Means'
<1> SUFFICES ASSUME Types, Means, [Next]_vars, ~strayed' PROVE Means'
  OBVIOUS
<1>1. CASE Network
  BY <1>1, NetworkMeans
<1>2. CASE Worker
  BY <1>2, ReadRequestMeans, ClosesMeans, NextConnectionMeans, ReadContentMeans, ReadAllContentMeans, AnsweredMeans DEF Worker
<1>3. CASE Reader
  <2>1. CASE \/ HeadTooLong \/ HeadMore \/ HeadDone \/ HeadOdd \/ HeadForgets \/ HeadRefused
             \/ ContentOver \/ ContentPayload \/ ContentBegins \/ ReadBody
    BY <2>1, ClosesMeans, HeadMoreMeans, HeadDoneMeans, HeadOddMeans, ContentOverMeans, ContentPayloadMeans, ContentBeginsMeans, ReadBodyMeans
       DEF HeadForgets, Strays
  <2>2. CASE \/ TakeByte \/ LineTooLong \/ SizeLine \/ TrailerLine \/ TrailerEnds
             \/ DataMore \/ DataDone \/ Newline
    BY <2>2, TakeByteMeans, LineTooLongMeans, SizeLineMeans, TrailerLineMeans, TrailerEndsMeans, DataMoreMeans, DataDoneMeans, NewlineMeans
  <2>3. CASE \E why \in Whys : HeadTimesOut(why) \/ HeadCut(why) \/ BodyCut(why) \/ TrailerCut(why)
    BY <2>3, HeadTimesOutMeans, ClosesMeans, BodyCutMeans, TrailerCutMeans
  <2> QED
    BY <1>3, <2>1, <2>2, <2>3 DEF Reader
<1>4. CASE UNCHANGED vars
  <2>1. UNCHANGED <<client, sockVars, fill, pending, reader, keep, line, call, result, parts, workVars>>
    BY <1>4 DEF vars, netVars, bodyVars
  <2> QED
    BY <2>1, SameMeans
<1> QED
  BY <1>1, <1>2, <1>3, <1>4 DEF Next

(* Once a handler has strayed, the connection has to end first. *)
LEMMA StrayedStep == Types /\ strayed /\ [Next]_vars /\ ~strayed' => Means'
<1> SUFFICES ASSUME Types, strayed, [Next]_vars, ~strayed' PROVE Means'
  OBVIOUS
<1>1. CASE NextConnection
  BY <1>1, NextConnectionMeans
<1>2. CASE ReadContent \/ Answered
  BY <1>2 DEF ReadContent, Answered, Strays
<1>3. CASE Network \/ UNCHANGED vars
  BY <1>3 DEF Network, Arrive, ArriveEnding, vars, workVars
<1>4. CASE ReadRequest \/ ReadRequestNoMemory \/ GiveUp \/ ReadAllContent \/ HandlerFails
  BY <1>4 DEF ReadRequest, ReadRequestNoMemory, GiveUp, ReadAllContent, HandlerFails, workVars
<1>5. CASE Reader
  <2>1. CASE \/ HeadTooLong \/ HeadMore \/ HeadDone \/ HeadOdd \/ HeadForgets \/ HeadRefused
             \/ ContentOver \/ ContentPayload \/ ContentBegins \/ ReadBody
    BY <2>1 DEF HeadTooLong, HeadMore, HeadDone, HeadOdd, HeadForgets, Strays, HeadRefused, ContentOver, ContentPayload, ContentBegins, ReadBody, workVars
  <2>2. CASE \/ TakeByte \/ LineTooLong \/ SizeLine \/ TrailerLine \/ TrailerEnds
             \/ DataMore \/ DataDone \/ Newline
    BY <2>2 DEF TakeByte, LineTooLong, SizeLine, TrailerLine, TrailerEnds, DataMore, DataDone, Newline, workVars
  <2>3. CASE \E why \in Whys : HeadTimesOut(why) \/ HeadCut(why) \/ BodyCut(why) \/ TrailerCut(why)
    BY <2>3 DEF HeadTimesOut, HeadCut, BodyCut, TrailerCut, workVars
  <2> QED
    BY <1>5, <2>1, <2>2, <2>3 DEF Reader
<1> QED
  BY <1>1, <1>2, <1>3, <1>4, <1>5 DEF Next, Worker

LEMMA MeansAlways == Spec => [](Types /\ (strayed \/ Means))
<1>1. Types /\ (strayed \/ Means) /\ [Next]_vars => (Types /\ (strayed \/ Means))'
  BY TypesStep, MeansStep, StrayedStep
<1>2. Init => Types /\ (strayed \/ Means)
  BY InitType, InitMeans
<1> QED
  BY <1>1, <1>2, PTL DEF Spec

-----------------------------------------------------------------------------
(* What it means for the worker and its handlers.                          *)

(* Of a request that the worker has, and of the client's requests, it is    *)
(* the one that is next; what the handler was given is its body up to some  *)
(* place.                                                                   *)
LEMMA MeansServes == Means => ServesWhatIsAsked
<1>1. AtRequest => Served
  BY DEF AtRequest, Turns, Served, InChunks
<1> QED
  BY <1>1 DEF Means, RequestOK, Misleading, Turn, This, Asked, ServesWhatIsAsked

LEMMA MeansLost == Types /\ Means => NothingLost
<1> SUFFICES ASSUME Types, Means, call = "idle", ~gone, ~misled
             PROVE  \/ served = 0 /\ pending = Places(1, got)
                    \/ served > 0 /\ Asked[served].how = "whole" /\ pending = Places(Asked[served].last + 1, got)
  BY DEF NothingLost
<1>1. PICK p \in Nat \ {0} : p = From
  BY Facts
<1>2. pending = Places(p, got)
  <2>1. fill = 0 /\ line = <<>> /\ reader.plen = 0
    BY Drained DEF Types, Modes
  <2>2. PICK n \in Nat : n = Len(pending) /\ p + n = got + 1 /\ p + fill + Len(line) + reader.plen = p
    <3>1. p + fill + Len(line) + reader.plen + Len(pending) = got + 1 /\ Len(line) = 0 /\ Len(pending) \in Nat
      BY <1>1, <2>1, Facts
    <3> QED
      BY <2>1, <3>1
  <2>3. Run(pending, p)
    <3>1. Run(pending, p + fill + Len(line) + reader.plen)
      BY <1>1 DEF Types, Layout, Lay, LayBytes
    <3> QED
      BY <2>2, <3>1
  <2>4. pending \in Seq(Nat) /\ got \in Nat
    BY Facts
  <2>5. pending = Places(p, p + n - 1)
    BY <2>2, <2>3, <2>4, RunIs
  <2>6. p + n - 1 = got
    BY <2>2, <2>4
  <2> QED
    BY <2>5, <2>6
<1>3. NextIs(client.wire, served, p) /\ served \in Nat
  BY <1>1 DEF Means, RequestOK, Types, Rest
<1>4. CASE served = 0
  BY <1>2, <1>3, <1>4 DEF NextIs
<1>5. CASE served # 0
  <2>1. Asked[served].how = "whole" /\ p = Asked[served].last + 1
    BY <1>3, <1>5 DEF NextIs, Asked
  <2> QED
    BY <1>2, <1>3, <1>5, <2>1
<1> QED
  BY <1>4, <1>5

LEMMA MeansEnd == Types /\ Means => EndIsBodys
<1> SUFFICES ASSUME Types, Means, call = "handler", ~misled
             PROVE  /\ (~gone \/ client.tls) /\ (result = "end" \/ (result = "body" /\ reader.chunked))
                         => Asked[served].how = "whole" /\ parts = Asked[served].body
                    /\ result = "HEADER" => Asked[served].how = "bad"
                    /\ result = "LENGTH" =>
                         Asked[served].how = "long" \/ reader.length > ContentMax \/ Len(Asked[served].body) > ContentMax
  BY DEF EndIsBodys
<1>1. Served /\ fill = 0 /\ line = <<>>
  BY DEF Served, Types, Modes
<1>2. ASSUME ~gone \/ client.tls, result = "end" \/ (result = "body" /\ reader.chunked)
      PROVE  Asked[served].how = "whole" /\ parts = Asked[served].body
  <2>1. ~Failed
    BY <1>2 DEF Failed, Codes
  <2>2. IF reader.chunked THEN reader.complete ELSE reader.length = 0
    BY <1>2 DEF Means, ResultSays
  <2>3. ~gone
    <3> SUFFICES ASSUME gone PROVE FALSE
      OBVIOUS
    <3>1. NothingMore
      BY <1>1 DEF Means, GoneOK
    <3>2. reader.chunked
      BY <2>2, <3>1 DEF NothingMore
    <3> QED
      BY <1>2, <2>1, <3>1, <3>2 DEF NothingMore
  <2>4. Follows(This, parts, Left)
    BY <1>1, <2>1, <2>3 DEF Means, RequestOK, Readable
  <2>5. Left.how = "whole" /\ Left.body = <<>>
    <3>1. CASE reader.chunked
      <4>1. Left = Reading(<<>>, From - 1, "whole")
        BY <2>2, <3>1 DEF Left, LeftAt
      <4> QED
        BY <4>1, ReadingIs
    <3>2. CASE ~reader.chunked
      <4>1. PICK p \in Nat, K \in Nat : p = From /\ p + 0 - 1 = K /\ K <= Len(client.wire) /\ Len(client.wire) \in Nat /\ K < p
        <5>1. From \in Nat \ {0} /\ From <= N + 1 /\ N \in Nat
          BY PlaceWithin, Facts
        <5>2. From - 1 \in Nat /\ From + 0 - 1 = From - 1 /\ From - 1 <= N /\ From - 1 < From
          BY <5>1
        <5> QED
          BY <5>1, <5>2 DEF N
      <4>2. Left = Announced(client.wire, p, 0)
        BY <2>2, <3>2, <4>1 DEF Left, LeftAt
      <4>3. Left = Reading(Places(p, K), K, "whole")
        BY <4>1, <4>2, AnnouncedIs
      <4>4. Places(p, K) = <<>>
        <5>1. Places(p, p + 0 - 1) \in Seq(Nat) /\ Len(Places(p, p + 0 - 1)) = 0
          BY PlacesType
        <5> QED
          BY <4>1, <5>1
      <4> QED
        BY <4>3, <4>4, ReadingIs
    <3> QED
      BY <3>1, <3>2
  <2>6. This.how = "whole" /\ This.body = parts \o <<>>
    BY <2>4, <2>5 DEF Follows
  <2>7. parts \o <<>> = parts
    BY PartsType, PrefixOf
  <2> QED
    BY <2>6, <2>7 DEF This
<1>3. result = "HEADER" => Asked[served].how = "bad"
  BY DEF Means, ResultSays, This
<1>4. result = "LENGTH" => Asked[served].how = "long" \/ reader.length > ContentMax \/ Len(Asked[served].body) > ContentMax
  BY DEF Means, ResultSays, This
<1> QED
  BY <1>2, <1>3, <1>4

(* The requests that the worker serves are the client's, in their order,   *)
(* and what a handler is given is its own request's body up to some place, *)
(* until a handler strays or an empty line is taken for the end of chunks, *)
(* which happens only in a body that has one.                              *)
THEOREM ServesCorrect == Spec => []ServesWhatIsAsked
<1>1. strayed \/ Means => ServesWhatIsAsked
  BY MeansServes DEF ServesWhatIsAsked
<1> QED
  BY <1>1, MeansAlways, PTL

(* On a kept connection no byte behind a request is lost: those that were  *)
(* taken from the socket are kept for the next one, in their order.        *)
THEOREM NothingLostCorrect == Spec => []NothingLost
<1>1. Types /\ (strayed \/ Means) => NothingLost
  BY MeansLost DEF NothingLost
<1> QED
  BY <1>1, MeansAlways, PTL

(* The end of a body is reported to a handler only when it was given all   *)
(* of it; a body is called malformed or too long only when it is.          *)
THEOREM EndCorrect == Spec => []EndIsBodys
<1>1. Types /\ (strayed \/ Means) => EndIsBodys
  BY MeansEnd DEF EndIsBodys
<1> QED
  BY <1>1, MeansAlways, PTL

=============================================================================
