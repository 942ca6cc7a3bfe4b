--------------------------- MODULE HttpClientProofs ---------------------------
(***************************************************************************)
(* The response reader of the HTTP client for any replies, any limits and  *)
(* any way in which the bytes arrive.                                      *)
(*                                                                         *)
(* Types says what each place in the code leaves in the variables: unread  *)
(* bytes are the last that were taken, in their order (Holds).  Means says *)
(* what they mean: however the reply goes on from the bytes that were      *)
(* taken (Seen), its body is what the caller has followed by what the      *)
(* reader's state says of the rest (LeftAt), and the verdict is that of    *)
(* the rest.  The properties of the specification follow from the two.     *)
(***************************************************************************)
EXTENDS HttpClient, WellFoundedInduction, TLAPS

-----------------------------------------------------------------------------
(* Induction, from the well-founded order of the naturals.                 *)

LEMMA NatMin ==
  ASSUME NEW T \in SUBSET Nat, T # {}
  PROVE  \E x \in T : \A y \in T : x <= y
<1> DEFINE R == OpToRel(<, Nat)
<1>1. IsWellFoundedOn(R, Nat)
  BY NatLessThanWellFounded
<1>2. \A x, y \in Nat : x < y => <<x, y>> \in R
  BY DEF OpToRel
<1> HIDE DEF R
<1>3. PICK x \in T : \A y \in T : ~ (<<y, x>> \in R)
  BY <1>1, WFMin
<1>4. ASSUME NEW y \in T PROVE x <= y
  <2>1. x \in Nat /\ y \in Nat /\ ~(y < x)
    BY <1>2, <1>3
  <2> QED
    BY <2>1
<1> QED
  BY <1>4

LEMMA NatInd ==
  ASSUME NEW T, 0 \in T, \A n \in Nat : n \in T => n + 1 \in T
  PROVE  Nat \subseteq T
<1> SUFFICES ASSUME Nat \ T # {} PROVE FALSE
  OBVIOUS
<1>1. PICK x \in Nat \ T : \A y \in Nat \ T : x <= y
  BY NatMin
<1>2. x # 0 /\ x - 1 \in Nat
  BY <1>1
<1>3. x - 1 \in T
  BY <1>1, <1>2
<1> QED BY <1>1, <1>2, <1>3

LEMMA MaxOf ==
  ASSUME NEW k \in Nat \ {0}, NEW s \in SUBSET (1..k), k \in s
  PROVE  Max(s) = k
<1>1. \A y \in s : y <= k /\ y \in Nat
  OBVIOUS
<1>2. \A x \in s : (\A y \in s : x >= y) => x = k
  BY <1>1
<1> QED
  BY <1>1, <1>2 DEF Max

LEMMA MinOf ==
  ASSUME NEW s \in SUBSET Nat, s # {}
  PROVE  Min(s) \in s /\ \A y \in s : Min(s) <= y
<1>1. \E x \in s : \A y \in s : x <= y
  BY NatMin
<1> QED
  BY <1>1 DEF Min

-----------------------------------------------------------------------------
(* The number that some digits write, as the code adds them up and as the  *)
(* description of a reply says.                                            *)

Digits == DOMAIN Digit
Adds(v, d) == v[0] = 0 /\ \A k \in 1..Len(d) : v[k] = 16 * v[k - 1] + Digit[d[k]]

LEMMA DigitType == ASSUME NEW b \in Digits PROVE Digit[b] \in Nat
BY DEF Digits, Digit

LEMMA AddsOnce ==
  ASSUME NEW d \in Seq(Digits), NEW v \in [0..Len(d) -> Int], NEW u \in [0..Len(d) -> Int], Adds(v, d), Adds(u, d)
  PROVE  v[Len(d)] = u[Len(d)] /\ v[Len(d)] \in Nat
<1> DEFINE n == Len(d)
           T == {k \in Nat : k <= n => u[k] = v[k] /\ v[k] \in Nat}
<1>0. n \in Nat
  OBVIOUS
<1>1. 0 \in T
  BY DEF Adds
<1>2. ASSUME NEW k \in Nat, k \in T PROVE k + 1 \in T
  <2> SUFFICES ASSUME k + 1 <= n PROVE u[k + 1] = v[k + 1] /\ v[k + 1] \in Nat
    OBVIOUS
  <2>1. k + 1 \in 1..n /\ u[k] = v[k] /\ v[k] \in Nat /\ (k + 1) - 1 = k
    BY <1>0, <1>2
  <2>2. Digit[d[k + 1]] \in Nat
    BY <2>1, DigitType
  <2> HIDE DEF n
  <2>3. v[k + 1] = 16 * v[k] + Digit[d[k + 1]] /\ u[k + 1] = 16 * u[k] + Digit[d[k + 1]]
    BY <2>1 DEF Adds, n
  <2> QED
    BY <2>1, <2>2, <2>3
<1> HIDE DEF T
<1>3. n \in T
  BY <1>0, <1>1, <1>2, NatInd
<1> QED
  BY <1>3 DEF T

LEMMA HexAdds ==
  ASSUME NEW d \in Seq(Digits)
  PROVE  \E v \in [0..Len(d) -> Int] : Adds(v, d) /\ Hex(d) = v[Len(d)]
<1> DEFINE n == Len(d)
           Sum(g, k) == IF k = 0 THEN 0 ELSE 16 * g[k - 1] + Digit[d[k]]
           value == CHOOSE value : value = [k \in 0..n |-> Sum(value, k)]
           Sums(g, m) == g \in [0..m -> Int] /\ \A k \in 0..m : g[k] = Sum(g, k)
<1> HIDE DEF value, Sums
<1>1. n \in Nat /\ \A k \in 1..n : Digit[d[k]] \in Int
  <2>1. \A k \in 1..n : d[k] \in Digits
    OBVIOUS
  <2> QED
    BY <2>1, DigitType
<1>2. Hex(d) = value[n]
  BY DEF Hex, value
<1> HIDE DEF n
<1>3. \E g : Sums(g, n)
  <2> DEFINE T == {m \in Nat : m <= n => \E g : Sums(g, m)}
  <2>1. 0 \in T
    <3>1. Sums([k \in 0..0 |-> 0], 0)
      BY DEF Sums
    <3> QED
      BY <3>1
  <2>2. ASSUME NEW m \in Nat, m \in T, m + 1 <= n PROVE \E g : Sums(g, m + 1)
    <3>1. PICK g : Sums(g, m)
      BY <2>2, <1>1
    <3> DEFINE h == [k \in 0..m + 1 |-> IF k = m + 1 THEN 16 * g[m] + Digit[d[m + 1]] ELSE g[k]]
    <3>2. Digit[d[m + 1]] \in Int /\ g[m] \in Int
      BY <1>1, <2>2, <3>1 DEF Sums
    <3>3. h \in [0..m + 1 -> Int]
      <4>1. \A k \in 0..m + 1 : k # m + 1 => k \in 0..m
        OBVIOUS
      <4> QED
        BY <3>1, <3>2, <4>1 DEF Sums
    <3>4. ASSUME NEW k \in 0..m + 1 PROVE h[k] = Sum(h, k)
      <4>1. CASE k = m + 1
        <5>1. k # 0 /\ k - 1 = m /\ h[m] = g[m]
          BY <4>1
        <5> QED
          BY <4>1, <5>1
      <4>2. CASE k # m + 1
        <5>0. k \in 0..m /\ h[k] = g[k]
          BY <4>2
        <5>1. k \in 0..m /\ h[k] = Sum(g, k)
          BY <3>1, <5>0 DEF Sums
        <5>2. k # 0 => h[k - 1] = g[k - 1]
          BY <5>1
        <5> QED
          BY <5>1, <5>2
      <4> QED
        BY <4>1, <4>2
    <3> HIDE DEF h
    <3> QED
      BY <3>3, <3>4 DEF Sums
  <2>3. \A m \in Nat : m \in T => m + 1 \in T
    BY <2>2
  <2> HIDE DEF T
  <2>4. n \in T
    BY <1>1, <2>1, <2>3, NatInd
  <2> QED
    BY <1>1, <2>4 DEF T
<1>4. value = [k \in 0..n |-> Sum(value, k)]
  <2>1. PICK g : Sums(g, n)
    BY <1>3
  <2>2. g = [k \in 0..n |-> Sum(g, k)]
    BY <2>1 DEF Sums
  <2> QED
    BY <2>2 DEF value
<1>5. value \in [0..n -> Int]
  <2> DEFINE T == {k \in Nat : k <= n => value[k] \in Int}
  <2>1. 0 \in T
    BY <1>1, <1>4
  <2>2. ASSUME NEW k \in Nat, k \in T PROVE k + 1 \in T
    <3> SUFFICES ASSUME k + 1 <= n PROVE value[k + 1] \in Int
      OBVIOUS
    <3>1. k + 1 \in 0..n /\ k + 1 # 0 /\ (k + 1) - 1 = k /\ value[k] \in Int /\ Digit[d[k + 1]] \in Int
      BY <1>1, <2>2
    <3>2. value[k + 1] = 16 * value[k] + Digit[d[k + 1]]
      BY <1>4, <3>1
    <3> QED
      BY <3>1, <3>2
  <2> HIDE DEF T
  <2>3. Nat \subseteq T
    BY <2>1, <2>2, NatInd
  <2>4. \A k \in 0..n : value[k] \in Int
    BY <1>1, <2>3 DEF T
  <2> QED
    BY <1>4, <2>4
<1>6. Adds(value, d)
  BY <1>1, <1>4 DEF Adds, n
<1> QED
  BY <1>2, <1>5, <1>6 DEF n

Folded(d) == FoldLeft(LAMBDA sum, b : 16 * sum + Digit[b], 0, d)

LEMMA FoldAdds ==
  ASSUME NEW d \in Seq(Digits)
  PROVE  \E v \in [0..Len(d) -> Int] : Adds(v, d) /\ Folded(d) = v[Len(d)]
<1> DEFINE n == Len(d)
           Sum(g, x) == IF x = {} THEN 0 ELSE 16 * g[x \ {Max(x)}] + Digit[d[Max(x)]]
           Sums(g, k) == g \in [SUBSET (1..k) -> Int] /\ \A x \in SUBSET (1..k) : g[x] = Sum(g, x)
           iter == CHOOSE iter : iter = [x \in SUBSET DOMAIN d |-> Sum(iter, x)]
<1> HIDE DEF iter, Sums
<1>1. n \in Nat /\ DOMAIN d = 1..n /\ \A k \in 1..n : Digit[d[k]] \in Int
  <2>1. \A k \in 1..n : d[k] \in Digits
    OBVIOUS
  <2> QED
    BY <2>1, DigitType
<1>2. Folded(d) = iter[DOMAIN d]
  BY DEF Folded, FoldLeft, MapThenFoldSet, iter
<1> HIDE DEF n
<1>3. \E g : Sums(g, n)
  <2> DEFINE T == {k \in Nat : k <= n => \E g : Sums(g, k)}
  <2>1. 0 \in T
    <3>1. Sums([x \in SUBSET (1..0) |-> 0], 0)
      BY DEF Sums
    <3> QED
      BY <3>1
  <2>2. ASSUME NEW k \in Nat, k \in T, k + 1 <= n PROVE \E g : Sums(g, k + 1)
    <3>1. PICK g : Sums(g, k)
      BY <2>2, <1>1
    <3> DEFINE h == [x \in SUBSET (1..k + 1) |-> IF k + 1 \in x THEN 16 * g[x \ {k + 1}] + Digit[d[k + 1]] ELSE g[x]]
    <3>2. \A x \in SUBSET (1..k + 1) : /\ x \ {k + 1} \in SUBSET (1..k)
                                       /\ k + 1 \notin x => x \in SUBSET (1..k)
      OBVIOUS
    <3>3. Digit[d[k + 1]] \in Int
      BY <1>1, <2>2
    <3>4. h \in [SUBSET (1..k + 1) -> Int]
      BY <3>1, <3>2, <3>3 DEF Sums
    <3>5. ASSUME NEW x \in SUBSET (1..k + 1) PROVE h[x] = Sum(h, x)
      <4>1. CASE k + 1 \in x
        <5>1. Max(x) = k + 1 /\ x # {}
          BY <4>1, MaxOf
        <5>2. h[x \ {k + 1}] = g[x \ {k + 1}]
          BY <3>2
        <5> QED
          BY <4>1, <5>1, <5>2
      <4>2. CASE k + 1 \notin x
        <5>1. h[x] = Sum(g, x) /\ x \ {Max(x)} \in SUBSET (1..k)
          BY <3>1, <3>2, <4>2 DEF Sums
        <5>2. h[x \ {Max(x)}] = g[x \ {Max(x)}]
          BY <4>2, <5>1
        <5> QED
          BY <5>1, <5>2
      <4> QED
        BY <4>1, <4>2
    <3> HIDE DEF h
    <3> QED
      BY <3>4, <3>5 DEF Sums
  <2>3. \A k \in Nat : k \in T => k + 1 \in T
    BY <2>2
  <2> HIDE DEF T
  <2>4. n \in T
    BY <1>1, <2>1, <2>3, NatInd
  <2> QED
    BY <1>1, <2>4 DEF T
<1>4. iter = [x \in SUBSET DOMAIN d |-> Sum(iter, x)]
  <2>1. PICK g : Sums(g, n)
    BY <1>3
  <2>2. g = [x \in SUBSET DOMAIN d |-> Sum(g, x)]
    BY <1>1, <2>1 DEF Sums
  <2> QED
    BY <2>2 DEF iter
<1> DEFINE v == [k \in 0..n |-> iter[1..k]]
<1>5. iter[1..0] = 0
  BY <1>1, <1>4
<1>6. ASSUME NEW k \in Nat, k + 1 <= n
      PROVE  iter[1..k + 1] = 16 * iter[1..k] + Digit[d[k + 1]]
  <2>1. 1..k + 1 \in SUBSET DOMAIN d /\ k + 1 \in 1..k + 1
    BY <1>1, <1>6
  <2>2. (1..k + 1) \ {k + 1} = 1..k
    OBVIOUS
  <2>4. 1..k + 1 # {}
    BY <2>1
  <2>3. Max(1..k + 1) = k + 1
    BY <2>1, MaxOf
  <2> QED
    BY <1>4, <2>1, <2>2, <2>3, <2>4
<1>7. ASSUME NEW k \in 0..n PROVE iter[1..k] \in Int
  <2> DEFINE T == {j \in Nat : j <= n => iter[1..j] \in Int}
  <2>1. 0 \in T
    BY <1>5
  <2>2. \A j \in Nat : j \in T => j + 1 \in T
    BY <1>1, <1>6
  <2> HIDE DEF T
  <2>3. k \in T
    BY <1>7, <2>1, <2>2, NatInd
  <2> QED
    BY <1>7, <2>3 DEF T
<1>8. v \in [0..n -> Int] /\ v[0] = 0 /\ v[n] = Folded(d)
  BY <1>1, <1>2, <1>5, <1>7
<1>9. ASSUME NEW k \in 1..n PROVE v[k] = 16 * v[k - 1] + Digit[d[k]]
  BY <1>1, <1>6, <1>9
<1> QED
  BY <1>8, <1>9 DEF Adds, n

LEMMA FoldIsHex ==
  ASSUME NEW d \in Seq(Digits)
  PROVE  Folded(d) = Hex(d) /\ Hex(d) \in Nat
BY FoldAdds, HexAdds, AddsOnce

-----------------------------------------------------------------------------
(* A chunk's size line: what httpclient_parse_chunk_size() makes of it is  *)
(* what it says.                                                           *)

DigitsEnd(line, n) ==
  /\ n \in 0..Len(line) /\ \A i \in 1..n : line[i] \in Digits
  /\ n < Len(line) => line[n + 1] \notin Digits

LEMMA DigitsEndOnce ==
  ASSUME NEW line \in Seq(Bytes), NEW m, NEW n, DigitsEnd(line, m), DigitsEnd(line, n)
  PROVE  m = n
<1>1. Len(line) \in Nat /\ m \in 0..Len(line) /\ n \in 0..Len(line)
  BY DEF DigitsEnd
<1>2. ASSUME NEW i, NEW j, DigitsEnd(line, i), DigitsEnd(line, j), i < j PROVE FALSE
  <2>1. i + 1 \in 1..j /\ i < Len(line)
    BY <1>1, <1>2 DEF DigitsEnd
  <2> QED
    BY <1>2, <2>1 DEF DigitsEnd
<1>3. ~(m < n) /\ ~(n < m)
  BY <1>2
<1> QED
  BY <1>1, <1>3

LEMMA SizeDigitsEnd ==
  ASSUME NEW line \in Seq(Bytes), NEW n, DigitsEnd(line, n)
  PROVE  SizeDigits(line) = SubSeq(line, 1, n) /\ SizeDigits(line) \in Seq(Digits) /\ Len(SizeDigits(line)) = n
<1>1. n = CHOOSE m \in 0..Len(line) : DigitsEnd(line, m)
  BY DigitsEndOnce DEF DigitsEnd
<1>2. SizeDigits(line) = SubSeq(line, 1, CHOOSE m \in 0..Len(line) : DigitsEnd(line, m))
  BY DEF SizeDigits, DigitsEnd, Digits
<1>3. Len(line) \in Nat /\ n \in 0..Len(line) /\ \A i \in 1..n : line[i] \in Digits
  BY DEF DigitsEnd
<1> QED
  BY <1>1, <1>2, <1>3

LEMMA ChunkSizeIs ==
  ASSUME NEW line \in Seq(Bytes)
  PROVE  /\ SizeVerdict(line) \in {"CONTENT", "LENGTH", "ok"}
         /\ Hex(SizeDigits(line)) \in Nat
         /\ SizeVerdict(line) = "ok" => /\ ChunkSize(line) = [error |-> "none", size |-> Hex(SizeDigits(line))]
                                        /\ Hex(SizeDigits(line)) <= SizeMax
         /\ SizeVerdict(line) # "ok" => ChunkSize(line) = [error |-> SizeVerdict(line)]
<1> DEFINE others == {i \in 1..Len(line) : line[i] \notin Digits}
           other == SelectInSeq(line, LAMBDA b : b \notin DOMAIN Digit)
           digits == IF other = 0 THEN line ELSE SubSeq(line, 1, other - 1)
           n == IF other = 0 THEN Len(line) ELSE other - 1
<1>1. Len(line) \in Nat
  OBVIOUS
<1>2. other = IF others # {} THEN Min(others) ELSE 0
  BY DEF SelectInSeq, Digits
<1>3. others # {} => Min(others) \in others /\ \A i \in others : Min(others) <= i
  <2>1. others \in SUBSET Nat
    OBVIOUS
  <2> HIDE DEF others
  <2> QED
    BY <2>1, MinOf
<1>4. ChunkSize(line) =
        CASE digits = <<>> -> [error |-> "CONTENT"]
          [] digits # <<>> /\ Folded(digits) > SizeMax -> [error |-> "LENGTH"]
          [] digits # <<>> /\ Folded(digits) <= SizeMax /\ other # 0 /\ line[other] # ";" -> [error |-> "CONTENT"]
          [] OTHER -> [error |-> "none", size |-> Folded(digits)]
  BY DEF ChunkSize, Folded
<1> HIDE DEF other
<1>5. other \in 0..Len(line) /\ (other # 0 => other \in others /\ \A i \in others : other <= i) /\ (other = 0 => others = {})
  BY <1>1, <1>2, <1>3
<1>6. DigitsEnd(line, n) /\ (n < Len(line) <=> other # 0) /\ (other # 0 => n + 1 = other) /\ n \in Nat
  BY <1>1, <1>5 DEF DigitsEnd
<1>7. SubSeq(line, 1, Len(line)) = line
  OBVIOUS
<1>8. SizeDigits(line) = digits
  BY <1>6, <1>7, SizeDigitsEnd
<1>9. digits \in Seq(Digits) /\ Len(digits) = n /\ (digits = <<>> <=> n = 0)
  <2>1. digits \in Seq(Digits) /\ Len(digits) = n
    BY <1>6, <1>8, SizeDigitsEnd
  <2> HIDE DEF digits, n
  <2> QED
    BY <2>1
<1>10. Folded(digits) = Hex(digits) /\ Hex(digits) \in Nat
  BY <1>9, FoldIsHex
<1>11. SizeVerdict(line) = IF n = 0 THEN "CONTENT"
                           ELSE IF Hex(digits) > SizeMax THEN "LENGTH"
                           ELSE IF n < Len(line) /\ line[n + 1] # ";" THEN "CONTENT"
                           ELSE "ok"
  BY <1>8, <1>9 DEF SizeVerdict
<1> HIDE DEF n, digits
<1>12. SizeMax \in Nat
  BY SizeMaxAssumption
<1> DEFINE hex == Hex(digits)
           tail == n < Len(line) /\ line[n + 1] # ";"
<1>13. hex \in Nat /\ (tail <=> other # 0 /\ line[other] # ";") /\ (n = 0 <=> digits = <<>>)
  <2>1. tail <=> other # 0 /\ line[n + 1] # ";"
    BY <1>6
  <2> QED
    BY <1>6, <1>9, <1>10, <2>1
<1>14. ChunkSize(line) =
        CASE digits = <<>> -> [error |-> "CONTENT"]
          [] digits # <<>> /\ hex > SizeMax -> [error |-> "LENGTH"]
          [] digits # <<>> /\ hex <= SizeMax /\ other # 0 /\ line[other] # ";" -> [error |-> "CONTENT"]
          [] OTHER -> [error |-> "none", size |-> hex]
  BY <1>4, <1>10
<1>15. SizeVerdict(line) = IF n = 0 THEN "CONTENT" ELSE IF hex > SizeMax THEN "LENGTH"
                           ELSE IF tail THEN "CONTENT" ELSE "ok"
  BY <1>11
<1>16. Hex(SizeDigits(line)) = hex
  BY <1>8
<1>21. hex \in Nat
  BY <1>10
<1> HIDE DEF hex, tail
<1>22. hex <= SizeMax <=> ~(hex > SizeMax)
  BY <1>12, <1>21
<1>17. CASE n = 0
  BY <1>13, <1>14, <1>15, <1>16, <1>17
<1>18. CASE n # 0 /\ hex > SizeMax
  <2>1. ChunkSize(line) = [error |-> "LENGTH"] /\ SizeVerdict(line) = "LENGTH"
    BY <1>13, <1>14, <1>15, <1>18, <1>22
  <2> QED
    BY <1>13, <1>16, <2>1
<1>19. CASE n # 0 /\ hex <= SizeMax /\ tail
  <2>1. ~(hex > SizeMax)
    BY <1>19, <1>22
  <2>2. ChunkSize(line) = [error |-> "CONTENT"] /\ SizeVerdict(line) = "CONTENT"
    BY <1>13, <1>14, <1>15, <1>19, <2>1
  <2> QED
    BY <1>13, <1>16, <2>2
<1>20. CASE n # 0 /\ hex <= SizeMax /\ ~tail
  <2>1. ~(hex > SizeMax)
    BY <1>20, <1>22
  <2>2. ChunkSize(line) = [error |-> "none", size |-> hex] /\ SizeVerdict(line) = "ok"
    BY <1>13, <1>14, <1>15, <1>20, <2>1
  <2> QED
    BY <1>13, <1>16, <1>20, <2>2
<1> QED
  BY <1>17, <1>18, <1>19, <1>20, <1>22

-----------------------------------------------------------------------------
(* The reading of a chunked body: each place's reading from those of the   *)
(* places behind it.                                                       *)

Steps == {"size", "end", "trailer"}
LineFeedsAt(w, p) == {i \in p..Lesser(Len(w), p + BufMax - 1) : w[i] = "LF"}
NextAt(w, p) == Min(LineFeedsAt(w, p)) + 1
LineAt(w, p) == Stripped(SubSeq(w, p, NextAt(w, p) - 2))
SizeAt(w, p) == Hex(SizeDigits(LineAt(w, p)))

LEMMA StrippedType ==
  ASSUME NEW s \in Seq(Bytes)
  PROVE  Stripped(s) \in Seq(Bytes)
BY DEF Stripped, Front, Last

LEMMA LineFeedsType ==
  ASSUME NEW w \in Seq(Bytes), NEW p \in 1..Len(w) + 1, LineFeedsAt(w, p) # {}
  PROVE  LET m == NextAt(w, p) - 1
         IN  /\ m \in p..Len(w) /\ m <= p + BufMax - 1 /\ w[m] = "LF"
             /\ \A i \in p..m - 1 : w[i] # "LF"
             /\ NextAt(w, p) = m + 1 /\ NextAt(w, p) \in p + 1..Len(w) + 1
             /\ LineAt(w, p) \in Seq(Bytes) /\ SizeAt(w, p) \in Nat
<1> DEFINE s == LineFeedsAt(w, p)
           m == Min(s)
           top == Lesser(Len(w), p + BufMax - 1)
<1>1. BufMax \in Nat /\ Len(w) \in Nat /\ p \in Nat
  BY BufMaxAssumption
<1>2. top \in Int /\ top <= Len(w) /\ top <= p + BufMax - 1 /\ (top = Len(w) \/ top = p + BufMax - 1)
  BY <1>1 DEF Lesser
<1>3. s = {i \in p..top : w[i] = "LF"}
  BY DEF LineFeedsAt
<1> HIDE DEF top
<1>4. s \in SUBSET Nat
  BY <1>1, <1>2, <1>3
<1>5. m \in s /\ \A y \in s : m <= y
  <2> HIDE DEF s
  <2> QED
    BY <1>4, MinOf DEF s
<1>6. m \in Nat /\ p <= m /\ m <= top /\ w[m] = "LF"
  BY <1>3, <1>4, <1>5
<1>7. ASSUME NEW i \in p..m - 1 PROVE w[i] # "LF"
  <2>1. i \in p..top /\ ~(m <= i)
    BY <1>1, <1>2, <1>6
  <2> QED
    BY <1>3, <1>5, <2>1
<1> HIDE DEF m
<1>8. NextAt(w, p) = m + 1 /\ NextAt(w, p) - 1 = m /\ NextAt(w, p) - 2 = m - 1
  BY <1>6 DEF NextAt, m, s
<1>9. SubSeq(w, p, m - 1) \in Seq(Bytes)
  BY <1>1, <1>2, <1>6
<1>10. LineAt(w, p) \in Seq(Bytes)
  BY <1>8, <1>9, StrippedType DEF LineAt
<1>11. SizeAt(w, p) \in Nat
  BY <1>10, ChunkSizeIs DEF SizeAt
<1> QED
  BY <1>1, <1>2, <1>6, <1>7, <1>8, <1>10, <1>11

ReadEnd(w, read, p) ==
  IF p + 1 > Len(w) THEN Reading(<<>>, "cut")
  ELSE IF w[p] = "CR" /\ w[p + 1] = "LF" THEN read[p + 2]["size"]
  ELSE Reading(<<>>, "CONTENT")
NoLine(w, p) == Reading(<<>>, IF Len(w) + 1 - p >= BufMax THEN "LENGTH" ELSE "cut")
ReadTrailer(w, read, p) ==
  IF LineFeedsAt(w, p) = {} THEN NoLine(w, p)
  ELSE IF LineAt(w, p) = <<>> THEN Reading(<<>>, "end") ELSE read[NextAt(w, p)]["trailer"]
ReadData(w, read, p, n) ==
  IF p + n > Len(w) + 1 THEN Reading(Places(p, Len(w)), "cut")
  ELSE Reading(Places(p, p + n - 1) \o read[p + n]["end"].body, read[p + n]["end"].verdict)
ReadSize(w, read, p) ==
  IF LineFeedsAt(w, p) = {} THEN NoLine(w, p)
  ELSE IF SizeVerdict(LineAt(w, p)) # "ok" THEN Reading(<<>>, SizeVerdict(LineAt(w, p)))
  ELSE IF SizeAt(w, p) = 0 THEN read[NextAt(w, p)]["trailer"]
  ELSE ReadData(w, read, NextAt(w, p), SizeAt(w, p))

LEMMA ReadAtIs ==
  ASSUME NEW w, NEW read, NEW p
  PROVE  /\ ReadAt(w, read, p, "end") = ReadEnd(w, read, p)
         /\ ReadAt(w, read, p, "trailer") = ReadTrailer(w, read, p)
         /\ ReadAt(w, read, p, "size") = ReadSize(w, read, p)
<1>1. ReadAt(w, read, p, "end") = ReadEnd(w, read, p)
  BY DEF ReadAt, ReadEnd
<1>2. ReadAt(w, read, p, "trailer") = ReadTrailer(w, read, p)
  BY DEF ReadAt, ReadTrailer, NoLine, LineFeedsAt, LineAt, NextAt
<1>3. ReadAt(w, read, p, "size") = ReadSize(w, read, p)
  BY DEF ReadAt, ReadSize, ReadData, NoLine, LineFeedsAt, LineAt, NextAt, SizeAt
<1> QED
  BY <1>1, <1>2, <1>3

(* A reading looks only at what is behind its place. *)
LEMMA ReadsAhead ==
  ASSUME NEW w \in Seq(Bytes), NEW p \in 1..Len(w) + 1, NEW g, NEW h, \A q \in p + 1..Len(w) + 1 : g[q] = h[q],
         NEW at \in Steps
  PROVE  ReadAt(w, g, p, at) = ReadAt(w, h, p, at)
<1>1. Len(w) \in Nat /\ p \in Nat
  OBVIOUS
<1>2. ReadEnd(w, g, p) = ReadEnd(w, h, p)
  BY <1>1 DEF ReadEnd
<1>3. ReadTrailer(w, g, p) = ReadTrailer(w, h, p)
  BY LineFeedsType DEF ReadTrailer
<1>4. ReadSize(w, g, p) = ReadSize(w, h, p)
  <2> SUFFICES ASSUME LineFeedsAt(w, p) # {} PROVE ReadSize(w, g, p) = ReadSize(w, h, p)
    BY DEF ReadSize
  <2>1. NextAt(w, p) \in p + 1..Len(w) + 1 /\ SizeAt(w, p) \in Nat
    BY LineFeedsType
  <2>2. ReadData(w, g, NextAt(w, p), SizeAt(w, p)) = ReadData(w, h, NextAt(w, p), SizeAt(w, p))
    <3> SUFFICES ASSUME ~(NextAt(w, p) + SizeAt(w, p) > Len(w) + 1)
                 PROVE  g[NextAt(w, p) + SizeAt(w, p)] = h[NextAt(w, p) + SizeAt(w, p)]
      BY DEF ReadData
    <3> QED
      BY <1>1, <2>1
  <2> QED
    BY <2>1, <2>2 DEF ReadSize
<1> QED
  BY <1>2, <1>3, <1>4, ReadAtIs DEF Steps

ReadOf(w) == CHOOSE read : read = [p \in 1..Len(w)+1 |-> [at \in Steps |-> ReadAt(w, read, p, at)]]

LEMMA ReadOfIs ==
  ASSUME NEW w \in Seq(Bytes)
  PROVE  ReadOf(w) = [p \in 1..Len(w)+1 |-> [at \in Steps |-> ReadAt(w, ReadOf(w), p, at)]]
<1> DEFINE n == Len(w) + 1
           From(g, k) == g = [p \in k..n |-> [at \in Steps |-> ReadAt(w, g, p, at)]]
           T == {m \in Nat : m <= n => \E g : From(g, n + 1 - m)}
<1>1. n \in Nat
  OBVIOUS
<1> HIDE DEF From
<1>2. 0 \in T
  <2> DEFINE g == [p \in n + 1..n |-> 0]
  <2>1. g = [p \in n + 1..n |-> [at \in Steps |-> ReadAt(w, g, p, at)]]
    <3>1. \A p \in n + 1..n : FALSE
      BY <1>1
    <3> HIDE DEF n
    <3> QED
      BY <3>1
  <2>2. From(g, n + 1 - 0)
    <3>1. n + 1 - 0 = n + 1
      BY <1>1
    <3> HIDE DEF g, n
    <3> QED
      BY <2>1, <3>1 DEF From
  <2> QED
    BY <2>2
<1>3. ASSUME NEW m \in Nat, m \in T, m + 1 <= n PROVE \E g : From(g, n + 1 - (m + 1))
  <2> DEFINE k == n - m
  <2>1. k \in 1..n /\ n + 1 - m = k + 1 /\ n + 1 - (m + 1) = k /\ m <= n
    BY <1>1, <1>3
  <2>2. PICK g : From(g, k + 1)
    BY <1>3, <2>1
  <2>3. g = [p \in k + 1..n |-> [at \in Steps |-> ReadAt(w, g, p, at)]]
    BY <2>2 DEF From
  <2> DEFINE h == [p \in k..n |-> [at \in Steps |-> ReadAt(w, g, p, at)]]
  <2> HIDE DEF k, T
  <2>4. \A p \in k + 1..n : p \in k..n /\ p \in 1..Len(w) + 1 /\ h[p] = g[p]
    <3>1. \A p \in k + 1..n : p \in k..n /\ p \in 1..n
      BY <1>1, <2>1
    <3>2. \A p \in k + 1..n : g[p] = [at \in Steps |-> ReadAt(w, g, p, at)]
      BY <2>3
    <3> QED
      BY <3>1, <3>2
  <2>5. ASSUME NEW p \in k..n, NEW at \in Steps PROVE ReadAt(w, g, p, at) = ReadAt(w, h, p, at)
    <3>1. p \in 1..Len(w) + 1 /\ \A q \in p + 1..Len(w) + 1 : q \in k + 1..n
      BY <1>1, <2>1
    <3>2. \A q \in p + 1..Len(w) + 1 : g[q] = h[q]
      BY <2>4, <3>1
    <3> HIDE DEF h
    <3> QED
      BY <3>1, <3>2, ReadsAhead
  <2>6. h = [p \in k..n |-> [at \in Steps |-> ReadAt(w, h, p, at)]]
    BY <2>5
  <2>7. From(h, k)
    <3> HIDE DEF h
    <3> QED
      BY <2>6 DEF From
  <2> QED
    BY <2>1, <2>7
<1>4. \A m \in Nat : m \in T => m + 1 \in T
  BY <1>3
<1> HIDE DEF T
<1>5. n \in T
  BY <1>1, <1>2, <1>4, NatInd
<1>6. PICK g : From(g, 1)
  <2>1. n + 1 - n = 1 /\ n <= n
    BY <1>1
  <2> QED
    BY <1>5, <2>1 DEF T
<1>7. g = [p \in 1..Len(w) + 1 |-> [at \in Steps |-> ReadAt(w, g, p, at)]]
  BY <1>6 DEF From
<1> QED
  BY <1>7 DEF ReadOf

(* What the reply says from a place on. *)
Rest(w, p, at) == ReadOf(w)[p][at]

LEMMA RestIs ==
  ASSUME NEW w \in Seq(Bytes), NEW p \in 1..Len(w) + 1
  PROVE  /\ Rest(w, p, "end") = ReadEnd(w, ReadOf(w), p)
         /\ Rest(w, p, "trailer") = ReadTrailer(w, ReadOf(w), p)
         /\ Rest(w, p, "size") = ReadSize(w, ReadOf(w), p)
<1>1. ASSUME NEW at \in Steps PROVE Rest(w, p, at) = ReadAt(w, ReadOf(w), p, at)
  BY ReadOfIs DEF Rest
<1> QED
  BY <1>1, ReadAtIs DEF Steps

LEMMA ChunkedIs ==
  ASSUME NEW w, NEW p
  PROVE  Chunked(w, p) = Rest(w, p, "size")
BY DEF Chunked, Rest, ReadOf, Steps

-----------------------------------------------------------------------------
(* The buffer: its unread bytes, from s to e, are the last of the g bytes  *)
(* that were taken from w, in their order.                                 *)

Holds(w, b, s, e, g) ==
  /\ b \in [Slots -> 0..Len(w)]
  /\ s \in Nat /\ e \in Nat /\ s <= e /\ e <= BufMax /\ g \in Nat /\ g <= Len(w) /\ e - s <= g
  /\ \A i \in Slots : s <= i /\ i < e => b[i] = g - e + 1 + i

LEMMA SlotsType ==
  /\ BufMax \in Nat /\ BufMax >= 2 /\ Slots = 0..BufMax - 1
  /\ \A i \in Slots : i \in Nat /\ i < BufMax
  /\ \A i \in Nat : i < BufMax => i \in Slots
  /\ \A w \in Seq(Bytes) : NoBuffer \notin [Slots -> 0..Len(w)]
<1>1. BufMax \in Nat /\ BufMax >= 2 /\ Slots = 0..BufMax - 1
  BY BufMaxAssumption DEF Slots
<1>2. 0 \in Slots
  BY <1>1
<1>3. DOMAIN NoBuffer = {}
  BY DEF NoBuffer
<1> QED
  BY <1>1, <1>2, <1>3

LEMMA CompactedHolds ==
  ASSUME NEW w \in Seq(Bytes), Holds(w, buf, start, end, got)
  PROVE  /\ Holds(w, Compacted.buf, Compacted.start, Compacted.end, got)
         /\ Compacted.end - Compacted.start = end - start
         /\ ~Full => Compacted.end < BufMax
<1>1. BufMax \in Nat /\ BufMax >= 2 /\ (\A i \in Slots : i \in Nat /\ i < BufMax) /\ \A i \in Nat : i < BufMax => i \in Slots
  BY SlotsType
<1>2. CASE start = end
  <2>1. Compacted = [buf |-> buf, start |-> 0, end |-> 0]
    BY <1>2 DEF Compacted
  <2> QED
    BY <1>1, <1>2, <2>1 DEF Holds, Full
<1>3. CASE start # end /\ end = BufMax
  <2> DEFINE b == [i \in Slots |-> IF i < end - start THEN buf[start + i] ELSE buf[i]]
  <2>1. Compacted = [buf |-> b, start |-> 0, end |-> end - start]
    BY <1>3 DEF Compacted
  <2>2. \A i \in Slots : i < end - start => start + i \in Slots /\ start <= start + i /\ start + i < end
    BY <1>1 DEF Holds
  <2>3. b \in [Slots -> 0..Len(w)]
    BY <2>2 DEF Holds
  <2>4. \A i \in Slots : i < end - start => b[i] = got - (end - start) + 1 + i
    <3> SUFFICES ASSUME NEW i \in Slots, i < end - start PROVE b[i] = got - (end - start) + 1 + i
      OBVIOUS
    <3>1. b[i] = buf[start + i] /\ buf[start + i] = got - end + 1 + (start + i)
      BY <2>2 DEF Holds
    <3>2. i \in Nat /\ start \in Nat /\ end \in Nat /\ got \in Nat
      BY <1>1 DEF Holds
    <3> QED
      BY <3>1, <3>2
  <2>5. end - start \in Nat /\ end - start <= BufMax /\ end - start <= got /\ (~Full => end - start < BufMax)
    BY <1>1, <1>3 DEF Holds, Full
  <2> HIDE DEF b
  <2> QED
    BY <1>1, <2>1, <2>3, <2>4, <2>5 DEF Holds
<1>4. CASE start # end /\ end # BufMax
  <2>1. Compacted = [buf |-> buf, start |-> start, end |-> end]
    BY <1>4 DEF Compacted
  <2> QED
    BY <1>1, <1>4, <2>1 DEF Holds
<1> QED
  BY <1>2, <1>3, <1>4

LEMMA LesserIs ==
  ASSUME NEW m \in Int, NEW n \in Int
  PROVE  Lesser(m, n) \in {m, n} /\ Lesser(m, n) <= m /\ Lesser(m, n) <= n
BY DEF Lesser

LEMMA Received ==
  ASSUME NEW w \in Seq(Bytes), Holds(w, buf, start, end, got), sent \in 0..Len(w), NEW most \in Nat, Receive(most)
  PROVE  /\ Holds(w, buf', start', end', got')
         /\ got' \in got..sent /\ got' - got <= most /\ (most > 0 => got' > got)
         /\ (end' - start') - (got' - got) = end - start
         /\ start = 0 => start' = 0 /\ end <= end'
<1> DEFINE b == Compacted
           n == Lesser(sent - got, Lesser(most, BufMax - b.end))
<1>1. BufMax \in Nat /\ BufMax >= 2 /\ (\A i \in Slots : i \in Nat /\ i < BufMax) /\ \A i \in Nat : i < BufMax => i \in Slots
  BY SlotsType
<1>2. ~Full /\ sent > got /\ start' = b.start /\ end' = b.end + n /\ got' = got + n
      /\ buf' = [i \in Slots |-> IF b.end <= i /\ i < b.end + n THEN got + 1 + i - b.end ELSE b.buf[i]]
  BY DEF Receive
<1>3. Holds(w, b.buf, b.start, b.end, got) /\ b.end - b.start = end - start /\ b.end < BufMax
  BY <1>2, CompactedHolds
<1>4. b.end \in Nat /\ b.start \in Nat /\ got \in Nat /\ sent \in Nat /\ sent <= Len(w) /\ Len(w) \in Nat
  BY <1>3 DEF Holds
<1>5. n \in Nat /\ n <= sent - got /\ n <= most /\ n <= BufMax - b.end /\ (most > 0 => n > 0)
  <2>1. sent - got \in Nat /\ sent - got > 0 /\ BufMax - b.end \in Nat /\ BufMax - b.end > 0
    BY <1>1, <1>2, <1>3, <1>4
  <2>2. Lesser(most, BufMax - b.end) \in {most, BufMax - b.end} /\ Lesser(most, BufMax - b.end) <= most
        /\ Lesser(most, BufMax - b.end) <= BufMax - b.end
    BY <2>1, LesserIs
  <2>3. Lesser(most, BufMax - b.end) \in Nat
    BY <2>1, <2>2
  <2>4. n \in {sent - got, Lesser(most, BufMax - b.end)} /\ n <= sent - got /\ n <= Lesser(most, BufMax - b.end)
    BY <2>1, <2>3, LesserIs
  <2> QED
    BY <2>1, <2>2, <2>3, <2>4
<1>6. start = 0 => b.start = 0 /\ end <= b.end
  <2>1. Compacted = IF start = end THEN [buf |-> buf, start |-> 0, end |-> 0]
                    ELSE IF end = BufMax
                    THEN [buf |-> [i \in Slots |-> IF i < end - start THEN buf[start + i] ELSE buf[i]], start |-> 0, end |-> end - start]
                    ELSE [buf |-> buf, start |-> start, end |-> end]
    BY DEF Compacted
  <2> QED
    BY <2>1 DEF Holds
<1> HIDE DEF b, n
<1>13. start' = b.start /\ end' = b.end + n /\ got' = got + n /\ b.end \in Int /\ n \in Int /\ got \in Int /\ b.start \in Int
  BY <1>2, <1>4, <1>5
<1>14. got' - end' = got - b.end
  BY <1>13
<1>15. b.end \in Int /\ got \in Int
  BY <1>13
<1>7. buf' \in [Slots -> 0..Len(w)]
  <2>1. \A i \in Slots : b.end <= i /\ i < b.end + n => got + 1 + i - b.end \in 0..Len(w)
    BY <1>1, <1>4, <1>5
  <2> QED
    BY <1>2, <1>3, <2>1 DEF Holds
<1>8. ASSUME NEW i \in Slots, start' <= i, i < end' PROVE buf'[i] = got' - end' + 1 + i
  <2>1. i \in Nat
    BY <1>1
  <2>2. CASE b.end <= i
    <3>1. buf'[i] = got + 1 + i - b.end
      BY <1>2, <1>8, <2>2
    <3>2. got + 1 + i - b.end = got' - end' + 1 + i
      <4>1. i \in Int
        BY <2>1
      <4>2. got + 1 + i - b.end = (got - b.end) + 1 + i
        BY <1>15, <4>1
      <4> QED
        BY <1>14, <4>2
    <3> QED
      BY <3>1, <3>2
  <2>3. CASE ~(b.end <= i)
    <3>1. buf'[i] = b.buf[i] /\ b.start <= i /\ i < b.end
      BY <1>2, <1>4, <1>8, <2>1, <2>3
    <3>2. b.buf[i] = got - b.end + 1 + i
      BY <1>3, <3>1 DEF Holds
    <3> QED
      BY <1>2, <1>4, <1>5, <2>1, <3>1, <3>2
  <2> QED
    BY <2>2, <2>3
<1>9. /\ start' \in Nat /\ end' \in Nat /\ start' <= end' /\ end' <= BufMax /\ got' \in Nat /\ got' <= Len(w)
      /\ end' - start' <= got'
  <2>1. b.start <= b.end /\ b.end - b.start <= got
    BY <1>3 DEF Holds
  <2>2. got + n <= Len(w) /\ b.end + n <= BufMax
    BY <1>1, <1>4, <1>5
  <2> QED
    BY <1>4, <1>5, <1>13, <2>1, <2>2
<1>10. Holds(w, buf', start', end', got')
  BY <1>7, <1>8, <1>9 DEF Holds
<1>11. /\ got' \in got..sent /\ got' - got <= most /\ (most > 0 => got' > got)
       /\ (end' - start') - (got' - got) = end - start
  <2>1. sent \in Int /\ most \in Int /\ start \in Int /\ end \in Int /\ b.end - b.start = end - start
    BY <1>3, <1>4 DEF Holds
  <2>2. got' \in Int /\ got <= got' /\ got' <= sent /\ got' - got = n
    BY <1>5, <1>13, <2>1
  <2>3. got' - got <= most /\ (most > 0 => got' > got)
    BY <1>5, <1>13, <2>1, <2>2
  <2>4. (end' - start') - (got' - got) = end - start
    BY <1>13, <2>1, <2>2
  <2> QED
    BY <1>13, <2>1, <2>2, <2>3, <2>4
<1>12. start = 0 => start' = 0 /\ end <= end'
  BY <1>2, <1>4, <1>5, <1>6 DEF Holds
<1> QED
  BY <1>10, <1>11, <1>12

-----------------------------------------------------------------------------
(* Types, and what the place in the code says of the rest.                 *)

Reads == {"LENGTH", "CLOSE", "CHUNK_SIZE", "CHUNK_DATA", "CHUNK_END", "TRAILER"}

NetOK ==
  /\ reply \in Replies \cup Retries /\ sent \in 0..Len(reply.wire) /\ ended \in BOOLEAN
  /\ got \in 0..sent /\ (ended => sent = Len(reply.wire))
BufOK ==
  \/ buf = NoBuffer /\ start \in 0..BufMax /\ end \in 0..BufMax
  \/ buf # NoBuffer /\ Holds(reply.wire, buf, start, end, got)
HeadOK ==
  /\ limit \in 0..HeadMax /\ scanned \in 0..BufMax
  /\ call = "head" => start = 0 /\ scanned <= end
BodyOK ==
  /\ state \in States /\ left \in 0..SizeMax /\ error \in Errors \cup {"none"}
  /\ state = "ERROR" => error \in Errors
  /\ state \in {"LENGTH", "CHUNK_DATA"} => left > 0
CallOK ==
  /\ whole \in BOOLEAN /\ size \in 0..ResponseMax /\ call \in Calls /\ result \in Results
  /\ parts \in Seq(1..Len(reply.wire)) /\ (whole => Len(parts) <= size)
  /\ call = "head" => buf # NoBuffer /\ state = "NONE" /\ parts = <<>>
  /\ call = "alloc" => whole /\ buf # NoBuffer /\ state \in Reads \cup {"DONE"} /\ parts = <<>>
  /\ call = "complete" => whole /\ state # "NONE"
  /\ call = "next" /\ whole => state # "NONE"
  /\ state \in Reads => buf # NoBuffer
  /\ call \in {"alloc", "next", "complete"} => result # "none"
  /\ call = "idle" /\ result = "none" => parts = <<>> /\ state = "NONE" /\ got = 0

Types == NetOK /\ BufOK /\ HeadOK /\ BodyOK /\ CallOK

LEMMA ReplyType ==
  ASSUME NEW r \in Replies \cup Retries
  PROVE  /\ r.wire \in Seq(Bytes) /\ Len(r.wire) \in Nat /\ r.framing \in Framings
         /\ r.length \in 0..SizeMax /\ r.length \in Nat /\ r.ending \in {"open", "close", "reset", "urgent"}
BY RepliesAssumption, SizeMaxAssumption

LEMMA Sizes ==
  /\ BufMax \in Nat /\ BufMax >= 2 /\ HeadMax \in Nat /\ HeadMax >= 1 /\ HeadMax <= BufMax
  /\ SizeMax \in Nat /\ SizeMax >= 1 /\ ResponseInitial \in Nat /\ ResponseMax \in Nat /\ ResponseMax >= 1
BY BufMaxAssumption, HeadMaxAssumption, SizeMaxAssumption, ResponseAssumption

(* A byte in the buffer is the reply's. *)
LEMMA ByteIs ==
  ASSUME NetOK, BufOK, buf # NoBuffer, NEW i \in Nat, start <= i, i < end
  PROVE  /\ i \in Slots /\ buf[i] = got - end + 1 + i /\ got - end + 1 + i \in 1..got
         /\ Byte(i) = reply.wire[got - end + 1 + i] /\ Byte(i) \in Bytes
<1>1. Holds(reply.wire, buf, start, end, got) /\ reply.wire \in Seq(Bytes)
  BY ReplyType DEF NetOK, BufOK
<1>2. i \in Slots
  BY <1>1, SlotsType DEF Holds
<1>3. buf[i] = got - end + 1 + i
  BY <1>1, <1>2 DEF Holds
<1>4. got - end + 1 + i \in 1..got /\ got <= Len(reply.wire) /\ got \in Nat
  <2>1. start \in Nat /\ end \in Nat /\ got \in Nat /\ end - start <= got /\ got <= Len(reply.wire)
    BY <1>1 DEF Holds
  <2> QED
    BY <2>1
<1>5. Byte(i) = reply.wire[got - end + 1 + i]
  BY <1>3, <1>4 DEF Byte
<1>6. reply.wire[got - end + 1 + i] \in Bytes
  <2>1. got - end + 1 + i \in 1..Len(reply.wire)
    BY <1>1, <1>4
  <2> QED
    BY <1>1, <2>1
<1> QED
  BY <1>2, <1>3, <1>4, <1>5, <1>6

(* The first mark of a head, or line feed, among the unread bytes. *)
LEMMA MarksType ==
  ASSUME NetOK, BufOK, HeadOK, buf # NoBuffer, call = "head"
  PROVE  /\ HeadMarks \in SUBSET Nat
         /\ \A i \in HeadMarks : scanned <= i /\ i < end /\ i < limit /\ Byte(i) \in {"bad", "interim", "final"}
         /\ \A i \in Nat : scanned <= i /\ i < end /\ i < limit /\ Byte(i) \in {"bad", "interim", "final"} => i \in HeadMarks
         /\ HeadMarks # {} => Min(HeadMarks) \in HeadMarks /\ \A i \in HeadMarks : Min(HeadMarks) <= i
<1>1. \A i \in Slots : i \in Nat /\ i < BufMax
  BY SlotsType
<1>2. \A i \in Nat : i < BufMax => i \in Slots
  BY SlotsType
<1>3. end \in Nat /\ end <= BufMax /\ limit \in Nat /\ scanned \in Nat /\ BufMax \in Nat
  BY Sizes DEF BufOK, HeadOK, Holds
<1>4. \A i \in Nat : i < Lesser(end, limit) <=> i < end /\ i < limit
  BY <1>3 DEF Lesser
<1>5. HeadMarks \in SUBSET Nat
  BY <1>1 DEF HeadMarks
<1>6. \A i \in HeadMarks : scanned <= i /\ i < end /\ i < limit /\ Byte(i) \in {"bad", "interim", "final"}
  BY <1>1, <1>4 DEF HeadMarks
<1>7. \A i \in Nat : scanned <= i /\ i < end /\ i < limit /\ Byte(i) \in {"bad", "interim", "final"} => i \in HeadMarks
  <2>1. \A i \in Nat : i < end => i \in Slots
    BY <1>2, <1>3
  <2> QED
    BY <1>4, <2>1 DEF HeadMarks
<1> QED
  BY <1>5, <1>6, <1>7, MinOf

LEMMA LinesType ==
  ASSUME NetOK, BufOK, buf # NoBuffer
  PROVE  /\ LineFeeds \in SUBSET Nat
         /\ \A i \in LineFeeds : start <= i /\ i < end /\ Byte(i) = "LF"
         /\ \A i \in Nat : start <= i /\ i < end /\ Byte(i) = "LF" => i \in LineFeeds
         /\ LineFeeds # {} => Min(LineFeeds) \in LineFeeds /\ \A i \in LineFeeds : Min(LineFeeds) <= i
<1>1. \A i \in Slots : i \in Nat /\ i < BufMax
  BY SlotsType
<1>2. \A i \in Nat : i < BufMax => i \in Slots
  BY SlotsType
<1>3. end \in Nat /\ end <= BufMax /\ BufMax \in Nat
  BY Sizes DEF BufOK, Holds
<1>5. LineFeeds \in SUBSET Nat
  BY <1>1 DEF LineFeeds, Unused
<1>6. \A i \in LineFeeds : start <= i /\ i < end /\ Byte(i) = "LF"
  BY <1>1 DEF LineFeeds, Unused
<1>7. \A i \in Nat : start <= i /\ i < end /\ Byte(i) = "LF" => i \in LineFeeds
  <2>1. \A i \in Nat : i < end => i \in Slots
    BY <1>2, <1>3
  <2> QED
    BY <2>1 DEF LineFeeds, Unused
<1> QED
  BY <1>5, <1>6, <1>7, MinOf

LEMMA NetworkType ==
  ASSUME Types, Network
  PROVE  Types'
<1>1. UNCHANGED <<reply, got, buf, start, end, limit, scanned, state, left, error, whole, size, call, result, parts>>
  BY DEF Network, Arrive, ArriveEnding, bufVars, headVars, bodyVars, callVars
<1>2. NetOK'
  <2>1. Len(reply.wire) \in Nat /\ sent \in Nat /\ got \in Nat
    BY ReplyType DEF Types, NetOK
  <2>2. CASE Arrive
    BY <1>1, <2>1, <2>2 DEF Arrive, Types, NetOK
  <2>3. CASE ArriveEnding
    BY <1>1, <2>1, <2>3 DEF ArriveEnding, Types, NetOK
  <2> QED
    BY <2>2, <2>3 DEF Network
<1> QED
  BY <1>1, <1>2 DEF Types, BufOK, Holds, HeadOK, BodyOK, CallOK

LEMMA HeadFailsType ==
  ASSUME Types, NEW r \in Errors, HeadFails(r), start' \in 0..BufMax, end' \in 0..BufMax, left' \in 0..SizeMax
  PROVE  Types'
<1>1. /\ UNCHANGED <<reply, sent, ended, got, whole, size, parts>> /\ buf' = NoBuffer /\ state' = "ERROR" /\ error' = r
      /\ call' = "idle" /\ result' = r /\ limit' = 0 /\ scanned' = 0
  BY DEF HeadFails, netVars
<1>2. NetOK' /\ BufOK'
  BY <1>1 DEF Types, NetOK, BufOK
<1>3. HeadOK' /\ BodyOK'
  BY <1>1, Sizes DEF HeadOK, BodyOK, States
<1>4. CallOK'
  <2>1. r # "none" /\ r \in Results
    BY DEF Errors, Results
  <2> QED
    BY <1>1, <2>1 DEF Types, CallOK, Calls, Reads
<1> QED
  BY <1>2, <1>3, <1>4 DEF Types

(* What every refused or cut head leaves. *)
HeadOver == \E r \in Errors : HeadFails(r)

LEMMA HeadOverType ==
  ASSUME Types, \/ HeadBad \/ HeadTooLong \/ HeadRefused \/ ReadResponseNoMemory
                \/ \E why \in Outcomes \cup Failures : HeadCut(why)
  PROVE  Types' /\ HeadOver
<1> DEFINE Ends == start' \in 0..BufMax /\ end' \in 0..BufMax /\ left' \in 0..SizeMax
<1>0. 0 \in 0..BufMax /\ 0 \in 0..SizeMax /\ start \in 0..BufMax /\ end \in 0..BufMax /\ left \in 0..SizeMax
  BY Sizes DEF Types, BufOK, Holds, BodyOK
<1>1. CASE HeadBad
  BY <1>0, <1>1, HeadFailsType DEF HeadBad, Errors, HeadOver
<1>2. CASE HeadTooLong
  BY <1>0, <1>2, HeadFailsType DEF HeadTooLong, Errors, HeadOver
<1>3. CASE ReadResponseNoMemory
  BY <1>0, <1>3, HeadFailsType DEF ReadResponseNoMemory, Errors, HeadOver
<1>4. CASE HeadRefused
  <2>1. HeadFails(reply.framing) /\ reply.framing \in Errors
    BY <1>4 DEF HeadRefused
  <2>2. CASE reply.framing = "HEADER" /\ start' = 0 /\ end' = 0 /\ UNCHANGED left
    BY <1>0, <2>1, <2>2, HeadFailsType DEF HeadOver
  <2>3. CASE start' = Min(HeadMarks) + 1 /\ left' = 0 /\ UNCHANGED end
    <3>1. Min(HeadMarks) \in Nat /\ Min(HeadMarks) < end
      BY <1>4, MarksType DEF HeadRefused, HeadMark, Types, CallOK
    <3>2. start' \in 0..BufMax
      BY <1>0, <2>3, <3>1, Sizes
    <3> QED
      BY <1>0, <2>1, <2>3, <3>2, HeadFailsType DEF HeadOver
  <2> QED
    BY <1>4, <2>2, <2>3 DEF HeadRefused
<1>5. ASSUME NEW why \in Outcomes \cup Failures, HeadCut(why) PROVE Types' /\ HeadOver
  <2>1. PICK r \in Errors : HeadFails(r)
    <3>1. (IF why = "closed" THEN "CONNECTION" ELSE why) \in Errors
      BY DEF Outcomes, Failures, Errors
    <3> QED
      BY <1>5, <3>1 DEF HeadCut
  <2>2. start' = 0 /\ end' = 0 /\ left' = left
    BY <1>5 DEF HeadCut
  <2> QED
    BY <1>0, <2>1, <2>2, HeadFailsType DEF HeadOver
<1> QED
  BY <1>1, <1>2, <1>3, <1>4, <1>5

LEMMA ReadResponseType ==
  ASSUME Types, ReadResponse \/ ReadResponseTooEarly \/ ReadNext
  PROVE  Types'
<1>1. CASE ReadResponse
  <2>1. /\ UNCHANGED <<reply, sent, ended, got, state, left, error, size, result, parts>> /\ buf' = NewBuffer
        /\ call' = "head" /\ start' = 0 /\ end' = 0 /\ limit' = HeadMax /\ scanned' = 0 /\ whole' \in BOOLEAN
        /\ parts = <<>> /\ state = "NONE" /\ got = 0
    BY <1>1 DEF ReadResponse, netVars, bodyVars, Types, CallOK
  <2>2. reply.wire \in Seq(Bytes) /\ Len(reply.wire) \in Nat
    BY ReplyType DEF Types, NetOK
  <2>3. Holds(reply.wire, NewBuffer, 0, 0, 0)
    <3>1. NewBuffer \in [Slots -> 0..Len(reply.wire)]
      BY <2>2 DEF NewBuffer
    <3>2. \A i \in Slots : i \in Nat /\ ~(i < 0)
      BY SlotsType
    <3> QED
      BY <2>2, <3>1, <3>2, Sizes DEF Holds
  <2>4. NewBuffer # NoBuffer
    BY <2>2, <2>3, SlotsType DEF Holds
  <2>5. NetOK' /\ BufOK'
    BY <2>1, <2>3, <2>4 DEF Types, NetOK, BufOK
  <2>6. HeadOK' /\ BodyOK'
    BY <2>1, Sizes DEF Types, HeadOK, BodyOK
  <2>7. CallOK'
    <3>1. Len(<<>>) <= size /\ size \in Nat
      BY Sizes DEF Types, CallOK
    <3> QED
      BY <2>1, <2>4, <3>1 DEF Types, CallOK, Calls, Reads
  <2> QED
    BY <2>5, <2>6, <2>7 DEF Types
<1>2. CASE ReadResponseTooEarly
  BY <1>2 DEF ReadResponseTooEarly, Types, NetOK, BufOK, Holds, HeadOK, BodyOK, CallOK, Results, netVars, bufVars, headVars, bodyVars
<1>3. CASE ReadNext
  BY <1>3 DEF ReadNext, Types, NetOK, BufOK, Holds, HeadOK, BodyOK, CallOK, Calls, netVars, bufVars, headVars, bodyVars
<1> QED
  BY <1>1, <1>2, <1>3

(* The place in the reply of the next unread byte. *)
Place == got - (end - start) + 1

LEMMA PlaceType ==
  ASSUME NetOK, BufOK, buf # NoBuffer
  PROVE  /\ start \in Nat /\ end \in Nat /\ start <= end /\ end <= BufMax /\ got \in Nat /\ got <= Len(reply.wire)
         /\ end - start \in Nat /\ end - start <= got /\ Place \in Nat /\ Place >= 1 /\ Place + (end - start) = got + 1
         /\ Place - 1 \in Nat
<1>1. start \in Nat /\ end \in Nat /\ start <= end /\ end <= BufMax /\ got \in Nat /\ got <= Len(reply.wire) /\ end - start <= got
  BY DEF BufOK, Holds
<1> QED
  BY <1>1 DEF Place

LEMMA HeadInterimType ==
  ASSUME Types, HeadInterim
  PROVE  Types'
<1> DEFINE length == Min(HeadMarks) + 1
<1>1. /\ call = "head" /\ HeadMarks # {} /\ UNCHANGED <<reply, sent, ended, got, start, state, left, error, whole, size, call, result, parts>>
      /\ buf' = [i \in Slots |-> IF i + length < end THEN buf[i + length] ELSE buf[i]]
      /\ end' = end - length /\ limit' = limit - length /\ scanned' = 0
  BY DEF HeadInterim, HeadMark, netVars, bodyVars, callVars
<1>2. buf # NoBuffer /\ start = 0 /\ limit \in Nat /\ Holds(reply.wire, buf, start, end, got) /\ reply.wire \in Seq(Bytes)
  BY <1>1, Sizes, ReplyType DEF Types, NetOK, BufOK, HeadOK, CallOK
<1>3. length \in Nat /\ length >= 1 /\ length <= end /\ length <= limit
  <2>1. Min(HeadMarks) \in Nat /\ Min(HeadMarks) < end /\ Min(HeadMarks) < limit
    BY <1>1, <1>2, MarksType DEF Types
  <2>2. end \in Nat
    BY <1>2 DEF Holds
  <2> QED
    BY <1>2, <2>1, <2>2
<1> HIDE DEF length
<1>4. BufMax \in Nat /\ (\A i \in Slots : i \in Nat) /\ \A i \in Nat : i < BufMax => i \in Slots
  BY SlotsType
<1>5. start = 0 /\ end \in Nat /\ end <= BufMax /\ got \in Nat /\ got <= Len(reply.wire) /\ end <= got
  BY <1>2 DEF Holds
<1>6. \A i \in Slots : i + length < end => i + length \in Slots /\ buf[i + length] = got - end + 1 + (i + length)
  <2>1. \A i \in Slots : i + length < end => i + length \in Slots /\ 0 <= i + length
    BY <1>3, <1>4, <1>5
  <2> QED
    BY <1>2, <1>5, <2>1 DEF Holds
<1>7. buf' \in [Slots -> 0..Len(reply.wire)]
  BY <1>1, <1>2, <1>6 DEF Holds
<1>8. ASSUME NEW i \in Slots, i < end' PROVE buf'[i] = got - end' + 1 + i
  <2>1. i \in Int /\ length \in Int /\ end \in Int /\ got \in Int
    BY <1>3, <1>4, <1>5
  <2>2. i + length < end
    BY <1>1, <1>8, <2>1
  <2>3. buf'[i] = got - end + 1 + (i + length)
    BY <1>1, <1>6, <2>2
  <2>4. got - end' = got - end + length
    BY <1>1, <2>1
  <2>5. got - end + 1 + (i + length) = (got - end + length) + 1 + i
    BY <2>1
  <2> QED
    BY <2>3, <2>4, <2>5
<1>9. end' \in Nat /\ end' <= BufMax /\ end' <= got /\ 0 <= end' /\ end' - 0 <= got
  BY <1>1, <1>3, <1>4, <1>5
<1>10. Holds(reply.wire, buf', 0, end', got)
  BY <1>5, <1>7, <1>8, <1>9 DEF Holds
<1>11. buf' # NoBuffer
  BY <1>2, <1>7, SlotsType
<1>12. NetOK' /\ BufOK'
  BY <1>1, <1>5, <1>10, <1>11 DEF Types, NetOK, BufOK
<1>13. HeadOK' /\ BodyOK'
  <2>1. limit' \in 0..HeadMax
    BY <1>1, <1>2, <1>3, Sizes DEF Types, HeadOK
  <2> QED
    BY <1>1, <1>5, <1>9, <2>1, Sizes DEF Types, HeadOK, BodyOK
<1>14. CallOK'
  BY <1>1, <1>2, <1>11 DEF Types, CallOK
<1> QED
  BY <1>12, <1>13, <1>14 DEF Types

(* Bytes are taken from the socket, in a head or in a body. *)
LEMMA ReceiveType ==
  ASSUME Types, NEW most \in Nat, Receive(most), UNCHANGED <<reply, sent, ended>>, buf # NoBuffer
  PROVE  NetOK' /\ BufOK' /\ buf' # NoBuffer
<1>1. reply.wire \in Seq(Bytes) /\ Holds(reply.wire, buf, start, end, got) /\ sent \in 0..Len(reply.wire) /\ got \in 0..sent
      /\ Len(reply.wire) \in Nat
  BY ReplyType DEF Types, NetOK, BufOK
<1>2. Holds(reply.wire, buf', start', end', got') /\ got' \in got..sent
  BY <1>1, Received
<1>3. buf' # NoBuffer
  BY <1>1, <1>2, SlotsType DEF Holds
<1>4. got' \in 0..sent
  BY <1>1, <1>2
<1> QED
  BY <1>2, <1>3, <1>4 DEF Types, NetOK, BufOK

LEMMA MoreType ==
  ASSUME Types, HeadMore \/ NextMore
  PROVE  Types'
<1>1. CASE HeadMore
  <2>1. /\ call = "head" /\ Receive(BufMax) /\ scanned' = end
        /\ UNCHANGED <<reply, sent, ended, limit, state, left, error, whole, size, call, result, parts>>
    BY <1>1 DEF HeadMore, netVars, bodyVars, callVars
  <2>2. buf # NoBuffer /\ start = 0
    BY <2>1 DEF Types, CallOK, HeadOK
  <2>3. NetOK' /\ BufOK' /\ buf' # NoBuffer
    BY <2>1, <2>2, Sizes, ReceiveType
  <2>4. start' = 0 /\ end <= end' /\ end \in 0..BufMax
    <3>1. reply.wire \in Seq(Bytes) /\ Holds(reply.wire, buf, start, end, got) /\ sent \in 0..Len(reply.wire)
      BY <2>2, ReplyType DEF Types, NetOK, BufOK
    <3> QED
      BY <2>1, <2>2, <3>1, Received, Sizes DEF Holds
  <2>5. HeadOK' /\ BodyOK' /\ CallOK'
    BY <2>1, <2>2, <2>3, <2>4 DEF Types, HeadOK, BodyOK, CallOK
  <2> QED
    BY <2>3, <2>5 DEF Types
<1>2. CASE NextMore
  <2>1. /\ call = "next" /\ NeedsMore /\ Receive(Most)
        /\ UNCHANGED <<reply, sent, ended, limit, scanned, state, left, error, whole, size, call, result, parts>>
    BY <1>2 DEF NextMore, netVars, headVars, bodyVars, callVars
  <2>2. state \in Reads
    BY <2>1 DEF NeedsMore, Reads
  <2>3. buf # NoBuffer /\ Most \in Nat
    BY <2>2, Sizes DEF Types, CallOK, BodyOK, Most
  <2>4. NetOK' /\ BufOK' /\ buf' # NoBuffer
    BY <2>1, <2>3, ReceiveType
  <2>5. HeadOK' /\ BodyOK' /\ CallOK'
    BY <2>1, <2>2, <2>4 DEF Types, HeadOK, BodyOK, CallOK, Reads
  <2> QED
    BY <2>4, <2>5 DEF Types
<1> QED
  BY <1>1, <1>2

LEMMA HeadFinalType ==
  ASSUME Types, HeadFinal
  PROVE  Types' /\ state' \in {"LENGTH", "CLOSE", "CHUNK_SIZE", "DONE"} /\ buf # NoBuffer
<1>1. /\ call = "head" /\ HeadMarks # {} /\ start' = Min(HeadMarks) + 1 /\ state' = Framed.state /\ left' = Framed.left
      /\ call' = (IF whole THEN "alloc" ELSE "idle") /\ result' = "ok" /\ limit' = 0 /\ scanned' = 0
      /\ UNCHANGED <<reply, sent, ended, got, buf, end, error, whole, size, parts>>
  BY DEF HeadFinal, HeadMark, netVars
<1>2. buf # NoBuffer /\ start = 0 /\ Holds(reply.wire, buf, start, end, got) /\ parts = <<>>
  BY <1>1 DEF Types, BufOK, HeadOK, CallOK
<1>3. start' \in Nat /\ 0 <= start' /\ start' <= end
  <2>1. Min(HeadMarks) \in Nat /\ Min(HeadMarks) < end
    BY <1>1, <1>2, MarksType DEF Types
  <2>2. end \in Nat
    BY <1>2 DEF Holds
  <2> QED
    BY <1>1, <2>1, <2>2
<1>4. Holds(reply.wire, buf, start', end, got)
  BY <1>2, <1>3, SlotsType DEF Holds
<1>5. /\ Framed.state \in {"LENGTH", "CLOSE", "CHUNK_SIZE", "DONE"} /\ Framed.left \in 0..SizeMax
      /\ Framed.state = "LENGTH" => Framed.left > 0
  <2>1. 0 \in 0..SizeMax /\ reply.length \in 0..SizeMax
    BY Sizes, ReplyType DEF Types, NetOK
  <2> QED
    BY <2>1 DEF Framed
<1>6. NetOK' /\ BufOK'
  BY <1>1, <1>2, <1>4 DEF Types, NetOK, BufOK
<1>7. HeadOK' /\ BodyOK'
  BY <1>1, <1>5, Sizes DEF Types, HeadOK, BodyOK, States
<1>8. CallOK'
  BY <1>1, <1>2, <1>5 DEF Types, CallOK, Calls, Results, Reads
<1> QED
  BY <1>1, <1>2, <1>5, <1>6, <1>7, <1>8 DEF Types

(* What a call that returns leaves, and what one that goes on does. *)
LEMMA ReturnType ==
  ASSUME Types, call = "next", UNCHANGED <<reply, sent, ended, got, limit, scanned, whole>>, BufOK', BodyOK',
         buf' # NoBuffer \/ state' \notin Reads, state = "NONE" \/ state' # "NONE",
         size' \in 0..ResponseMax, parts' \in Seq(1..Len(reply.wire)), whole => Len(parts') <= size',
         \/ \E r \in Results \ {"none"} : Return(r)
         \/ UNCHANGED <<call, result>>
  PROVE  Types'
<1>1. NetOK' /\ HeadOK'
  <2>1. call' # "head"
    BY DEF Return
  <2> QED
    BY <2>1 DEF Types, NetOK, HeadOK
<1>2. CASE UNCHANGED <<call, result>>
  <2>1. CallOK'
    BY <1>2 DEF Types, CallOK
  <2> QED
    BY <1>1, <2>1 DEF Types
<1>3. ASSUME NEW r \in Results \ {"none"}, Return(r) PROVE Types'
  <2>1. result' = r /\ call' = IF whole THEN "complete" ELSE "idle"
    BY <1>3 DEF Return
  <2>2. whole => state' # "NONE"
    BY DEF Types, CallOK
  <2>3. CallOK'
    BY <2>1, <2>2 DEF Types, CallOK, Calls
  <2> QED
    BY <1>1, <2>3 DEF Types
<1> QED
  BY <1>2, <1>3

LEMMA NextOverType ==
  ASSUME Types, NextOver
  PROVE  Types'
<1>1. /\ call = "next" /\ state \in {"DONE", "ERROR", "NONE"}
      /\ UNCHANGED <<reply, sent, ended, got, buf, start, end, limit, scanned, state, left, error, whole, size, parts>>
      /\ Return(CASE state = "DONE" -> "end" [] state = "ERROR" -> error [] state = "NONE" -> "PARM")
  BY DEF NextOver, netVars, bufVars, headVars, bodyVars
<1>2. \E r \in Results \ {"none"} : Return(r)
  <2>1. state = "ERROR" => error \in Results \ {"none"}
    BY DEF Types, BodyOK, Errors, Results
  <2> QED
    BY <1>1, <2>1 DEF Results
<1>3. BufOK' /\ BodyOK' /\ state' \notin Reads
  BY <1>1 DEF Types, BufOK, Holds, BodyOK, Reads
<1> QED
  BY <1>1, <1>2, <1>3, ReturnType DEF Types, CallOK

LEMMA NextCutType ==
  ASSUME Types, NEW why \in Outcomes \cup Failures, NextCut(why)
  PROVE  Types'
<1>1. /\ call = "next" /\ NeedsMore /\ Compact /\ UNCHANGED <<reply, sent, ended, got, limit, scanned, left, whole, size, parts>>
  BY DEF NextCut, netVars, headVars, Compact
<1>2. state \in Reads /\ buf # NoBuffer
  BY <1>1 DEF NeedsMore, Reads, Types, CallOK
<1>3. BufOK' /\ buf' # NoBuffer
  <2>1. reply.wire \in Seq(Bytes) /\ Holds(reply.wire, buf, start, end, got)
    BY <1>2, ReplyType DEF Types, NetOK, BufOK
  <2>2. Holds(reply.wire, buf', start', end', got)
    BY <1>1, <2>1, CompactedHolds DEF Compact
  <2>3. buf' # NoBuffer
    BY <2>1, <2>2, SlotsType DEF Holds
  <2> QED
    BY <1>1, <2>2, <2>3 DEF BufOK
<1>4. \/ \E r \in Errors : Fail(r)
      \/ state' = "DONE" /\ UNCHANGED <<error, result, call>>
      \/ (\E r \in Results \ {"none"} : Return(r)) /\ UNCHANGED <<state, error>>
  <2>1. CASE why = "closed" /\ state = "CLOSE"
    BY <2>1 DEF NextCut
  <2>2. CASE why = "closed" /\ state # "CLOSE"
    <3>1. Fail("CONNECTION")
      BY <2>2 DEF NextCut
    <3> QED
      BY <3>1 DEF Errors
  <2>3. CASE why = "TIMEOUT"
    BY <2>3 DEF NextCut, Results, Errors
  <2>4. CASE why \notin {"closed", "TIMEOUT"}
    <3>1. Fail(why)
      BY <2>4 DEF NextCut
    <3>2. why \in Errors
      BY <2>4 DEF Outcomes, Failures, Errors
    <3> QED
      BY <3>1, <3>2
  <2> QED
    BY <2>1, <2>2, <2>3, <2>4
<1>6. ASSUME NEW r \in Errors, Fail(r) PROVE Types'
  <2>1. state' = "ERROR" /\ error' = r /\ Return(r)
    BY <1>6 DEF Fail
  <2>2. BodyOK'
    BY <1>1, <2>1 DEF Types, BodyOK, States
  <2>3. r \in Results \ {"none"}
    BY DEF Results, Errors
  <2> QED
    BY <1>1, <1>3, <2>1, <2>2, <2>3, ReturnType DEF Types, CallOK
<1>7. CASE state' = "DONE" /\ UNCHANGED <<error, result, call>>
  <2>1. BodyOK'
    BY <1>1, <1>7 DEF Types, BodyOK, States
  <2> QED
    BY <1>1, <1>3, <1>7, <2>1, ReturnType DEF Types, CallOK
<1>8. ASSUME NEW r \in Results \ {"none"}, Return(r), UNCHANGED <<state, error>> PROVE Types'
  <2>1. BodyOK'
    BY <1>1, <1>8 DEF Types, BodyOK
  <2>2. state = "NONE" \/ state' # "NONE"
    BY <1>8
  <2> QED
    BY <1>1, <1>3, <1>8, <2>1, <2>2, ReturnType DEF Types, CallOK
<1> QED
  BY <1>4, <1>6, <1>7, <1>8

(* What a caller is given are the next places of the reply. *)
LEMMA PlacesType ==
  ASSUME NEW p \in Nat, NEW n \in Nat
  PROVE  /\ Places(p, p + n - 1) \in Seq(Nat) /\ Len(Places(p, p + n - 1)) = n
         /\ \A k \in 1..n : Places(p, p + n - 1)[k] = p + k - 1
         /\ p >= 1 => \A N \in Nat : p + n - 1 <= N => Places(p, p + n - 1) \in Seq(1..N)
<1>1. (p + n - 1) + 1 - p = n
  OBVIOUS
<1>2. Places(p, p + n - 1) = [k \in 1..n |-> p + k - 1]
  BY <1>1 DEF Places
<1>3. \A k \in 1..n : p + k - 1 \in Nat /\ p <= p + k - 1 /\ p + k - 1 <= p + n - 1
  OBVIOUS
<1>4. ASSUME NEW N \in Nat, p >= 1, p + n - 1 <= N PROVE \A k \in 1..n : p + k - 1 \in 1..N
  BY <1>3, <1>4
<1> QED
  BY <1>2, <1>3, <1>4

LEMMA Joined ==
  ASSUME NEW S, NEW s \in Seq(S), NEW t \in Seq(S)
  PROVE  s \o t \in Seq(S) /\ Len(s \o t) = Len(s) + Len(t)
OBVIOUS

LEMMA GiveIs ==
  ASSUME Types, buf # NoBuffer, NEW n \in Nat, n <= end - start, Give(n)
  PROVE  /\ parts' = parts \o Places(Place, Place + n - 1)
         /\ parts' \in Seq(1..Len(reply.wire)) /\ Len(parts') = Len(parts) + n
<1>1. /\ start \in Nat /\ end \in Nat /\ start <= end /\ got \in Nat /\ got <= Len(reply.wire) /\ Len(reply.wire) \in Nat
      /\ Place \in Nat /\ Place >= 1 /\ Place + (end - start) = got + 1
  BY PlaceType, ReplyType DEF Types, NetOK
<1>2. \A k \in 1..n : buf[start + k - 1] = Place + k - 1
  <2> TAKE k \in 1..n
  <2>1. start + k - 1 \in Nat /\ start <= start + k - 1 /\ start + k - 1 < end
    BY <1>1
  <2>2. buf[start + k - 1] = got - end + 1 + (start + k - 1)
    BY <2>1, ByteIs DEF Types
  <2>3. got - end + 1 + (start + k - 1) = Place + k - 1
    BY <1>1 DEF Place
  <2> QED
    BY <2>2, <2>3
<1>3. (Place + n - 1) + 1 - Place = n /\ Place + n - 1 <= Len(reply.wire)
  BY <1>1
<1>4. [k \in 1..n |-> buf[start + k - 1]] = Places(Place, Place + n - 1)
  BY <1>2, <1>3 DEF Places
<1>5. parts' = parts \o Places(Place, Place + n - 1)
  BY <1>4 DEF Give
<1>6. Places(Place, Place + n - 1) \in Seq(1..Len(reply.wire)) /\ Len(Places(Place, Place + n - 1)) = n
  BY <1>1, <1>3, PlacesType
<1>7. parts \in Seq(1..Len(reply.wire))
  BY DEF Types, CallOK
<1> DEFINE given == Places(Place, Place + n - 1)
<1>8. parts' = parts \o given /\ given \in Seq(1..Len(reply.wire)) /\ Len(given) = n
  BY <1>5, <1>6
<1> HIDE DEF given
<1>9. parts' \in Seq(1..Len(reply.wire)) /\ Len(parts') = Len(parts) + n
  BY <1>7, <1>8, Joined
<1> QED
  BY <1>5, <1>9

LEMMA GrownType ==
  ASSUME Types, NEW n \in Nat, whole, n <= ResponseMax - Len(parts)
  PROVE  Grown(n) \in 0..ResponseMax /\ Len(parts) + n <= Grown(n)
<1>1. Len(parts) \in Nat /\ size \in Nat /\ size <= ResponseMax /\ ResponseMax \in Nat /\ Len(parts) <= size
  BY Sizes DEF Types, CallOK
<1>2. Len(parts) + n <= ResponseMax /\ 0 <= size /\ 2 * size \in Nat /\ 0 <= ResponseMax
  BY <1>1
<1> QED
  BY <1>1, <1>2 DEF Grown, Lesser, Greater

(* How much of the body is at hand. *)
AtHand == IF state = "CLOSE" THEN end - start ELSE Lesser(end - start, left)

LEMMA NextPartIs ==
  ASSUME Types, NextPart
  PROVE  /\ call = "next" /\ state \in {"LENGTH", "CLOSE", "CHUNK_DATA"} /\ buf # NoBuffer
         /\ UNCHANGED <<reply, sent, ended, got, buf, end, limit, scanned, error, whole>>
         /\ AtHand \in Nat /\ AtHand >= 1 /\ AtHand <= end - start /\ (state # "CLOSE" => AtHand <= left)
         /\ start' = start + AtHand /\ left' = (IF state = "CLOSE" THEN left ELSE left - AtHand)
         /\ state' = (IF state = "CLOSE" \/ left' > 0 THEN state ELSE IF state = "LENGTH" THEN "DONE" ELSE "CHUNK_END")
         /\ Taken(AtHand) /\ left' \in 0..SizeMax
         /\ start < end
<1>1. /\ call = "next" /\ state \in {"LENGTH", "CLOSE", "CHUNK_DATA"} /\ start # end
      /\ UNCHANGED <<reply, sent, ended, got, buf, end, limit, scanned, error, whole>>
      /\ start' = start + AtHand /\ left' = (IF state = "CLOSE" THEN left ELSE left - AtHand) /\ Taken(AtHand)
  BY DEF NextPart, NeedsMore, netVars, headVars, AtHand
<1>2. buf # NoBuffer
  BY <1>1 DEF Types, CallOK, Reads
<1>3. start \in Nat /\ end \in Nat /\ start < end /\ left \in Nat /\ left <= SizeMax /\ SizeMax \in Nat
  BY <1>1, <1>2, PlaceType, Sizes DEF Types, BodyOK
<1>4. state # "CLOSE" => left > 0
  BY <1>1 DEF Types, BodyOK
<1>5. AtHand \in Nat /\ AtHand >= 1 /\ AtHand <= end - start /\ (state # "CLOSE" => AtHand <= left)
  BY <1>3, <1>4 DEF AtHand, Lesser
<1>6. left' \in 0..SizeMax
  BY <1>1, <1>3, <1>5
<1>7. state' = IF state = "CLOSE" \/ left' > 0 THEN state ELSE IF state = "LENGTH" THEN "DONE" ELSE "CHUNK_END"
  <2>1. state' = CASE state = "CLOSE" \/ left' > 0 -> state
                [] state = "LENGTH" /\ left' = 0 -> "DONE"
                [] state = "CHUNK_DATA" /\ left' = 0 -> "CHUNK_END"
    BY DEF NextPart
  <2>2. CASE state = "CLOSE" \/ left' > 0
    <3>1. ~(left' > 0 /\ left' = 0)
      BY <1>6
    <3>2. CASE left' > 0
      <4>1. left' # 0
        BY <3>1, <3>2
      <4> QED
        BY <2>1, <2>2, <3>2, <4>1
    <3>3. CASE state = "CLOSE"
      BY <2>1, <3>3
    <3> QED
      BY <2>2, <3>2, <3>3
  <2>3. CASE ~(state = "CLOSE" \/ left' > 0)
    <3>1. left' = 0
      BY <1>6, <2>3
    <3> QED
      BY <1>1, <2>1, <2>3, <3>1
  <2> QED
    BY <2>2, <2>3
<1> QED
  BY <1>1, <1>2, <1>3, <1>5, <1>6, <1>7

LEMMA StartMoves ==
  ASSUME Types, buf # NoBuffer, UNCHANGED <<reply, got, buf, end>>, start' \in start..end
  PROVE  BufOK' /\ buf' # NoBuffer
<1>1. Holds(reply.wire, buf, start, end, got) /\ Len(reply.wire) \in Nat
  BY ReplyType DEF Types, BufOK, NetOK
<1>2. Holds(reply.wire, buf, start', end, got)
  <2>1. start \in Nat /\ end \in Nat /\ got \in Nat /\ start <= end /\ end - start <= got
    BY <1>1 DEF Holds
  <2>4. start' \in Int /\ start <= start' /\ start' <= end
    BY <2>1
  <2>2. start' \in Nat /\ start <= start' /\ start' <= end /\ end - start' <= got
    <3>1. \A a \in Int : start <= a /\ a <= end => a \in Nat /\ end - a <= got
      BY <2>1
    <3> QED
      BY <2>4, <3>1
  <2>3. \A i \in Slots : start' <= i => start <= i
    BY <2>1, <2>2, SlotsType
  <2> QED
    BY <1>1, <2>2, <2>3 DEF Holds
<1> QED
  BY <1>2 DEF BufOK

LEMMA NextPartType ==
  ASSUME Types, NextPart
  PROVE  Types'
<1>1. /\ call = "next" /\ state \in {"LENGTH", "CLOSE", "CHUNK_DATA"} /\ buf # NoBuffer
      /\ UNCHANGED <<reply, sent, ended, got, buf, end, limit, scanned, error, whole>>
      /\ AtHand \in Nat /\ AtHand <= end - start
      /\ start' = start + AtHand /\ Taken(AtHand) /\ left' \in 0..SizeMax
      /\ state' = (IF state = "CLOSE" \/ left' > 0 THEN state ELSE IF state = "LENGTH" THEN "DONE" ELSE "CHUNK_END")
  BY NextPartIs
<1>2. BufOK' /\ buf' # NoBuffer
  <2>1. start' \in start..end
    <3>1. start \in Nat /\ end \in Nat
      BY <1>1, PlaceType DEF Types
    <3> QED
      BY <1>1, <3>1
  <2> QED
    BY <1>1, <2>1, StartMoves
<1>3. BodyOK' /\ state' # "NONE"
  BY <1>1 DEF Types, BodyOK, States
<1>4. size \in 0..ResponseMax /\ parts \in Seq(1..Len(reply.wire)) /\ (whole => Len(parts) <= size)
  BY DEF Types, CallOK
<1>5. \/ UNCHANGED <<parts, size>> /\ \E r \in Results \ {"none"} : Return(r)
      \/ ~whole /\ Give(AtHand) /\ (\E r \in Results \ {"none"} : Return(r)) /\ UNCHANGED size
      \/ whole /\ AtHand <= ResponseMax - Len(parts) /\ Give(AtHand) /\ size' = Grown(AtHand) /\ UNCHANGED <<result, call>>
  <2>1. {"part", "MEMORY", "LENGTH"} \subseteq Results \ {"none"}
    BY DEF Results, Errors
  <2> QED
    BY <1>1, <2>1 DEF Taken
<1>6. CASE UNCHANGED <<parts, size>> /\ \E r \in Results \ {"none"} : Return(r)
  BY <1>1, <1>2, <1>3, <1>4, <1>6, ReturnType
<1>7. CASE ~whole /\ Give(AtHand) /\ (\E r \in Results \ {"none"} : Return(r)) /\ UNCHANGED size
  <2>1. parts' \in Seq(1..Len(reply.wire))
    BY <1>1, <1>7, GiveIs
  <2> QED
    BY <1>1, <1>2, <1>3, <1>4, <1>7, <2>1, ReturnType
<1>8. CASE whole /\ AtHand <= ResponseMax - Len(parts) /\ Give(AtHand) /\ size' = Grown(AtHand) /\ UNCHANGED <<result, call>>
  <2>1. parts' \in Seq(1..Len(reply.wire)) /\ Len(parts') = Len(parts) + AtHand
    BY <1>1, <1>8, GiveIs
  <2>2. Grown(AtHand) \in 0..ResponseMax /\ Len(parts) + AtHand <= Grown(AtHand)
    BY <1>1, <1>8, GrownType
  <2> QED
    BY <1>1, <1>2, <1>3, <1>8, <2>1, <2>2, ReturnType
<1> QED
  BY <1>5, <1>6, <1>7, <1>8

(* What was taken so far may go on in any way. *)
Seen(w) == w \in Seq(Bytes) /\ got <= Len(w) /\ \A i \in 1..got : w[i] = reply.wire[i]

(* An unread byte by its distance from the first one. *)
LEMMA UnreadIs ==
  ASSUME NetOK, BufOK, buf # NoBuffer, NEW w, Seen(w), NEW k \in Nat, k < end - start
  PROVE  /\ Place + k \in 1..got /\ Byte(start + k) = w[Place + k] /\ w[Place + k] \in Bytes
         /\ start + k \in Nat /\ start <= start + k /\ start + k < end
<1>1. /\ start \in Nat /\ end \in Nat /\ start <= end /\ got \in Nat /\ got <= Len(w) /\ Len(w) \in Nat
      /\ Place \in Nat /\ Place >= 1 /\ Place + (end - start) = got + 1
  BY PlaceType DEF Seen
<1>2. start + k \in Nat /\ start <= start + k /\ start + k < end
  BY <1>1
<1>3. got - end + 1 + (start + k) = Place + k
  BY <1>1 DEF Place
<1>4. Place + k \in 1..got /\ Byte(start + k) = reply.wire[Place + k] /\ Byte(start + k) \in Bytes
  <2>1. /\ got - end + 1 + (start + k) \in 1..got
        /\ Byte(start + k) = reply.wire[got - end + 1 + (start + k)] /\ Byte(start + k) \in Bytes
    BY <1>2, ByteIs
  <2> QED
    BY <1>3, <2>1
<1> QED
  BY <1>2, <1>4 DEF Seen

(* The line that the client finds is the reply's. *)
LEMMA LinesAgree ==
  ASSUME NetOK, BufOK, buf # NoBuffer, NEW w, Seen(w), LineFeeds # {}
  PROVE  /\ Place \in 1..Len(w) + 1 /\ LineFeedsAt(w, Place) # {}
         /\ NextAt(w, Place) = Place + (Min(LineFeeds) + 1 - start) /\ NextAt(w, Place) <= got + 1
         /\ Line = LineAt(w, Place)
<1> DEFINE m == Min(LineFeeds)
           k == m - start
           q == Place + k
           n == NextAt(w, Place) - 1
<1>1. /\ start \in Nat /\ end \in Nat /\ start <= end /\ end <= BufMax /\ got \in Nat /\ got <= Len(w) /\ Len(w) \in Nat
      /\ Place \in Nat /\ Place >= 1 /\ Place + (end - start) = got + 1 /\ BufMax \in Nat /\ w \in Seq(Bytes)
  BY PlaceType, Sizes DEF Seen
<1>2. /\ m \in Nat /\ start <= m /\ m < end /\ Byte(m) = "LF"
      /\ \A i \in Nat : start <= i /\ i < end /\ Byte(i) = "LF" => m <= i
  BY LinesType
<1> HIDE DEF m
<1>3. k \in Nat /\ k < end - start /\ start + k = m
  BY <1>1, <1>2
<1>4. q \in 1..got /\ w[q] = "LF" /\ q >= Place
  <2> HIDE DEF k
  <2>1. Place + k \in 1..got /\ Byte(start + k) = w[Place + k]
    BY <1>3, UnreadIs
  <2> QED
    BY <1>1, <1>2, <1>3, <2>1
<1>5. Place \in 1..Len(w) + 1
  BY <1>1
<1>6. q \in LineFeedsAt(w, Place)
  <2>1. q <= Place + BufMax - 1 /\ q <= Len(w)
    BY <1>1, <1>3, <1>4
  <2>2. q \in Place..Lesser(Len(w), Place + BufMax - 1)
    BY <1>1, <1>4, <2>1 DEF Lesser
  <2> QED
    BY <1>4, <2>2 DEF LineFeedsAt
<1>7. n \in Place..Len(w) /\ w[n] = "LF" /\ (\A i \in Place..n - 1 : w[i] # "LF") /\ NextAt(w, Place) = n + 1
  <2>1. LineFeedsAt(w, Place) # {}
    BY <1>6
  <2> QED
    BY <1>1, <1>5, <2>1, LineFeedsType
<1> HIDE DEF n, k, q
<1>8. n <= q
  BY <1>1, <1>4, <1>7
<1>9. ~(n < q)
  <2> SUFFICES ASSUME n < q PROVE FALSE
    OBVIOUS
  <2>1. n - Place \in Nat /\ n - Place < k /\ n - Place < end - start /\ Place + (n - Place) = n
    BY <1>1, <1>3, <1>4, <1>7 DEF q
  <2>2. Byte(start + (n - Place)) = "LF" /\ start + (n - Place) \in Nat /\ start <= start + (n - Place) /\ start + (n - Place) < end
    BY <1>7, <2>1, UnreadIs
  <2>3. m <= start + (n - Place)
    BY <1>2, <2>2
  <2> QED
    BY <1>1, <1>3, <2>1, <2>3
<1>10. n = q
  BY <1>1, <1>4, <1>7, <1>8, <1>9
<1>11. NextAt(w, Place) = Place + (m + 1 - start) /\ NextAt(w, Place) <= got + 1 /\ NextAt(w, Place) - 2 = Place + k - 1
  BY <1>1, <1>2, <1>4, <1>7, <1>10 DEF q, k
<1>12. [j \in 1..k |-> Byte(start + j - 1)] = SubSeq(w, Place, Place + k - 1)
  <2>1. \A j \in 1..k : Byte(start + j - 1) = w[Place + j - 1]
    <3> TAKE j \in 1..k
    <3>1. j - 1 \in Nat /\ j - 1 < end - start /\ start + (j - 1) = start + j - 1 /\ Place + (j - 1) = Place + j - 1
      BY <1>1, <1>3
    <3>2. Byte(start + (j - 1)) = w[Place + (j - 1)]
      BY <3>1, UnreadIs
    <3> QED
      BY <3>1, <3>2
  <2>2. SubSeq(w, Place, Place + k - 1) = [j \in 1..k |-> w[Place + j - 1]]
    <3>1. Place + k - 1 <= Len(w) /\ (Place + k - 1) - Place + 1 = k /\ Place + k - 1 \in Int
      BY <1>1, <1>3
    <3> HIDE DEF Place
    <3>2. \A a, b \in Int : a >= 1 /\ b <= Len(w) => SubSeq(w, a, b) = [j \in 1..(b - a + 1) |-> w[a + j - 1]]
      BY <1>1
    <3> QED
      BY <1>1, <3>1, <3>2
  <2> QED
    BY <2>1, <2>2
<1>13. Line = LineAt(w, Place)
  <2>1. Line = Stripped([j \in 1..k |-> Byte(start + j - 1)])
    BY DEF Line, k, m
  <2> QED
    BY <1>11, <1>12, <2>1 DEF LineAt
<1> QED
  BY <1>5, <1>6, <1>11, <1>13 DEF m

LEMMA SeenReply ==
  ASSUME NetOK
  PROVE  /\ Seen(reply.wire) /\ Seen(SubSeq(reply.wire, 1, sent)) /\ Len(SubSeq(reply.wire, 1, sent)) = sent
<1>1. reply.wire \in Seq(Bytes) /\ sent \in 0..Len(reply.wire) /\ got \in 0..sent /\ Len(reply.wire) \in Nat
  BY ReplyType DEF NetOK
<1>2. SubSeq(reply.wire, 1, sent) \in Seq(Bytes) /\ Len(SubSeq(reply.wire, 1, sent)) = sent
      /\ \A i \in 1..sent : SubSeq(reply.wire, 1, sent)[i] = reply.wire[i]
  BY <1>1
<1> QED
  BY <1>1, <1>2 DEF Seen

LEMMA LineType ==
  ASSUME Types, buf # NoBuffer, LineFeeds # {}
  PROVE  Line \in Seq(Bytes) /\ Min(LineFeeds) + 1 \in start..end /\ Min(LineFeeds) + 1 > start
<1>1. Seen(reply.wire)
  BY SeenReply DEF Types
<1>2. Place \in 1..Len(reply.wire) + 1 /\ LineFeedsAt(reply.wire, Place) # {} /\ Line = LineAt(reply.wire, Place)
  BY <1>1, LinesAgree DEF Types
<1>3. Line \in Seq(Bytes)
  BY <1>1, <1>2, LineFeedsType DEF Seen
<1>4. Min(LineFeeds) \in Nat /\ start <= Min(LineFeeds) /\ Min(LineFeeds) < end
  BY LinesType DEF Types
<1>5. start \in Nat /\ end \in Nat
  BY PlaceType DEF Types
<1> QED
  BY <1>3, <1>4, <1>5

LEMMA NextSizeIs ==
  ASSUME Types, NextSize
  PROVE  /\ call = "next" /\ state = "CHUNK_SIZE" /\ LineFeeds # {} /\ buf # NoBuffer
         /\ UNCHANGED <<reply, sent, ended, got, buf, end, limit, scanned, whole, size, parts>>
         /\ start' = Min(LineFeeds) + 1
         /\ \/ /\ SizeVerdict(Line) = "ok" /\ left' = Hex(SizeDigits(Line)) /\ left' \in 0..SizeMax
               /\ state' = (IF left' > 0 THEN "CHUNK_DATA" ELSE "TRAILER") /\ UNCHANGED <<error, result, call>>
            \/ SizeVerdict(Line) \in {"CONTENT", "LENGTH"} /\ Fail(SizeVerdict(Line)) /\ UNCHANGED left
<1>1. /\ call = "next" /\ state = "CHUNK_SIZE" /\ LineFeeds # {} /\ buf # NoBuffer
      /\ UNCHANGED <<reply, sent, ended, got, buf, end, limit, scanned, whole, size, parts>>
      /\ start' = Min(LineFeeds) + 1
  BY DEF NextSize, NeedsMore, netVars, headVars, Types, CallOK, Reads
<1>2. Line \in Seq(Bytes)
  BY <1>1, LineType
<1>3. /\ SizeVerdict(Line) \in {"CONTENT", "LENGTH", "ok"} /\ Hex(SizeDigits(Line)) \in Nat
      /\ SizeVerdict(Line) = "ok" => /\ ChunkSize(Line) = [error |-> "none", size |-> Hex(SizeDigits(Line))]
                                     /\ Hex(SizeDigits(Line)) <= SizeMax
      /\ SizeVerdict(Line) # "ok" => ChunkSize(Line) = [error |-> SizeVerdict(Line)]
  BY <1>2, ChunkSizeIs
<1>4. IF ChunkSize(Line).error = "none"
         THEN /\ left' = ChunkSize(Line).size
              /\ state' = IF ChunkSize(Line).size > 0 THEN "CHUNK_DATA" ELSE "TRAILER"
              /\ UNCHANGED <<error, result, call>>
         ELSE Fail(ChunkSize(Line).error) /\ UNCHANGED left
  BY DEF NextSize
<1>5. CASE SizeVerdict(Line) = "ok"
  <2>1. ChunkSize(Line).error = "none" /\ ChunkSize(Line).size = Hex(SizeDigits(Line))
    BY <1>3, <1>5
  <2>2. /\ left' = Hex(SizeDigits(Line)) /\ state' = (IF left' > 0 THEN "CHUNK_DATA" ELSE "TRAILER")
        /\ UNCHANGED <<error, result, call>>
    BY <1>4, <2>1
  <2>3. left' \in 0..SizeMax
    BY <1>3, <1>5, <2>2, Sizes
  <2> QED
    BY <1>1, <1>5, <2>2, <2>3
<1>6. CASE SizeVerdict(Line) # "ok"
  <2>1. ChunkSize(Line).error = SizeVerdict(Line) /\ SizeVerdict(Line) \in {"CONTENT", "LENGTH"}
    BY <1>3, <1>6
  <2> QED
    BY <1>1, <1>4, <2>1
<1> QED
  BY <1>5, <1>6

LEMMA FailType ==
  ASSUME Types, call = "next", UNCHANGED <<reply, sent, ended, got, limit, scanned, whole, size, parts, left>>, BufOK',
         buf' # NoBuffer, NEW r \in Errors, Fail(r)
  PROVE  Types'
<1>1. state' = "ERROR" /\ error' = r /\ Return(r) /\ r \in Results \ {"none"}
  BY DEF Fail, Results, Errors
<1>2. BodyOK'
  BY <1>1 DEF Types, BodyOK, States
<1>3. size \in 0..ResponseMax /\ parts \in Seq(1..Len(reply.wire)) /\ (whole => Len(parts) <= size)
  BY DEF Types, CallOK
<1> QED
  BY <1>1, <1>2, <1>3, ReturnType

LEMMA NextSizeType ==
  ASSUME Types, NextSize
  PROVE  Types'
<1>1. /\ call = "next" /\ state = "CHUNK_SIZE" /\ LineFeeds # {} /\ buf # NoBuffer
      /\ UNCHANGED <<reply, sent, ended, got, buf, end, limit, scanned, whole, size, parts>>
      /\ start' = Min(LineFeeds) + 1
      /\ \/ /\ left' \in 0..SizeMax
            /\ state' = (IF left' > 0 THEN "CHUNK_DATA" ELSE "TRAILER") /\ UNCHANGED <<error, result, call>>
         \/ SizeVerdict(Line) \in {"CONTENT", "LENGTH"} /\ Fail(SizeVerdict(Line)) /\ UNCHANGED left
  BY NextSizeIs
<1>2. BufOK' /\ buf' # NoBuffer
  BY <1>1, LineType, StartMoves
<1>3. size \in 0..ResponseMax /\ parts \in Seq(1..Len(reply.wire)) /\ (whole => Len(parts) <= size)
  BY DEF Types, CallOK
<1>4. CASE /\ left' \in 0..SizeMax
           /\ state' = (IF left' > 0 THEN "CHUNK_DATA" ELSE "TRAILER") /\ UNCHANGED <<error, result, call>>
  <2>1. BodyOK' /\ state' # "NONE"
    BY <1>1, <1>4 DEF Types, BodyOK, States
  <2> QED
    BY <1>1, <1>2, <1>3, <1>4, <2>1, ReturnType
<1>5. CASE SizeVerdict(Line) \in {"CONTENT", "LENGTH"} /\ Fail(SizeVerdict(Line)) /\ UNCHANGED left
  <2>1. SizeVerdict(Line) \in Errors
    BY <1>5 DEF Errors
  <2> QED
    BY <1>1, <1>2, <1>5, <2>1, FailType
<1> QED
  BY <1>1, <1>4, <1>5

LEMMA NextChunkEndIs ==
  ASSUME Types, NextChunkEnd
  PROVE  /\ call = "next" /\ state = "CHUNK_END" /\ buf # NoBuffer /\ start + 2 <= end
         /\ UNCHANGED <<reply, sent, ended, got, buf, end, limit, scanned, left, whole, size, parts>>
         /\ \/ /\ Byte(start) = "CR" /\ Byte(start + 1) = "LF"
               /\ start' = start + 2 /\ state' = "CHUNK_SIZE" /\ UNCHANGED <<error, result, call>>
            \/ ~(Byte(start) = "CR" /\ Byte(start + 1) = "LF") /\ Fail("CONTENT") /\ UNCHANGED start
<1>1. /\ call = "next" /\ state = "CHUNK_END" /\ ~(end - start < 2) /\ buf # NoBuffer
  BY DEF NextChunkEnd, NeedsMore, Types, CallOK, Reads
<1>2. start + 2 <= end
  BY <1>1, PlaceType DEF Types
<1> QED
  BY <1>1, <1>2 DEF NextChunkEnd, netVars, headVars

LEMMA NextChunkEndType ==
  ASSUME Types, NextChunkEnd
  PROVE  Types'
<1>1. /\ call = "next" /\ state = "CHUNK_END" /\ buf # NoBuffer /\ start + 2 <= end
      /\ UNCHANGED <<reply, sent, ended, got, buf, end, limit, scanned, left, whole, size, parts>>
      /\ \/ start' = start + 2 /\ state' = "CHUNK_SIZE" /\ UNCHANGED <<error, result, call>>
         \/ Fail("CONTENT") /\ UNCHANGED start
  BY NextChunkEndIs
<1>2. start \in Nat /\ end \in Nat /\ start <= end
  BY <1>1, PlaceType DEF Types
<1>3. start' \in start..end
  BY <1>1, <1>2
<1>4. BufOK' /\ buf' # NoBuffer
  BY <1>1, <1>3, StartMoves
<1>5. size \in 0..ResponseMax /\ parts \in Seq(1..Len(reply.wire)) /\ (whole => Len(parts) <= size)
  BY DEF Types, CallOK
<1>6. CASE start' = start + 2 /\ state' = "CHUNK_SIZE" /\ UNCHANGED <<error, result, call>>
  <2>1. BodyOK' /\ state' # "NONE"
    BY <1>1, <1>6 DEF Types, BodyOK, States
  <2> QED
    BY <1>1, <1>4, <1>5, <1>6, <2>1, ReturnType
<1>7. CASE Fail("CONTENT") /\ UNCHANGED start
  BY <1>1, <1>4, <1>7, FailType DEF Errors
<1> QED
  BY <1>1, <1>6, <1>7

LEMMA NextTrailerIs ==
  ASSUME Types, NextTrailer
  PROVE  /\ call = "next" /\ state = "TRAILER" /\ LineFeeds # {} /\ buf # NoBuffer
         /\ UNCHANGED <<reply, sent, ended, got, buf, end, limit, scanned, left, error, whole, size, call, result, parts>>
         /\ start' = Min(LineFeeds) + 1 /\ state' = (IF Line = <<>> THEN "DONE" ELSE "TRAILER")
BY DEF NextTrailer, NeedsMore, netVars, headVars, callVars, Types, CallOK, Reads

LEMMA NextTrailerType ==
  ASSUME Types, NextTrailer
  PROVE  Types'
<1>1. /\ call = "next" /\ state = "TRAILER" /\ LineFeeds # {} /\ buf # NoBuffer
      /\ UNCHANGED <<reply, sent, ended, got, buf, end, limit, scanned, left, error, whole, size, call, result, parts>>
      /\ start' = Min(LineFeeds) + 1 /\ state' \in {"DONE", "TRAILER"}
  BY NextTrailerIs
<1>2. BufOK' /\ buf' # NoBuffer
  BY <1>1, LineType, StartMoves
<1>3. BodyOK' /\ state' # "NONE"
  BY <1>1 DEF Types, BodyOK, States
<1>4. size \in 0..ResponseMax /\ parts \in Seq(1..Len(reply.wire)) /\ (whole => Len(parts) <= size)
  BY DEF Types, CallOK
<1> QED
  BY <1>1, <1>2, <1>3, <1>4, ReturnType

LEMMA AllocType ==
  ASSUME Types, Alloc
  PROVE  Types'
<1>1. /\ call = "alloc" /\ UNCHANGED <<reply, sent, ended, got, buf, start, end, limit, scanned, state, left, error, whole, parts>>
  BY DEF Alloc, netVars, bufVars, headVars, bodyVars
<1>2. /\ whole /\ buf # NoBuffer /\ state \in Reads \cup {"DONE"} /\ parts = <<>> /\ state # "NONE" /\ result # "none"
  BY <1>1 DEF Types, CallOK, Reads
<1>3. /\ size' \in 0..ResponseMax
      /\ call' \in {"next", "complete"} /\ result' \in Results \ {"none"}
  <2> DEFINE n == IF reply.framing \in {"length", "none"} THEN left ELSE Lesser(ResponseInitial, ResponseMax)
  <2>1. n \in Nat
    BY Sizes DEF Types, BodyOK, Lesser
  <2>2. \/ Return("LENGTH") /\ UNCHANGED size
        \/ Return("MEMORY") /\ UNCHANGED size
        \/ n <= ResponseMax /\ size' = n /\ call' = "next" /\ UNCHANGED result
    BY DEF Alloc
  <2>3. size \in 0..ResponseMax /\ result \in Results
    BY DEF Types, CallOK
  <2> HIDE DEF n
  <2>4. {"LENGTH", "MEMORY"} \subseteq Results \ {"none"}
    BY DEF Results, Errors
  <2> QED
    BY <1>2, <2>1, <2>2, <2>3, <2>4, Sizes DEF Return
<1>4. NetOK' /\ BufOK' /\ HeadOK' /\ BodyOK'
  BY <1>1, <1>3 DEF Types, NetOK, BufOK, Holds, HeadOK, BodyOK
<1>5. CallOK'
  <2>1. Len(parts) <= size'
    BY <1>2, <1>3, Sizes
  <2> QED
    BY <1>1, <1>2, <1>3, <2>1 DEF Types, CallOK, Calls
<1> QED
  BY <1>4, <1>5 DEF Types

LEMMA CompleteType ==
  ASSUME Types, Complete \/ Reconnect
  PROVE  Types'
<1>1. CASE Complete
  <2>1. /\ buf' = NoBuffer /\ start' = 0 /\ end' = 0 /\ state' = "NONE" /\ call' = "idle"
        /\ UNCHANGED <<reply, sent, ended, got, limit, scanned, left, error, whole, size, parts>>
        /\ result' \in {"body", result}
    BY <1>1 DEF Complete, netVars, headVars
  <2>2. result # "none"
    BY <1>1 DEF Complete, Types, CallOK
  <2>3. NetOK' /\ BufOK' /\ HeadOK' /\ BodyOK'
    BY <2>1, Sizes DEF Types, NetOK, BufOK, HeadOK, BodyOK, States
  <2>4. CallOK'
    BY <2>1, <2>2 DEF Types, CallOK, Calls, Results, Reads
  <2> QED
    BY <2>3, <2>4 DEF Types
<1>2. CASE Reconnect
  <2>1. /\ reply' \in Retries /\ sent' = 0 /\ ended' = FALSE /\ got' = 0 /\ buf' = NoBuffer /\ start' = 0 /\ end' = 0
        /\ state' = "NONE" /\ whole' = FALSE /\ size' = 0 /\ call' = "idle" /\ result' = "none" /\ parts' = <<>>
        /\ UNCHANGED <<limit, scanned, left, error>>
    BY <1>2 DEF Reconnect, headVars
  <2>2. NetOK'
    <3>1. Len((reply').wire) \in Nat
      BY <2>1, ReplyType
    <3>2. sent' \in 0..Len((reply').wire) /\ got' \in 0..sent'
      BY <2>1, <3>1
    <3> QED
      BY <2>1, <3>2 DEF NetOK
  <2>4. BufOK' /\ HeadOK' /\ BodyOK'
    BY <2>1, Sizes DEF Types, BufOK, HeadOK, BodyOK, States
  <2>3. CallOK'
    <3>1. Len(<<>>) <= 0 /\ 0 \in 0..ResponseMax /\ <<>> \in Seq(1..Len((reply').wire))
      BY Sizes
    <3> QED
      BY <2>1, <3>1 DEF CallOK, Calls, Results, Reads
  <2> QED
    BY <2>2, <2>3, <2>4 DEF Types
<1> QED
  BY <1>1, <1>2

LEMMA TypesInit == Init => Types
<1> SUFFICES ASSUME Init PROVE Types
  OBVIOUS
<1>1. Len(reply.wire) \in Nat
  BY ReplyType DEF Init
<1>5. reply \in Replies /\ sent = 0 /\ got = 0 /\ parts = <<>> /\ size = 0 /\ call = "idle" /\ result = "none" /\ state = "NONE"
      /\ ended \in BOOLEAN /\ ~ended /\ whole \in BOOLEAN /\ ~whole
  BY DEF Init
<1>2. NetOK
  <2>1. 0 \in 0..Len(reply.wire) /\ 0 \in 0..sent
    BY <1>1, <1>5
  <2> QED
    BY <1>5, <2>1 DEF NetOK
<1>3. BufOK /\ HeadOK /\ BodyOK
  BY Sizes DEF Init, BufOK, HeadOK, BodyOK, States
<1>4. CallOK
  <2>1. <<>> \in Seq(1..Len(reply.wire)) /\ 0 \in 0..ResponseMax
    BY Sizes
  <2> QED
    BY <1>5, <2>1 DEF CallOK, Calls, Results, Reads
<1> QED
  BY <1>2, <1>3, <1>4 DEF Types

LEMMA TypesStep == Types /\ [Next]_vars => Types'
<1> SUFFICES ASSUME Types, [Next]_vars PROVE Types'
  OBVIOUS
<1>1. CASE Network
  BY <1>1, NetworkType
<1>2. CASE Caller
  BY <1>2, ReadResponseType, HeadOverType, CompleteType DEF Caller
<1>3. CASE Client
  <2>1. CASE HeadBad \/ HeadTooLong \/ HeadRefused \/ \E why \in Outcomes : HeadCut(why)
    BY <2>1, HeadOverType
  <2>2. CASE HeadInterim \/ HeadMore \/ HeadFinal \/ NextMore
    BY <2>2, HeadInterimType, HeadFinalType, MoreType
  <2>3. CASE NextOver \/ NextPart \/ NextSize \/ NextChunkEnd \/ NextTrailer \/ Alloc
    BY <2>3, NextOverType, NextPartType, NextSizeType, NextChunkEndType, NextTrailerType, AllocType
  <2>4. CASE \E why \in Outcomes : NextCut(why)
    BY <2>4, NextCutType
  <2> QED
    BY <1>3, <2>1, <2>2, <2>3, <2>4 DEF Client
<1>4. CASE Breaks
  BY <1>4, HeadOverType, NextCutType DEF Breaks
<1>5. CASE Complete
  BY <1>5, CompleteType
<1>6. CASE UNCHANGED vars
  BY <1>6 DEF vars, netVars, bufVars, headVars, bodyVars, callVars, Types, NetOK, BufOK, Holds, HeadOK, BodyOK, CallOK
<1> QED
  BY <1>1, <1>2, <1>3, <1>4, <1>5, <1>6 DEF Next

LEMMA TypesOK == Types => TypeOK
<1> SUFFICES ASSUME Types PROVE TypeOK
  OBVIOUS
<1>1. buf # NoBuffer => buf \in [Slots -> 0..Len(reply.wire)] /\ start <= end /\ start \in 0..BufMax /\ end \in 0..BufMax
  BY Sizes DEF Types, BufOK, Holds
<1> QED
  BY <1>1 DEF TypeOK, Types, NetOK, BufOK, HeadOK, BodyOK, CallOK

LEMMA TypesAlways == Spec => []Types
BY TypesInit, TypesStep, PTL DEF Spec

(* Every variable keeps its type: read_start and read_end stay in order    *)
(* and within read_buffer whatever arrives, and the length of a chunk      *)
(* within what the code's signed results can hold.                         *)
THEOREM TypeCorrect == Spec => []TypeOK
BY TypesAlways, TypesOK, PTL

-----------------------------------------------------------------------------
(* What the rest of the body is, from the state of the reader.             *)

LEMMA ReadingIs ==
  ASSUME NEW b, NEW v
  PROVE  Reading(b, v).body = b /\ Reading(b, v).verdict = v
BY DEF Reading

LEMMA JoinAssoc ==
  ASSUME NEW r \in Seq(Nat), NEW s \in Seq(Nat), NEW t \in Seq(Nat)
  PROVE  (r \o s) \o t = r \o (s \o t)
OBVIOUS

LEMMA SameSeq ==
  ASSUME NEW s \in Seq(Nat), NEW t \in Seq(Nat), Len(s) = Len(t), \A j \in 1..Len(s) : s[j] = t[j]
  PROVE  s = t
OBVIOUS

LEMMA PlacesJoin ==
  ASSUME NEW p \in Nat, NEW n \in Nat, NEW N \in Nat, p + n <= N + 1
  PROVE  /\ Places(p, N) = Places(p, p + n - 1) \o Places(p + n, N)
         /\ Places(p, N) \in Seq(Nat) /\ Places(p, p + n - 1) \in Seq(Nat) /\ Places(p + n, N) \in Seq(Nat)
<1> DEFINE k == N + 1 - (p + n)
           s == Places(p, p + n - 1)
           t == Places(p + n, N)
<1>1. k \in Nat /\ p + (n + k) - 1 = N /\ (p + n) + k - 1 = N /\ n + k \in Nat /\ p + n \in Nat
  OBVIOUS
<1> HIDE DEF k
<1>2. s \in Seq(Nat) /\ Len(s) = n /\ \A j \in 1..n : s[j] = p + j - 1
  BY PlacesType
<1>3. t \in Seq(Nat) /\ Len(t) = k /\ \A j \in 1..k : t[j] = p + n + j - 1
  <2>1. Places(p + n, (p + n) + k - 1) \in Seq(Nat) /\ Len(Places(p + n, (p + n) + k - 1)) = k
        /\ \A j \in 1..k : Places(p + n, (p + n) + k - 1)[j] = (p + n) + j - 1
    BY <1>1, PlacesType
  <2> QED
    BY <1>1, <2>1
<1>4. Places(p, N) \in Seq(Nat) /\ Len(Places(p, N)) = n + k /\ \A j \in 1..n + k : Places(p, N)[j] = p + j - 1
  <2>1. Places(p, p + (n + k) - 1) \in Seq(Nat) /\ Len(Places(p, p + (n + k) - 1)) = n + k
        /\ \A j \in 1..n + k : Places(p, p + (n + k) - 1)[j] = p + j - 1
    BY <1>1, PlacesType
  <2> QED
    BY <1>1, <2>1
<1> DEFINE u == Places(p, N)
<1> HIDE DEF s, t, u
<1>5. u \in Seq(Nat) /\ Len(u) = n + k /\ \A j \in 1..n + k : u[j] = p + j - 1
  BY <1>4 DEF u
<1>6. s \o t \in Seq(Nat) /\ Len(s \o t) = n + k
  BY <1>2, <1>3
<1>7. ASSUME NEW j \in 1..n + k PROVE (s \o t)[j] = u[j]
  <2>1. CASE j <= n
    BY <1>1, <1>2, <1>3, <1>5, <2>1
  <2>2. CASE ~(j <= n)
    <3>1. j - n \in 1..k
      BY <1>1, <2>2
    <3>2. (s \o t)[j] = t[j - n]
      BY <1>2, <1>3, <2>2, <3>1
    <3>3. t[j - n] = p + n + (j - n) - 1
      BY <1>3, <3>1
    <3>4. p + n + (j - n) - 1 = p + j - 1
      OBVIOUS
    <3> QED
      BY <1>5, <3>2, <3>3, <3>4
  <2> QED
    BY <2>1, <2>2
<1>8. s \o t = u
  <2> DEFINE st == s \o t
  <2>1. st \in Seq(Nat) /\ Len(st) = Len(u) /\ \A j \in 1..Len(st) : st[j] = u[j]
    BY <1>5, <1>6, <1>7
  <2> HIDE DEF st
  <2>2. st = u
    BY <1>5, <2>1, SameSeq
  <2> QED
    BY <2>2 DEF st
<1> QED
  BY <1>2, <1>3, <1>5, <1>8 DEF s, t, u

(* Whatever the reply says, its body is a sequence of places. *)
LEMMA RestTypeStep ==
  ASSUME NEW w \in Seq(Bytes), NEW p \in 1..Len(w) + 1,
         \A q \in p + 1..Len(w) + 1 : \A at \in Steps : Rest(w, q, at).body \in Seq(Nat),
         NEW at \in Steps
  PROVE  Rest(w, p, at).body \in Seq(Nat)
<1>1. Len(w) \in Nat /\ p \in Nat
  OBVIOUS
<1>5. \A v : Reading(<<>>, v).body \in Seq(Nat)
  BY DEF Reading
<1>2. CASE at = "end"
  <2>1. Rest(w, p, at) = ReadEnd(w, ReadOf(w), p)
    BY <1>2, RestIs
  <2>2. CASE p + 1 > Len(w)
    BY <1>5, <2>1, <2>2 DEF ReadEnd
  <2>3. CASE ~(p + 1 > Len(w)) /\ w[p] = "CR" /\ w[p + 1] = "LF"
    <3>1. p + 2 \in p + 1..Len(w) + 1
      BY <1>1, <2>3
    <3>2. Rest(w, p, at) = Rest(w, p + 2, "size")
      BY <2>1, <2>3 DEF ReadEnd, Rest
    <3> QED
      BY <3>1, <3>2 DEF Steps
  <2>4. CASE ~(p + 1 > Len(w)) /\ ~(w[p] = "CR" /\ w[p + 1] = "LF")
    BY <1>5, <2>1, <2>4 DEF ReadEnd
  <2> QED
    BY <2>2, <2>3, <2>4
<1>3. CASE at # "end" /\ LineFeedsAt(w, p) = {}
  <2>1. Rest(w, p, at) = NoLine(w, p)
    BY <1>3, RestIs DEF Steps, ReadTrailer, ReadSize
  <2> QED
    BY <1>5, <2>1 DEF NoLine
<1>4. CASE at # "end" /\ LineFeedsAt(w, p) # {}
  <2> DEFINE next == NextAt(w, p)
             n == SizeAt(w, p)
  <2>1. next \in p + 1..Len(w) + 1 /\ n \in Nat
    BY <1>4, LineFeedsType
  <2> HIDE DEF next, n
  <2>2. CASE at = "trailer"
    <3>1. Rest(w, p, at) \in {Reading(<<>>, "end"), Rest(w, next, "trailer")}
      BY <1>4, <2>2, RestIs DEF ReadTrailer, Rest, next
    <3> QED
      BY <1>5, <2>1, <3>1 DEF Steps
  <2>3. CASE at = "size"
    <3>1. Rest(w, p, at) \in {Reading(<<>>, SizeVerdict(LineAt(w, p))), Rest(w, next, "trailer"), ReadData(w, ReadOf(w), next, n)}
      BY <1>4, <2>3, RestIs DEF ReadSize, Rest, next, n
    <3>2. ReadData(w, ReadOf(w), next, n).body \in Seq(Nat) \/ n = 0
      <4>1. next \in Nat /\ next <= Len(w) + 1
        BY <1>1, <2>1
      <4>2. CASE next + n > Len(w) + 1
        <5>1. Places(next, Len(w)) \in Seq(Nat)
          BY <1>1, <4>1, PlacesJoin, next + 0 <= Len(w) + 1
        <5> QED
          BY <4>2, <5>1, ReadingIs DEF ReadData
      <4>3. CASE ~(next + n > Len(w) + 1) /\ n # 0
        <5>1. next + n \in p + 1..Len(w) + 1
          BY <1>1, <2>1, <4>1, <4>3
        <5>2. Rest(w, next + n, "end").body \in Seq(Nat)
          BY <5>1 DEF Steps
        <5>3. Places(next, next + n - 1) \in Seq(Nat)
          BY <2>1, <4>1, PlacesType
        <5>4. ReadData(w, ReadOf(w), next, n).body = Places(next, next + n - 1) \o Rest(w, next + n, "end").body
          BY <4>3, ReadingIs DEF ReadData, Rest
        <5> QED
          BY <5>2, <5>3, <5>4, Joined
      <4> QED
        BY <4>2, <4>3
    <3>3. n = 0 => Rest(w, p, at) \in {Reading(<<>>, SizeVerdict(LineAt(w, p))), Rest(w, next, "trailer")}
      BY <1>4, <2>3, RestIs DEF ReadSize, Rest, next, n
    <3> QED
      BY <1>5, <2>1, <3>1, <3>2, <3>3 DEF Steps
  <2> QED
    BY <1>4, <2>2, <2>3 DEF Steps
<1> QED
  BY <1>2, <1>3, <1>4

LEMMA RestType ==
  ASSUME NEW w \in Seq(Bytes), NEW p \in 1..Len(w) + 1, NEW at \in Steps
  PROVE  Rest(w, p, at).body \in Seq(Nat)
<1> DEFINE n == Len(w) + 1
           Good(q) == \A a \in Steps : Rest(w, q, a).body \in Seq(Nat)
           T == {m \in Nat : \A q \in 1..n : q + m >= n => Good(q)}
<1>1. n \in Nat
  OBVIOUS
<1>2. \A q \in 1..n : (\A r \in q + 1..n : Good(r)) => Good(q)
  BY RestTypeStep
<1> HIDE DEF Good, n
<1>3. 0 \in T
  <2>1. \A q \in 1..n : q + 0 >= n => \A r \in q + 1..n : FALSE
    BY <1>1
  <2> QED
    BY <1>2, <2>1
<1>4. ASSUME NEW m \in Nat, m \in T PROVE m + 1 \in T
  <2>1. \A q \in 1..n : q + (m + 1) >= n => \A r \in q + 1..n : r \in 1..n /\ r + m >= n
    BY <1>1
  <2> QED
    BY <1>2, <1>4, <2>1
<1>5. \A m \in Nat : m \in T => m + 1 \in T
  BY <1>4
<1> HIDE DEF T
<1>6. n \in T
  BY <1>1, <1>3, <1>5, NatInd
<1>7. p \in 1..n /\ p + n >= n
  BY <1>1 DEF n
<1>8. Good(p)
  BY <1>6, <1>7 DEF T
<1> QED
  BY <1>8 DEF Good

(* What is left of the body from place p on, for a reader in state st with *)
(* body_left n, if the reply is w and the connection was closed behind it. *)
LeftAt(st, p, n, w, c) ==
  IF st = "CHUNK_SIZE" THEN Rest(w, p, "size")
  ELSE IF st = "CHUNK_DATA" THEN ReadData(w, ReadOf(w), p, n)
  ELSE IF st = "CHUNK_END" THEN Rest(w, p, "end")
  ELSE IF st = "TRAILER" THEN Rest(w, p, "trailer")
  ELSE IF st = "LENGTH" THEN Reading(Places(p, Lesser(Len(w), p + n - 1)), IF p + n - 1 <= Len(w) THEN "end" ELSE "cut")
  ELSE IF st = "CLOSE" THEN Reading(Places(p, Len(w)), IF c THEN "end" ELSE "cut")
  ELSE Reading(<<>>, "end")

LEMMA LeftIs ==
  ASSUME NEW w \in Seq(Bytes), NEW p, NEW n, NEW c
  PROVE  /\ LeftAt("CHUNK_SIZE", p, n, w, c) = Rest(w, p, "size")
         /\ LeftAt("CHUNK_DATA", p, n, w, c) = ReadData(w, ReadOf(w), p, n)
         /\ LeftAt("CHUNK_END", p, n, w, c) = Rest(w, p, "end")
         /\ LeftAt("TRAILER", p, n, w, c) = Rest(w, p, "trailer")
         /\ LeftAt("LENGTH", p, n, w, c).body = Places(p, Lesser(Len(w), p + n - 1))
         /\ LeftAt("LENGTH", p, n, w, c).verdict = IF p + n - 1 <= Len(w) THEN "end" ELSE "cut"
         /\ LeftAt("CLOSE", p, n, w, c).body = Places(p, Len(w))
         /\ LeftAt("CLOSE", p, n, w, c).verdict = IF c THEN "end" ELSE "cut"
         /\ LeftAt("DONE", p, n, w, c).body = <<>> /\ LeftAt("DONE", p, n, w, c).verdict = "end"
<1>1. /\ LeftAt("CHUNK_SIZE", p, n, w, c) = Rest(w, p, "size")
      /\ LeftAt("CHUNK_DATA", p, n, w, c) = ReadData(w, ReadOf(w), p, n)
      /\ LeftAt("CHUNK_END", p, n, w, c) = Rest(w, p, "end")
      /\ LeftAt("TRAILER", p, n, w, c) = Rest(w, p, "trailer")
  BY DEF LeftAt
<1>2. /\ LeftAt("LENGTH", p, n, w, c) = Reading(Places(p, Lesser(Len(w), p + n - 1)), IF p + n - 1 <= Len(w) THEN "end" ELSE "cut")
      /\ LeftAt("CLOSE", p, n, w, c) = Reading(Places(p, Len(w)), IF c THEN "end" ELSE "cut")
      /\ LeftAt("DONE", p, n, w, c) = Reading(<<>>, "end")
  BY DEF LeftAt
<1> QED
  BY <1>1, <1>2, ReadingIs

LEMMA DataCut ==
  ASSUME NEW w \in Seq(Bytes), NEW p \in Nat, NEW n \in Nat, p + n > Len(w) + 1
  PROVE  /\ ReadData(w, ReadOf(w), p, n).body = Places(p, Len(w))
         /\ ReadData(w, ReadOf(w), p, n).verdict = "cut"
BY ReadingIs DEF ReadData

(* The places p to N fall in two, p to M and q to N. *)
Cuts(p, M, q, N) ==
  p \in Nat /\ M \in Nat /\ q \in Nat /\ N \in Nat /\ q = M + 1 /\ p <= q /\ M <= N

LEMMA PlacesSplit ==
  ASSUME NEW p, NEW M, NEW q, NEW N, Cuts(p, M, q, N)
  PROVE  /\ Places(p, N) = Places(p, M) \o Places(q, N)
         /\ Places(p, N) \in Seq(Nat) /\ Places(p, M) \in Seq(Nat) /\ Places(q, N) \in Seq(Nat)
<1>1. p \in Nat /\ N \in Nat
  BY DEF Cuts
<1>2. PICK n \in Nat : p + n = q /\ p + n - 1 = M /\ p + n <= N + 1
  <2>1. p + (q - p) = q /\ p + (q - p) - 1 = M /\ p + (q - p) <= N + 1 /\ q - p \in Nat
    BY DEF Cuts
  <2> QED
    BY <2>1
<1>3. /\ Places(p, N) = Places(p, p + n - 1) \o Places(p + n, N)
      /\ Places(p, N) \in Seq(Nat) /\ Places(p, p + n - 1) \in Seq(Nat) /\ Places(p + n, N) \in Seq(Nat)
  BY <1>1, <1>2, PlacesJoin
<1> QED
  BY <1>2, <1>3

(* n bytes of data from place p on are all there: the last is at N, and the *)
(* end of the chunk at q.                                                  *)
DataFits(w, p, n, N, q) ==
  w \in Seq(Bytes) /\ p \in Nat /\ n \in Nat /\ N \in Nat /\ q \in Nat /\ q = p + n /\ q = N + 1 /\ N <= Len(w) /\ p >= 1

LEMMA DataWhole ==
  ASSUME NEW w, NEW p, NEW n, NEW N, NEW q, DataFits(w, p, n, N, q)
  PROVE  /\ ReadData(w, ReadOf(w), p, n).body = Places(p, N) \o Rest(w, q, "end").body
         /\ ReadData(w, ReadOf(w), p, n).verdict = Rest(w, q, "end").verdict
         /\ Places(p, N) \in Seq(Nat) /\ Rest(w, q, "end").body \in Seq(Nat)
<1>1. p + n - 1 = N /\ ~(p + n > Len(w) + 1) /\ p + n = q /\ p \in Nat /\ n \in Nat /\ w \in Seq(Bytes) /\ q \in 1..Len(w) + 1
  BY DEF DataFits
<1>2. ReadData(w, ReadOf(w), p, n).body = Places(p, N) \o Rest(w, q, "end").body
  BY <1>1, ReadingIs DEF ReadData, Rest
<1>3. ReadData(w, ReadOf(w), p, n).verdict = Rest(w, q, "end").verdict
  BY <1>1, ReadingIs DEF ReadData, Rest
<1>4. Rest(w, q, "end").body \in Seq(Nat)
  BY <1>1, RestType DEF Steps
<1>5. Places(p, p + n - 1) \in Seq(Nat)
  BY <1>1, PlacesType
<1> QED
  BY <1>1, <1>2, <1>3, <1>4, <1>5

LEMMA DataType ==
  ASSUME NEW w \in Seq(Bytes), NEW p \in Nat, p >= 1, p <= Len(w) + 1, NEW n \in Nat
  PROVE  ReadData(w, ReadOf(w), p, n).body \in Seq(Nat)
<1>1. Len(w) \in Nat
  OBVIOUS
<1>2. CASE p + n > Len(w) + 1
  <2>1. Places(p, Len(w)) \in Seq(Nat)
    BY <1>1, p + 0 <= Len(w) + 1, PlacesJoin
  <2> QED
    BY <1>2, <2>1, DataCut
<1>3. CASE p + n <= Len(w) + 1
  <2>1. PICK N, q : DataFits(w, p, n, N, q)
    <3>1. DataFits(w, p, n, p + n - 1, p + n)
      BY <1>1, <1>3 DEF DataFits
    <3> QED
      BY <3>1
  <2> DEFINE r == Places(p, N)
             t == Rest(w, q, "end").body
  <2>2. ReadData(w, ReadOf(w), p, n).body = r \o t /\ r \in Seq(Nat) /\ t \in Seq(Nat)
    BY <2>1, DataWhole
  <2>3. r \o t \in Seq(Nat)
    <3> HIDE DEF r, t
    <3> QED
      BY <2>2, Joined
  <2> QED
    BY <2>2, <2>3
<1> QED
  BY <1>1, <1>2, <1>3

LEMMA LengthIs ==
  ASSUME NEW w \in Seq(Bytes), NEW p \in Nat, NEW n \in Nat, NEW N \in Nat, p + n - 1 = N, NEW c
  PROVE  /\ LeftAt("LENGTH", p, n, w, c).body = Places(p, Lesser(Len(w), N))
         /\ LeftAt("LENGTH", p, n, w, c).verdict = IF N <= Len(w) THEN "end" ELSE "cut"
<1>1. LeftAt("LENGTH", p, n, w, c) = Reading(Places(p, Lesser(Len(w), p + n - 1)), IF p + n - 1 <= Len(w) THEN "end" ELSE "cut")
  BY DEF LeftAt
<1>2. LeftAt("LENGTH", p, n, w, c) = Reading(Places(p, Lesser(Len(w), N)), IF N <= Len(w) THEN "end" ELSE "cut")
  BY <1>1
<1> QED
  BY <1>2, ReadingIs

LEMMA LeftType ==
  ASSUME NEW w \in Seq(Bytes), NEW p \in Nat, p >= 1, p <= Len(w) + 1, NEW n \in Nat, NEW st \in Reads, NEW c
  PROVE  LeftAt(st, p, n, w, c).body \in Seq(Nat)
<1>1. Len(w) \in Nat /\ p \in 1..Len(w) + 1
  OBVIOUS
<1>2. Places(p, Len(w)) \in Seq(Nat)
  BY <1>1, p + 0 <= Len(w) + 1, PlacesJoin
<1>3. CASE st \in {"CHUNK_SIZE", "CHUNK_END", "TRAILER"}
  BY <1>1, <1>3, LeftIs, RestType DEF Steps
<1>4. CASE st = "CLOSE"
  BY <1>2, <1>4, LeftIs
<1>5. CASE st = "LENGTH"
  <2>1. PICK N \in Nat : p + n - 1 = N
    BY p + n - 1 \in Nat
  <2>2. Places(p, N) \in Seq(Nat)
    <3>1. Places(p, p + n - 1) \in Seq(Nat)
      BY PlacesType
    <3> QED
      BY <2>1, <3>1
  <2>3. Lesser(Len(w), N) \in {Len(w), N}
    BY DEF Lesser
  <2>4. Places(p, Lesser(Len(w), N)) \in Seq(Nat)
    BY <1>2, <2>2, <2>3
  <2>5. LeftAt("LENGTH", p, n, w, c).body = Places(p, Lesser(Len(w), N))
    BY <2>1, LengthIs
  <2> QED
    BY <1>5, <2>4, <2>5
<1>6. CASE st = "CHUNK_DATA"
  BY <1>6, LeftIs, DataType
<1> QED
  BY <1>3, <1>4, <1>5, <1>6 DEF Reads

(* Some bytes of the body are taken, those from p to M, and m of the n that *)
(* were left stay behind them: the reading goes on there.                  *)
Moves(w, p, n, M, q, m) ==
  /\ w \in Seq(Bytes) /\ p \in Nat /\ n \in Nat /\ M \in Nat /\ q \in Nat /\ m \in Nat
  /\ 1 <= p /\ p <= q /\ q = M + 1 /\ M <= Len(w) /\ p + n = q + m

LEMMA CloseGoesOn ==
  ASSUME NEW w \in Seq(Bytes), NEW p, NEW M, NEW q, Cuts(p, M, q, Len(w)), NEW n, NEW c
  PROVE  /\ LeftAt("CLOSE", p, n, w, c).body = Places(p, M) \o LeftAt("CLOSE", q, n, w, c).body
         /\ LeftAt("CLOSE", p, n, w, c).verdict = LeftAt("CLOSE", q, n, w, c).verdict
<1>1. Places(p, Len(w)) = Places(p, M) \o Places(q, Len(w))
  BY PlacesSplit
<1>2. LeftAt("CLOSE", p, n, w, c).body = Places(p, Len(w)) /\ LeftAt("CLOSE", q, n, w, c).body = Places(q, Len(w))
  BY LeftIs
<1>3. LeftAt("CLOSE", p, n, w, c).verdict = LeftAt("CLOSE", q, n, w, c).verdict
  BY LeftIs
<1> QED
  BY <1>1, <1>2, <1>3

LEMMA LengthGoesOn ==
  ASSUME NEW w, NEW p, NEW n, NEW M, NEW q, NEW m, NEW c, Moves(w, p, n, M, q, m), m # 0
  PROVE  /\ LeftAt("LENGTH", p, n, w, c).body = Places(p, M) \o LeftAt("LENGTH", q, m, w, c).body
         /\ LeftAt("LENGTH", p, n, w, c).verdict = LeftAt("LENGTH", q, m, w, c).verdict
<1>0. w \in Seq(Bytes) /\ p \in Nat /\ n \in Nat /\ q \in Nat /\ m \in Nat
  BY DEF Moves
<1>1. PICK N \in Nat : p + n - 1 = N /\ q + m - 1 = N /\ M <= N
  <2>1. p + n - 1 \in Nat /\ q + m - 1 = p + n - 1 /\ M <= p + n - 1
    BY DEF Moves
  <2> QED
    BY <2>1
<1>2. PICK K : K = Lesser(Len(w), N) /\ Cuts(p, M, q, K)
  <2>1. Cuts(p, M, q, Lesser(Len(w), N))
    BY <1>1 DEF Lesser, Moves, Cuts
  <2> QED
    BY <2>1
<1>3. Places(p, K) = Places(p, M) \o Places(q, K)
  <2>1. Cuts(p, M, q, K)
    BY <1>2
  <2> HIDE <1>2
  <2> QED
    BY <2>1, PlacesSplit
<1>4. /\ LeftAt("LENGTH", p, n, w, c).body = Places(p, K)
      /\ LeftAt("LENGTH", p, n, w, c).verdict = IF N <= Len(w) THEN "end" ELSE "cut"
  BY <1>0, <1>1, <1>2, LengthIs
<1>5. /\ LeftAt("LENGTH", q, m, w, c).body = Places(q, K)
      /\ LeftAt("LENGTH", q, m, w, c).verdict = IF N <= Len(w) THEN "end" ELSE "cut"
  BY <1>0, <1>1, <1>2, LengthIs
<1> QED
  BY <1>3, <1>4, <1>5

LEMMA LengthEnds ==
  ASSUME NEW w, NEW p, NEW n, NEW M, NEW q, NEW c, Moves(w, p, n, M, q, 0)
  PROVE  LeftAt("LENGTH", p, n, w, c).body = Places(p, M) /\ LeftAt("LENGTH", p, n, w, c).verdict = "end"
<1>1. /\ Lesser(Len(w), M) = M /\ p + n - 1 = M /\ M <= Len(w)
      /\ w \in Seq(Bytes) /\ p \in Nat /\ n \in Nat /\ M \in Nat
  BY DEF Lesser, Moves
<1> QED
  BY <1>1, LengthIs

LEMMA DataGoesOn ==
  ASSUME NEW w, NEW p, NEW n, NEW M, NEW q, NEW m, NEW c, Moves(w, p, n, M, q, m), m # 0
  PROVE  /\ LeftAt("CHUNK_DATA", p, n, w, c).body = Places(p, M) \o LeftAt("CHUNK_DATA", q, m, w, c).body
         /\ LeftAt("CHUNK_DATA", p, n, w, c).verdict = LeftAt("CHUNK_DATA", q, m, w, c).verdict
<1>0. w \in Seq(Bytes) /\ p \in Nat /\ n \in Nat /\ q \in Nat /\ m \in Nat /\ Len(w) \in Nat /\ p + n = q + m
  BY DEF Moves
<1>1. LeftAt("CHUNK_DATA", p, n, w, c) = ReadData(w, ReadOf(w), p, n) /\ LeftAt("CHUNK_DATA", q, m, w, c) = ReadData(w, ReadOf(w), q, m)
  BY <1>0, LeftIs
<1>2. CASE p + n > Len(w) + 1
  <2>1. /\ ReadData(w, ReadOf(w), p, n).body = Places(p, Len(w)) /\ ReadData(w, ReadOf(w), p, n).verdict = "cut"
        /\ ReadData(w, ReadOf(w), q, m).body = Places(q, Len(w)) /\ ReadData(w, ReadOf(w), q, m).verdict = "cut"
    BY <1>0, <1>2, DataCut
  <2>2. Cuts(p, M, q, Len(w))
    BY DEF Moves, Cuts
  <2>3. Places(p, Len(w)) = Places(p, M) \o Places(q, Len(w))
    BY <2>2, PlacesSplit
  <2> QED
    BY <1>1, <2>1, <2>3
<1>3. CASE p + n <= Len(w) + 1
  <2>1. PICK N, e : DataFits(w, p, n, N, e) /\ DataFits(w, q, m, N, e) /\ Cuts(p, M, q, N)
    <3>1. DataFits(w, p, n, p + n - 1, p + n) /\ DataFits(w, q, m, p + n - 1, p + n) /\ Cuts(p, M, q, p + n - 1)
      BY <1>3 DEF DataFits, Moves, Cuts
    <3> QED
      BY <3>1
  <2> DEFINE r == Places(p, M)
             s == Places(q, N)
             t == Rest(w, e, "end").body
  <2>4. Places(p, N) = r \o s /\ r \in Seq(Nat) /\ s \in Seq(Nat)
    BY <2>1, PlacesSplit
  <2>5. /\ ReadData(w, ReadOf(w), p, n).body = Places(p, N) \o t /\ ReadData(w, ReadOf(w), p, n).verdict = Rest(w, e, "end").verdict
        /\ t \in Seq(Nat)
    BY <2>1, DataWhole
  <2>6. ReadData(w, ReadOf(w), q, m).body = s \o t /\ ReadData(w, ReadOf(w), q, m).verdict = Rest(w, e, "end").verdict
    BY <2>1, DataWhole
  <2>7. (r \o s) \o t = r \o (s \o t)
    <3> HIDE DEF r, s, t
    <3> QED
      BY <2>4, <2>5, JoinAssoc
  <2> QED
    BY <1>1, <2>4, <2>5, <2>6, <2>7
<1> QED
  BY <1>0, <1>2, <1>3

LEMMA DataEnds ==
  ASSUME NEW w, NEW p, NEW n, NEW M, NEW q, NEW c, Moves(w, p, n, M, q, 0)
  PROVE  /\ LeftAt("CHUNK_DATA", p, n, w, c).body = Places(p, M) \o LeftAt("CHUNK_END", q, 0, w, c).body
         /\ LeftAt("CHUNK_DATA", p, n, w, c).verdict = LeftAt("CHUNK_END", q, 0, w, c).verdict
<1>1. w \in Seq(Bytes) /\ DataFits(w, p, n, M, q)
  BY DEF Moves, DataFits
<1>2. LeftAt("CHUNK_DATA", p, n, w, c) = ReadData(w, ReadOf(w), p, n) /\ LeftAt("CHUNK_END", q, 0, w, c) = Rest(w, q, "end")
  BY <1>1, LeftIs
<1>3. /\ ReadData(w, ReadOf(w), p, n).body = Places(p, M) \o Rest(w, q, "end").body
      /\ ReadData(w, ReadOf(w), p, n).verdict = Rest(w, q, "end").verdict
  BY <1>1, DataWhole
<1> QED
  BY <1>2, <1>3

-----------------------------------------------------------------------------
(* A reader that wants more, and gets nothing.                             *)

LEMMA NoLineYet ==
  ASSUME NetOK, BufOK, buf # NoBuffer, NEW w, Seen(w), LineFeeds = {}, Len(w) = got \/ end - start = BufMax
  PROVE  LineFeedsAt(w, Place) = {}
<1> SUFFICES ASSUME LineFeedsAt(w, Place) # {} PROVE FALSE
  OBVIOUS
<1>1. /\ start \in Nat /\ end \in Nat /\ start <= end /\ got \in Nat /\ got <= Len(w) /\ Len(w) \in Nat
      /\ Place \in Nat /\ Place >= 1 /\ Place + (end - start) = got + 1 /\ BufMax \in Nat /\ w \in Seq(Bytes)
  BY PlaceType, Sizes DEF Seen
<1>2. Place \in 1..Len(w) + 1
  BY <1>1
<1>3. PICK m : m \in Place..Len(w) /\ m <= Place + BufMax - 1 /\ w[m] = "LF"
  BY <1>1, <1>2, LineFeedsType
<1>4. m <= got
  BY <1>1, <1>3
<1>5. m - Place \in Nat /\ m - Place < end - start /\ Place + (m - Place) = m
  BY <1>1, <1>3, <1>4
<1>6. Byte(start + (m - Place)) = "LF" /\ start + (m - Place) \in Nat /\ start <= start + (m - Place) /\ start + (m - Place) < end
  BY <1>3, <1>5, UnreadIs
<1> QED
  BY <1>6, LinesType

LEMMA NoLineIs ==
  ASSUME NEW w \in Seq(Bytes), NEW p \in 1..Len(w) + 1, LineFeedsAt(w, p) = {}, NEW st \in {"CHUNK_SIZE", "TRAILER"}, NEW n, NEW c
  PROVE  LeftAt(st, p, n, w, c).verdict = IF Len(w) + 1 - p >= BufMax THEN "LENGTH" ELSE "cut"
<1>1. LeftAt(st, p, n, w, c) = NoLine(w, p)
  BY LeftIs, RestIs DEF ReadSize, ReadTrailer
<1> QED
  BY <1>1, ReadingIs DEF NoLine

(* What has arrived says no more of the reply than the reader knows. *)
LEMMA NothingLeft ==
  ASSUME Types, NeedsMore, NEW w, Seen(w), Len(w) = got, ~Full, NEW c \in BOOLEAN, state = "CLOSE" => ~c
  PROVE  LeftAt(state, Place, left, w, c).verdict = "cut"
<1>1. state \in Reads /\ buf # NoBuffer
  BY DEF NeedsMore, Reads, Types, CallOK
<1>2. /\ start \in Nat /\ end \in Nat /\ start <= end /\ end <= BufMax /\ got \in Nat /\ Len(w) \in Nat
      /\ Place \in Nat /\ Place >= 1 /\ Place + (end - start) = got + 1 /\ BufMax \in Nat /\ w \in Seq(Bytes) /\ left \in Nat
  BY <1>1, PlaceType, Sizes DEF Seen, Types, BodyOK
<1>3. Place \in 1..Len(w) + 1
  BY <1>2
<1>4. CASE state \in {"LENGTH", "CHUNK_DATA", "CLOSE"}
  <2>1. start = end
    BY <1>4 DEF NeedsMore
  <2>2. Place = Len(w) + 1
    BY <1>2, <2>1
  <2>3. CASE state = "CLOSE"
    BY <1>2, <2>3, LeftIs
  <2>4. CASE state = "LENGTH"
    <3>1. left > 0 /\ ~(Place + left - 1 <= Len(w))
      BY <1>2, <2>2, <2>4 DEF Types, BodyOK
    <3> QED
      BY <1>2, <2>4, <3>1, LeftIs
  <2>5. CASE state = "CHUNK_DATA"
    <3>1. left > 0 /\ Place + left > Len(w) + 1
      BY <1>2, <2>2, <2>5 DEF Types, BodyOK
    <3> QED
      BY <1>2, <2>5, <3>1, LeftIs, DataCut
  <2> QED
    BY <1>4, <2>3, <2>4, <2>5
<1>5. CASE state = "CHUNK_END"
  <2>1. end - start < 2
    BY <1>5 DEF NeedsMore
  <2>2. Place + 1 > Len(w)
    BY <1>2, <2>1
  <2>3. LeftAt(state, Place, left, w, c) = Reading(<<>>, "cut")
    BY <1>2, <1>3, <1>5, <2>2, LeftIs, RestIs DEF ReadEnd
  <2> QED
    BY <2>3, ReadingIs
<1>6. CASE state \in {"CHUNK_SIZE", "TRAILER"}
  <2>1. LineFeeds = {}
    BY <1>6 DEF NeedsMore
  <2>2. LineFeedsAt(w, Place) = {}
    BY <1>1, <2>1, NoLineYet DEF Types
  <2>3. ~(Len(w) + 1 - Place >= BufMax)
    BY <1>2 DEF Full
  <2> QED
    BY <1>2, <1>3, <1>6, <2>2, <2>3, NoLineIs
<1> QED
  BY <1>1, <1>4, <1>5, <1>6 DEF Reads

(* A buffer is full only of a line that is too long. *)
LEMMA FullIsTooLong ==
  ASSUME Types, NeedsMore, NEW w, Seen(w), Full, NEW c
  PROVE  LeftAt(state, Place, left, w, c).verdict = "LENGTH"
<1>1. state \in Reads /\ buf # NoBuffer
  BY DEF NeedsMore, Reads, Types, CallOK
<1>2. /\ start = 0 /\ end = BufMax /\ got \in Nat /\ got <= Len(w) /\ Len(w) \in Nat
      /\ Place \in Nat /\ Place >= 1 /\ Place + (end - start) = got + 1 /\ BufMax \in Nat /\ BufMax >= 2 /\ w \in Seq(Bytes)
  BY <1>1, PlaceType, Sizes DEF Seen, Types, Full
<1>3. Place \in 1..Len(w) + 1 /\ end - start = BufMax
  BY <1>2
<1>4. state \in {"CHUNK_SIZE", "TRAILER"} /\ LineFeeds = {}
  BY <1>1, <1>2 DEF NeedsMore, Reads
<1>5. LineFeedsAt(w, Place) = {}
  BY <1>1, <1>3, <1>4, NoLineYet DEF Types
<1>6. Len(w) + 1 - Place >= BufMax
  BY <1>2
<1> QED
  BY <1>2, <1>3, <1>4, <1>5, <1>6, NoLineIs

-----------------------------------------------------------------------------
(* The heads.                                                              *)

Ends == {"bad", "final"}

(* The heads of w end at h. *)
HeadsEnd(w, h) ==
  /\ w \in Seq(Bytes) /\ h \in Nat /\ 1 <= h /\ h <= Len(w) /\ h <= HeadMax
  /\ w[h] \in Ends /\ \A i \in 1..h - 1 : w[i] \notin Ends

LEMMA HeadsEndIs ==
  ASSUME NEW w, NEW h, HeadsEnd(w, h)
  PROVE  HeadEnds(w) # {} /\ Min(HeadEnds(w)) + 1 = h + 1 /\ (h + 1) - 1 = h
<1>1. w \in Seq(Bytes) /\ h \in Nat /\ 1 <= h /\ h <= Len(w) /\ h <= HeadMax /\ Len(w) \in Nat /\ HeadMax \in Nat
  BY Sizes DEF HeadsEnd
<1>2. h \in HeadEnds(w)
  <2>1. h \in 1..Lesser(Len(w), HeadMax)
    BY <1>1 DEF Lesser
  <2> QED
    BY <2>1 DEF HeadEnds, HeadsEnd, Ends
<1>3. \A i \in HeadEnds(w) : i \in Nat /\ h <= i
  <2> TAKE i \in HeadEnds(w)
  <2>1. i \in Nat /\ 1 <= i /\ w[i] \in Ends
    BY <1>1 DEF HeadEnds, Ends, Lesser
  <2>2. ~(i \in 1..h - 1)
    BY <2>1 DEF HeadsEnd
  <2> QED
    BY <1>1, <2>1, <2>2
<1>4. Min(HeadEnds(w)) \in HeadEnds(w) /\ Min(HeadEnds(w)) <= h
  <2>1. HeadEnds(w) \in SUBSET Nat
    BY <1>3
  <2> QED
    BY <1>2, <2>1, MinOf
<1>5. Min(HeadEnds(w)) = h
  BY <1>1, <1>3, <1>4
<1> QED
  BY <1>1, <1>2, <1>5

LEMMA MeaningIs ==
  ASSUME NEW w, NEW h, HeadsEnd(w, h), NEW f, NEW l, NEW c
  PROVE  /\ w[h] = "bad" => Meaning(w, f, l, c) = Reading(<<>>, "HEADER")
         /\ w[h] = "final" =>
              /\ f \in {"HEADER", "CONTENT", "LENGTH"} => Meaning(w, f, l, c) = Reading(<<>>, f)
              /\ f = "none" => Meaning(w, f, l, c) = Reading(<<>>, "end")
              /\ f = "length" => Meaning(w, f, l, c) = LeftAt("LENGTH", h + 1, l, w, c)
              /\ f = "close" => Meaning(w, f, l, c) = LeftAt("CLOSE", h + 1, l, w, c)
              /\ f = "chunked" => Meaning(w, f, l, c) = LeftAt("CHUNK_SIZE", h + 1, 0, w, c)
<1> DEFINE first == Min(HeadEnds(w)) + 1
<1>1. HeadEnds(w) # {} /\ first = h + 1 /\ first - 1 = h
  BY HeadsEndIs
<1>2. Meaning(w, f, l, c) =
        IF w[first - 1] = "bad" THEN Reading(<<>>, "HEADER")
        ELSE CASE f \in {"HEADER", "CONTENT", "LENGTH"} -> Reading(<<>>, f)
               [] f = "none" -> Reading(<<>>, "end")
               [] f = "length" ->
                    Reading(Places(first, Lesser(Len(w), first + l - 1)),
                            IF first + l - 1 <= Len(w) THEN "end" ELSE "cut")
               [] f = "close" -> Reading(Places(first, Len(w)), IF c THEN "end" ELSE "cut")
               [] f = "chunked" -> Chunked(w, first)
  BY <1>1 DEF Meaning
<1> HIDE DEF first
<1>3. Chunked(w, first) = LeftAt("CHUNK_SIZE", first, 0, w, c)
  BY ChunkedIs DEF LeftAt
<1>4. Reading(Places(first, Len(w)), IF c THEN "end" ELSE "cut") = LeftAt("CLOSE", first, l, w, c)
  BY DEF LeftAt
<1>5. Reading(Places(first, Lesser(Len(w), first + l - 1)), IF first + l - 1 <= Len(w) THEN "end" ELSE "cut")
        = LeftAt("LENGTH", first, l, w, c)
  BY DEF LeftAt
<1>6. w[h] = "bad" => Meaning(w, f, l, c) = Reading(<<>>, "HEADER")
  BY <1>1, <1>2
<1>7. ASSUME w[h] = "final" PROVE w[first - 1] # "bad"
  BY <1>1, <1>7
<1>8. w[h] = "final" /\ f \in {"HEADER", "CONTENT", "LENGTH"} => Meaning(w, f, l, c) = Reading(<<>>, f)
  BY <1>2, <1>7
<1>9. w[h] = "final" /\ f = "none" => Meaning(w, f, l, c) = Reading(<<>>, "end")
  BY <1>2, <1>7
<1>10. w[h] = "final" /\ f = "length" => Meaning(w, f, l, c) = LeftAt("LENGTH", first, l, w, c)
  BY <1>2, <1>5, <1>7
<1>11. w[h] = "final" /\ f = "close" => Meaning(w, f, l, c) = LeftAt("CLOSE", first, l, w, c)
  BY <1>2, <1>4, <1>7
<1>12. w[h] = "final" /\ f = "chunked" => Meaning(w, f, l, c) = LeftAt("CHUNK_SIZE", first, 0, w, c)
  BY <1>2, <1>3, <1>7
<1> QED
  BY <1>1, <1>6, <1>8, <1>9, <1>10, <1>11, <1>12

LEMMA MeaningOfNoHead ==
  ASSUME NEW w \in Seq(Bytes), \A i \in Nat : 1 <= i /\ i <= Len(w) /\ i <= HeadMax => w[i] \notin Ends, NEW f, NEW l, NEW c
  PROVE  Meaning(w, f, l, c) = Reading(<<>>, IF Len(w) >= HeadMax THEN "LENGTH" ELSE "cut")
<1>1. HeadEnds(w) = {}
  BY Sizes DEF HeadEnds, Ends, Lesser
<1> QED
  BY <1>1 DEF Meaning

-----------------------------------------------------------------------------
(* What the reader has found of the reply.                                 *)

Says(w, c) == Meaning(w, reply.framing, reply.length, c)
LeftOf(w, c) == LeftAt(state, Place, left, w, c)

(* The body did not fit the caller's memory, and is given up. *)
Lost == call = "complete" /\ result \in {"LENGTH", "MEMORY"}

(* No head has ended yet, and limit is what they may still have. *)
HeadSays ==
  call = "head" =>
    got - end + limit = HeadMax /\ \A i \in 1..got - end + scanned : reply.wire[i] \notin Ends

(* However the reply goes on from what was taken of it: its body is what    *)
(* the caller has and then what the reader's state says is left.           *)
BodySays ==
  state \in Reads /\ ~Lost =>
    \A w : Seen(w) => \A c \in BOOLEAN :
      Says(w, c).body = parts \o LeftOf(w, c).body /\ Says(w, c).verdict = LeftOf(w, c).verdict

DoneSays == state = "DONE" /\ ~Lost => Whole.verdict = "end" /\ parts = Whole.body

ErrorSays ==
  /\ state = "ERROR" /\ error \in {"HEADER", "CONTENT", "LENGTH"} => Whole.verdict = error
  /\ state = "ERROR" /\ error = "CONNECTION" => ended /\ (reply.ending \in {"reset", "urgent"} \/ Whole.verdict = "cut")

(* What a call that has returned said stays true of the reader. *)
ReturnSays ==
  /\ ~whole /\ state # "NONE" =>
       /\ result \in Errors \ {"TIMEOUT"} => state = "ERROR" /\ error = result
       /\ result = "end" => state = "DONE"
  /\ call = "complete" /\ result = "end" => state = "DONE"
  /\ result = "body" => call = "idle" /\ whole /\ state = "NONE" /\ Whole.verdict = "end" /\ parts = Whole.body

Means == HeadSays /\ BodySays /\ DoneSays /\ ErrorSays /\ PartsAreBody /\ ReturnSays

LEMMA MeaningType ==
  ASSUME NEW w \in Seq(Bytes), NEW f \in Framings, NEW l \in Nat, NEW c
  PROVE  Meaning(w, f, l, c).body \in Seq(Nat)
<1>1. Len(w) \in Nat /\ HeadMax \in Nat
  BY Sizes
<1>2. \A v : Reading(<<>>, v).body \in Seq(Nat)
  BY DEF Reading
<1>3. CASE HeadEnds(w) = {}
  BY <1>2, <1>3 DEF Meaning
<1>4. CASE HeadEnds(w) # {}
  <2>1. HeadEnds(w) \in SUBSET Nat
    BY <1>1 DEF HeadEnds, Lesser
  <2> PICK h : h = Min(HeadEnds(w))
    OBVIOUS
  <2>2. h \in HeadEnds(w) /\ \A i \in HeadEnds(w) : h <= i
    BY <2>1, <1>4, MinOf
  <2>3. h \in Nat /\ 1 <= h /\ h <= Len(w) /\ h <= HeadMax /\ w[h] \in Ends
    BY <1>1, <2>2 DEF HeadEnds, Lesser, Ends
  <2>4. ASSUME NEW i \in 1..h - 1 PROVE w[i] \notin Ends
    <3>1. i \in Nat /\ i < h /\ i \in 1..Lesser(Len(w), HeadMax)
      BY <1>1, <2>3 DEF Lesser
    <3>2. i \notin HeadEnds(w)
      BY <2>2, <2>3, <3>1
    <3> QED
      BY <3>1, <3>2 DEF HeadEnds, Ends
  <2>5. HeadsEnd(w, h)
    BY <2>3, <2>4 DEF HeadsEnd
  <2>6. h + 1 \in Nat /\ h + 1 >= 1 /\ h + 1 <= Len(w) + 1
    BY <1>1, <2>3
  <2>7. \A st \in Reads : \A n \in Nat : LeftAt(st, h + 1, n, w, c).body \in Seq(Nat)
    BY <2>6, LeftType
  <2>8. w[h] = "bad" \/ w[h] = "final"
    BY <2>3 DEF Ends
  <2>9. f \in {"HEADER", "CONTENT", "LENGTH"} \/ f \in {"none", "length", "close", "chunked"}
    BY DEF Framings
  <2>10. CASE w[h] = "bad"
    BY <1>2, <2>5, <2>10, MeaningIs
  <2>11. CASE w[h] = "final"
    <3>1. CASE f \in {"HEADER", "CONTENT", "LENGTH"}
      BY <1>2, <2>5, <2>11, <3>1, MeaningIs
    <3>2. CASE f = "none"
      BY <1>2, <2>5, <2>11, <3>2, MeaningIs
    <3>3. CASE f = "length"
      <4>1. LeftAt("LENGTH", h + 1, l, w, c).body \in Seq(Nat)
        BY <2>7 DEF Reads
      <4> QED
        BY <4>1, <2>5, <2>11, <3>3, MeaningIs
    <3>4. CASE f = "close"
      <4>1. LeftAt("CLOSE", h + 1, l, w, c).body \in Seq(Nat)
        BY <2>7 DEF Reads
      <4> QED
        BY <4>1, <2>5, <2>11, <3>4, MeaningIs
    <3>5. CASE f = "chunked"
      <4>1. LeftAt("CHUNK_SIZE", h + 1, 0, w, c).body \in Seq(Nat)
        BY <2>7 DEF Reads
      <4> QED
        BY <4>1, <2>5, <2>11, <3>5, MeaningIs
    <3> QED
      BY <2>9, <3>1, <3>2, <3>3, <3>4, <3>5
  <2> QED
    BY <2>8, <2>10, <2>11
<1> QED
  BY <1>3, <1>4

LEMMA WholeType ==
  ASSUME NetOK
  PROVE  Whole.body \in Seq(Nat) /\ Whole = Says(reply.wire, reply.ending = "close")
         /\ SoFar = Says(SubSeq(reply.wire, 1, sent), ended /\ reply.ending = "close")
<1>1. reply.wire \in Seq(Bytes) /\ reply.framing \in Framings /\ reply.length \in Nat
  BY ReplyType DEF NetOK
<1> QED
  BY <1>1, MeaningType DEF Whole, SoFar, Says

(* How a sequence and what is joined to it are prefixes. *)
LEMMA PrefixOf ==
  ASSUME NEW s \in Seq(Nat), NEW t \in Seq(Nat)
  PROVE  IsPrefix(s, s \o t) /\ IsPrefix(<<>>, s) /\ IsPrefix(s, s) /\ s \o <<>> = s /\ <<>> \o s = s
<1>1. IsPrefix(s, s \o t)
  BY DEF IsPrefix
<1>2. IsPrefix(<<>>, s)
  BY DEF IsPrefix
<1>3. IsPrefix(s, s)
  BY DEF IsPrefix
<1> QED
  BY <1>1, <1>2, <1>3

LEMMA PartsType == ASSUME Types PROVE parts \in Seq(Nat)
<1>1. Len(reply.wire) \in Nat /\ parts \in Seq(1..Len(reply.wire))
  BY ReplyType DEF Types, NetOK, CallOK
<1> QED
  BY <1>1

-----------------------------------------------------------------------------
(* The steps of httpclient_read_head().                                    *)

LEMMA HeadPlace ==
  ASSUME Types, call = "head"
  PROVE  /\ buf # NoBuffer /\ start = 0 /\ scanned \in Nat /\ scanned <= end /\ end \in Nat /\ limit \in Nat
         /\ got \in Nat /\ end <= got /\ Place = got - end + 1 /\ Place \in Nat /\ Place >= 1 /\ end <= BufMax
<1>1. buf # NoBuffer /\ start = 0 /\ scanned \in Nat /\ scanned <= end /\ limit \in Nat
  BY Sizes DEF Types, HeadOK, CallOK
<1>2. NetOK /\ BufOK
  BY DEF Types
<1>3. start \in Nat /\ end \in Nat /\ got \in Nat /\ end - start <= got /\ Place \in Nat /\ Place >= 1 /\ end <= BufMax
  BY <1>1, <1>2, PlaceType
<1> QED
  BY <1>1, <1>3 DEF Place

(* A place before a mark that is not yet to be seen. *)
LEMMA NoMarkBefore ==
  ASSUME Types, HeadSays, call = "head", NEW m \in Nat, m <= end, m <= limit, HeadMarks # {} => m <= Min(HeadMarks),
         NEW w, Seen(w), NEW i \in Nat, 1 <= i, i <= got - end + m
  PROVE  w[i] \notin Ends
<1>1. buf # NoBuffer /\ start = 0 /\ scanned \in Nat /\ scanned <= end /\ end \in Nat /\ limit \in Nat /\ got \in Nat /\ end <= got
  BY HeadPlace
<1>2. i <= got /\ i \in 1..got /\ w[i] = reply.wire[i]
  BY <1>1 DEF Seen
<1>3. CASE i <= got - end + scanned
  <2>1. i \in 1..got - end + scanned
    BY <1>1, <1>3
  <2> QED
    BY <1>2, <2>1 DEF HeadSays
<1>4. CASE i > got - end + scanned
  <2> PICK k \in Int : k = i - (got - end) - 1
    BY <1>1
  <2>1. k \in Nat /\ scanned <= k /\ k < end /\ k < m /\ k < limit /\ got - end + 1 + k = i
    BY <1>1, <1>4
  <2>2. NetOK /\ BufOK /\ HeadOK
    BY DEF Types
  <2>3. Byte(k) = reply.wire[got - end + 1 + k]
    BY <1>1, <2>1, <2>2, ByteIs
  <2>4. Byte(k) = w[i]
    BY <1>2, <2>1, <2>3
  <2>5. k \notin HeadMarks
    <3>1. HeadMarks # {} => \A j \in HeadMarks : Min(HeadMarks) <= j
      BY <1>1, <2>2, MarksType
    <3>2. HeadMarks \in SUBSET Nat /\ (HeadMarks # {} => Min(HeadMarks) \in Nat)
      BY <1>1, <2>2, MarksType
    <3> QED
      BY <2>1, <3>1, <3>2
  <2>6. Byte(k) \notin {"bad", "interim", "final"}
    BY <1>1, <2>1, <2>2, <2>5, MarksType
  <2> QED
    BY <2>4, <2>6 DEF Ends
<1> QED
  BY <1>1, <1>3, <1>4

LEMMA HeadEndsHere ==
  ASSUME Types, HeadSays, call = "head", HeadMarks # {}, Byte(Min(HeadMarks)) \in Ends, NEW w, Seen(w)
  PROVE  /\ HeadsEnd(w, Place + Min(HeadMarks)) /\ w[Place + Min(HeadMarks)] = Byte(Min(HeadMarks))
         /\ Min(HeadMarks) \in Nat /\ Min(HeadMarks) < end
<1>1. buf # NoBuffer /\ start = 0 /\ end \in Nat /\ limit \in Nat /\ got \in Nat /\ end <= got /\ Place = got - end + 1
      /\ Place \in Nat /\ Place >= 1
  BY HeadPlace
<1>2. NetOK /\ BufOK /\ HeadOK
  BY DEF Types
<1> PICK m : m = Min(HeadMarks)
  OBVIOUS
<1>3. m \in Nat /\ m < end /\ m < limit
  BY <1>1, <1>2, MarksType
<1>4. \A i \in Nat : 1 <= i /\ i <= got - end + m => w[i] \notin Ends
  BY <1>3, <1>1, NoMarkBefore
<1> PICK h \in Nat : h = Place + m
  BY <1>1, <1>3
<1>5. Byte(m) = reply.wire[got - end + 1 + m]
  BY <1>1, <1>2, <1>3, ByteIs
<1>6. got - end + 1 + m = h /\ h \in 1..got /\ h <= HeadMax /\ h - 1 = got - end + m
  <2>1. got - end + limit = HeadMax /\ HeadMax \in Nat
    BY Sizes DEF HeadSays
  <2> QED
    BY <1>1, <1>3, <2>1
<1>7. w[h] = Byte(m)
  BY <1>5, <1>6 DEF Seen
<1>8. \A i \in 1..h - 1 : w[i] \notin Ends
  BY <1>4, <1>6
<1>9. w \in Seq(Bytes) /\ got <= Len(w) /\ Len(w) \in Nat
  BY DEF Seen
<1>10. 1 <= h /\ h <= Len(w)
  BY <1>1, <1>6, <1>9
<1>11. HeadsEnd(w, h)
  BY <1>6, <1>7, <1>8, <1>9, <1>10 DEF HeadsEnd
<1> QED
  BY <1>3, <1>7, <1>11

LEMMA NoHeadYet ==
  ASSUME Types, HeadSays, call = "head", HeadMarks = {}, NEW w, Seen(w), NEW f, NEW l, NEW c
  PROVE  /\ end < limit /\ Len(w) = got => Meaning(w, f, l, c).verdict = "cut"
         /\ end >= limit => Meaning(w, f, l, c).verdict = "LENGTH"
<1>1. buf # NoBuffer /\ start = 0 /\ end \in Nat /\ limit \in Nat /\ got \in Nat /\ end <= got
  BY HeadPlace
<1>2. got - end + limit = HeadMax /\ HeadMax \in Nat
  BY Sizes DEF HeadSays
<1>3. w \in Seq(Bytes) /\ got <= Len(w) /\ Len(w) \in Nat
  BY DEF Seen
<1>4. ASSUME end < limit, Len(w) = got PROVE Meaning(w, f, l, c).verdict = "cut"
  <2>1. \A i \in Nat : 1 <= i /\ i <= got - end + end => w[i] \notin Ends
    BY <1>1, <1>4, NoMarkBefore
  <2>2. \A i \in Nat : 1 <= i /\ i <= Len(w) /\ i <= HeadMax => w[i] \notin Ends
    BY <1>1, <1>4, <2>1
  <2>3. ~(Len(w) >= HeadMax)
    BY <1>1, <1>2, <1>4
  <2>4. Meaning(w, f, l, c) = Reading(<<>>, IF Len(w) >= HeadMax THEN "LENGTH" ELSE "cut")
    BY <1>3, <2>2, MeaningOfNoHead
  <2> QED
    BY <2>3, <2>4, ReadingIs
<1>5. ASSUME end >= limit PROVE Meaning(w, f, l, c).verdict = "LENGTH"
  <2>1. \A i \in Nat : 1 <= i /\ i <= got - end + limit => w[i] \notin Ends
    BY <1>1, <1>5, NoMarkBefore
  <2>2. \A i \in Nat : 1 <= i /\ i <= Len(w) /\ i <= HeadMax => w[i] \notin Ends
    BY <1>1, <1>2, <2>1
  <2>3. Len(w) >= HeadMax
    BY <1>1, <1>2, <1>3, <1>5
  <2>4. Meaning(w, f, l, c) = Reading(<<>>, IF Len(w) >= HeadMax THEN "LENGTH" ELSE "cut")
    BY <1>3, <2>2, MeaningOfNoHead
  <2> QED
    BY <2>3, <2>4, ReadingIs
<1> QED
  BY <1>4, <1>5

LEMMA HeadFailsMeans ==
  ASSUME Types, Means, NEW r \in Errors, HeadFails(r), r \in {"HEADER", "CONTENT", "LENGTH"} => Whole.verdict = r,
         r = "CONNECTION" => ended /\ (reply.ending \in {"reset", "urgent"} \/ Whole.verdict = "cut")
  PROVE  Means'
<1>1. /\ state' = "ERROR" /\ error' = r /\ call' = "idle" /\ result' = r
      /\ UNCHANGED <<reply, sent, ended, got, whole, size, parts>>
  BY DEF HeadFails, netVars
<1>2. Whole' = Whole
  BY <1>1 DEF Whole
<1>3. r \notin {"end", "body", "none"}
  BY DEF Errors
<1>4. HeadSays' /\ BodySays' /\ DoneSays'
  BY <1>1 DEF HeadSays, BodySays, DoneSays, Reads
<1>5. ErrorSays'
  BY <1>1, <1>2 DEF ErrorSays
<1>6. PartsAreBody'
  BY <1>1, <1>2 DEF Means, PartsAreBody
<1>7. ReturnSays'
  BY <1>1, <1>3 DEF ReturnSays
<1> QED
  BY <1>4, <1>5, <1>6, <1>7 DEF Means

LEMMA ReadResponseNoMemoryMeans ==
  ASSUME Types, Means, ReadResponseNoMemory
  PROVE  Means'
<1>1. HeadFails("MEMORY") /\ "MEMORY" \in Errors /\ "MEMORY" \notin {"HEADER", "CONTENT", "LENGTH"} /\ "MEMORY" # "CONNECTION"
  BY DEF ReadResponseNoMemory, Errors
<1> QED
  BY <1>1, HeadFailsMeans

LEMMA HeadBadMeans ==
  ASSUME Types, Means, HeadBad
  PROVE  Means'
<1>1. call = "head" /\ HeadMarks # {} /\ Byte(Min(HeadMarks)) = "bad" /\ HeadFails("HEADER") /\ HeadSays /\ NetOK
  BY DEF HeadBad, HeadMark, Means, Types
<1>2. Seen(reply.wire)
  BY <1>1, SeenReply
<1> PICK h : h = Place + Min(HeadMarks)
  OBVIOUS
<1>3. HeadsEnd(reply.wire, h) /\ reply.wire[h] = "bad"
  BY <1>1, <1>2, HeadEndsHere DEF Ends
<1>4. Whole = Reading(<<>>, "HEADER")
  BY <1>3, MeaningIs DEF Whole
<1>5. Whole.verdict = "HEADER" /\ "HEADER" \in Errors
  BY <1>4, ReadingIs DEF Errors
<1> QED
  BY <1>1, <1>5, HeadFailsMeans

LEMMA HeadTooLongMeans ==
  ASSUME Types, Means, HeadTooLong
  PROVE  Means'
<1>1. call = "head" /\ HeadMarks = {} /\ end >= limit /\ HeadFails("LENGTH") /\ HeadSays /\ NetOK
  BY DEF HeadTooLong, Means, Types
<1>2. Seen(reply.wire)
  BY <1>1, SeenReply
<1>3. Whole.verdict = "LENGTH" /\ "LENGTH" \in Errors
  BY <1>1, <1>2, NoHeadYet DEF Whole, Errors
<1> QED
  BY <1>1, <1>3, HeadFailsMeans

LEMMA HeadRefusedMeans ==
  ASSUME Types, Means, HeadRefused
  PROVE  Means'
<1>1. call = "head" /\ HeadMarks # {} /\ Byte(Min(HeadMarks)) = "final" /\ HeadFails(reply.framing) /\ HeadSays /\ NetOK
      /\ reply.framing \in Errors
  BY DEF HeadRefused, HeadMark, Means, Types
<1>2. Seen(reply.wire)
  BY <1>1, SeenReply
<1>3. reply.framing \in {"HEADER", "CONTENT", "LENGTH"}
  <2>1. reply.framing \in Framings
    BY <1>1, ReplyType DEF NetOK
  <2> QED
    BY <1>1, <2>1 DEF Framings, Errors
<1> PICK h : h = Place + Min(HeadMarks)
  OBVIOUS
<1>4. HeadsEnd(reply.wire, h) /\ reply.wire[h] = "final"
  BY <1>1, <1>2, HeadEndsHere DEF Ends
<1>5. Whole = Reading(<<>>, reply.framing)
  BY <1>3, <1>4, MeaningIs DEF Whole
<1>6. Whole.verdict = reply.framing /\ reply.framing # "CONNECTION"
  BY <1>3, <1>5, ReadingIs
<1> QED
  BY <1>1, <1>6, HeadFailsMeans

LEMMA HeadCutMeans ==
  ASSUME Types, Means, NEW why \in Outcomes \cup Failures, HeadCut(why)
  PROVE  Means'
<1>1. call = "head" /\ HeadMarks = {} /\ end < limit /\ HeadSays /\ NetOK /\ Nothing(why)
      /\ HeadFails(IF why = "closed" THEN "CONNECTION" ELSE why)
  BY DEF HeadCut, Means, Types
<1>2. Seen(reply.wire)
  BY <1>1, SeenReply
<1>3. why # "LENGTH"
  <2>1. end <= BufMax /\ limit <= HeadMax /\ HeadMax <= BufMax /\ BufMax \in Nat /\ HeadMax \in Nat /\ end \in Nat /\ limit \in Nat
    BY <1>1, HeadPlace, Sizes DEF Types, HeadOK
  <2>2. end # BufMax
    BY <1>1, <2>1
  <2>3. ~Full
    BY <2>2 DEF Full
  <2> QED
    BY <1>1, <2>3 DEF Nothing, Failures
<1>4. CASE why = "closed"
  <2>1. sent = got /\ ended
    BY <1>1, <1>4 DEF Nothing, Failures
  <2>2. Len(reply.wire) = got
    BY <1>1, <2>1 DEF NetOK
  <2>3. Whole.verdict = "cut"
    BY <1>1, <1>2, <2>2, NoHeadYet DEF Whole
  <2>4. HeadFails("CONNECTION") /\ "CONNECTION" \in Errors /\ "CONNECTION" \notin {"HEADER", "CONTENT", "LENGTH"}
    BY <1>1, <1>4 DEF Errors
  <2> QED
    BY <2>1, <2>3, <2>4, HeadFailsMeans
<1>5. CASE why = "CONNECTION"
  <2>1. ended /\ reply.ending \in {"reset", "urgent"}
    BY <1>1, <1>5 DEF Nothing, Failures
  <2>2. HeadFails("CONNECTION") /\ "CONNECTION" \in Errors /\ "CONNECTION" \notin {"HEADER", "CONTENT", "LENGTH"}
    BY <1>1, <1>5 DEF Errors
  <2> QED
    BY <2>1, <2>2, HeadFailsMeans
<1>6. CASE why \in {"TIMEOUT", "ERROR", "MEMORY"}
  <2>1. HeadFails(why) /\ why \in Errors /\ why \notin {"HEADER", "CONTENT", "LENGTH"} /\ why # "CONNECTION"
    BY <1>1, <1>6 DEF Errors
  <2> QED
    BY <2>1, HeadFailsMeans
<1> QED
  BY <1>3, <1>4, <1>5, <1>6 DEF Outcomes, Failures

LEMMA HeadInterimMeans ==
  ASSUME Types, Means, HeadInterim
  PROVE  Means'
<1> PICK m : m = Min(HeadMarks)
  OBVIOUS
<1>1. /\ call = "head" /\ HeadMarks # {} /\ Byte(m) = "interim"
      /\ end' = end - (m + 1) /\ limit' = limit - (m + 1) /\ scanned' = 0
      /\ UNCHANGED <<reply, sent, ended, got, start, state, left, error, whole, size, call, result, parts>>
  BY DEF HeadInterim, HeadMark, netVars, bodyVars, callVars
<1>2. buf # NoBuffer /\ start = 0 /\ end \in Nat /\ limit \in Nat /\ got \in Nat /\ end <= got /\ state = "NONE"
  BY <1>1, HeadPlace DEF Types, CallOK
<1>3. NetOK /\ BufOK /\ HeadOK /\ HeadSays
  BY DEF Types, Means
<1>4. m \in Nat /\ m < end /\ m < limit
  BY <1>1, <1>2, <1>3, MarksType
<1>5. Seen(reply.wire)
  BY <1>3, SeenReply
<1>6. \A i \in Nat : 1 <= i /\ i <= got - end + m => reply.wire[i] \notin Ends
  BY <1>1, <1>2, <1>3, <1>4, <1>5, NoMarkBefore
<1> PICK h \in Nat : h = got - end + 1 + m
  BY <1>2, <1>4
<1>7. Byte(m) = reply.wire[h]
  BY <1>1, <1>2, <1>3, <1>4, ByteIs
<1>8. reply.wire[h] \notin Ends
  BY <1>1, <1>7 DEF Ends
<1>9. HeadSays'
  <2>1. got - end + limit = HeadMax /\ HeadMax \in Nat
    BY <1>1, <1>3, Sizes DEF HeadSays
  <2>2. got' - end' + limit' = HeadMax /\ got' - end' + scanned' = h
    BY <1>1, <1>2, <1>4, <2>1
  <2>3. ASSUME NEW i \in 1..h PROVE reply.wire[i] \notin Ends
    <3>1. i \in Nat /\ 1 <= i /\ (i = h \/ i <= got - end + m)
      BY <1>2, <1>4
    <3> QED
      BY <1>6, <1>8, <3>1
  <2>4. reply' = reply
    BY <1>1
  <2> QED
    BY <2>2, <2>3, <2>4 DEF HeadSays
<1>10. Whole' = Whole
  BY <1>1 DEF Whole
<1>11. BodySays' /\ DoneSays' /\ ErrorSays'
  BY <1>1, <1>2 DEF BodySays, DoneSays, ErrorSays, Reads
<1>12. PartsAreBody'
  BY <1>1, <1>10 DEF Means, PartsAreBody
<1>13. ReturnSays'
  BY <1>1, <1>2, <1>10 DEF Means, ReturnSays
<1> QED
  BY <1>9, <1>11, <1>12, <1>13 DEF Means

LEMMA SameDistance ==
  ASSUME NEW e \in Nat, NEW g \in Nat, NEW f \in Nat, NEW h \in Nat, (f - 0) - (h - g) = e - 0
  PROVE  h - f = g - e
OBVIOUS

LEMMA BackAgain ==
  ASSUME NEW e \in Nat, NEW g \in Nat, NEW d, d = g - e
  PROVE  d + e = g
OBVIOUS

LEMMA HeadMoreMeans ==
  ASSUME Types, Means, HeadMore
  PROVE  Means'
<1>1. /\ call = "head" /\ HeadMarks = {} /\ end < limit /\ Receive(BufMax) /\ scanned' = end
      /\ UNCHANGED <<reply, sent, ended, limit, state, left, error, whole, size, call, result, parts>>
  BY DEF HeadMore, netVars, bodyVars, callVars
<1>2. buf # NoBuffer /\ start = 0 /\ end \in Nat /\ limit \in Nat /\ got \in Nat /\ end <= got /\ state = "NONE"
  BY <1>1, HeadPlace DEF Types, CallOK
<1>3. NetOK /\ BufOK /\ HeadOK /\ HeadSays /\ BufMax \in Nat /\ HeadMax \in Nat
  BY Sizes DEF Types, Means
<1>4. reply.wire \in Seq(Bytes) /\ Holds(reply.wire, buf, start, end, got) /\ sent \in 0..Len(reply.wire)
  BY <1>2, <1>3, ReplyType DEF NetOK, BufOK
<1>5. /\ Holds(reply.wire, buf', start', end', got')
      /\ (end' - start') - (got' - got) = end - start /\ start' = 0
  BY <1>1, <1>2, <1>3, <1>4, Received
<1>6. end' \in Nat /\ got' \in Nat /\ got' - end' = got - end
  <2>1. end' \in Nat /\ got' \in Nat
    BY <1>5 DEF Holds
  <2>2. (end' - 0) - (got' - got) = end - 0
    BY <1>2, <1>5
  <2> QED
    BY <1>2, <2>1, <2>2, SameDistance
<1>7. \A i \in Nat : 1 <= i /\ i <= got - end + end => reply.wire[i] \notin Ends
  <2>1. Seen(reply.wire)
    BY <1>3, SeenReply
  <2> QED
    BY <1>1, <1>2, <1>3, <2>1, NoMarkBefore
<1>8. HeadSays'
  <2>1. got - end + limit = HeadMax
    BY <1>1, <1>3 DEF HeadSays
  <2>2. got' - end' + limit' = HeadMax
    BY <1>1, <1>6, <2>1
  <2>3. got' - end' + scanned' = got
    <3>1. scanned' = end
      BY <1>1
    <3> QED
      BY <1>2, <1>6, <3>1, BackAgain
  <2>4. \A i \in 1..got : reply.wire[i] \notin Ends
    BY <1>2, <1>7
  <2>5. reply' = reply
    BY <1>1
  <2> QED
    BY <2>2, <2>3, <2>4, <2>5 DEF HeadSays
<1>9. Whole' = Whole
  BY <1>1 DEF Whole
<1>10. BodySays' /\ DoneSays' /\ ErrorSays'
  BY <1>1, <1>2 DEF BodySays, DoneSays, ErrorSays, Reads
<1>11. PartsAreBody'
  BY <1>1, <1>9 DEF Means, PartsAreBody
<1>12. ReturnSays'
  BY <1>1, <1>2, <1>9 DEF Means, ReturnSays
<1> QED
  BY <1>8, <1>10, <1>11, <1>12 DEF Means

(* The framing of the final head is what is left of the body. *)
LEMMA FramedIs ==
  ASSUME Types, HeadFinal, NEW w, NEW h, HeadsEnd(w, h), w[h] = "final", NEW c
  PROVE  /\ state' \in {"LENGTH", "CLOSE", "CHUNK_SIZE", "DONE"}
         /\ Meaning(w, reply.framing, reply.length, c).body = LeftAt(state', h + 1, left', w, c).body
         /\ Meaning(w, reply.framing, reply.length, c).verdict = LeftAt(state', h + 1, left', w, c).verdict
<1>1. reply.framing \in {"none", "length", "close", "chunked"} /\ reply.length \in Nat
  <2>1. reply.framing \in Framings /\ reply.length \in Nat
    BY ReplyType DEF Types, NetOK
  <2>2. reply.framing \notin Errors
    BY DEF HeadFinal
  <2> QED
    BY <2>1, <2>2 DEF Framings, Errors
<1>2. state' = Framed.state /\ left' = Framed.left
  BY DEF HeadFinal
<1>3. w \in Seq(Bytes) /\ h \in Nat /\ 1 <= h /\ h <= Len(w) /\ Len(w) \in Nat
  BY DEF HeadsEnd
<1>4. CASE reply.framing = "chunked"
  <2>1. state' = "CHUNK_SIZE" /\ left' = 0
    BY <1>2, <1>4 DEF Framed
  <2>2. Meaning(w, reply.framing, reply.length, c) = LeftAt("CHUNK_SIZE", h + 1, 0, w, c)
    BY <1>4, MeaningIs
  <2> QED
    BY <2>1, <2>2
<1>5. CASE reply.framing = "close"
  <2>1. state' = "CLOSE"
    BY <1>2, <1>5 DEF Framed
  <2>2. Meaning(w, reply.framing, reply.length, c) = LeftAt("CLOSE", h + 1, reply.length, w, c)
    BY <1>5, MeaningIs
  <2>3. LeftAt("CLOSE", h + 1, reply.length, w, c) = LeftAt("CLOSE", h + 1, left', w, c)
    BY DEF LeftAt
  <2> QED
    BY <2>1, <2>2, <2>3
<1>6. CASE reply.framing = "none"
  <2>1. state' = "DONE"
    BY <1>2, <1>6 DEF Framed
  <2>2. Meaning(w, reply.framing, reply.length, c) = Reading(<<>>, "end")
    BY <1>6, MeaningIs
  <2> QED
    BY <1>3, <2>1, <2>2, LeftIs, ReadingIs
<1>7. CASE reply.framing = "length" /\ reply.length > 0
  <2>1. state' = "LENGTH" /\ left' = reply.length
    BY <1>2, <1>7 DEF Framed
  <2>2. Meaning(w, reply.framing, reply.length, c) = LeftAt("LENGTH", h + 1, reply.length, w, c)
    BY <1>7, MeaningIs
  <2> QED
    BY <2>1, <2>2
<1>8. CASE reply.framing = "length" /\ ~(reply.length > 0)
  <2>1. state' = "DONE" /\ reply.length = 0
    BY <1>1, <1>2, <1>8 DEF Framed
  <2>2. Meaning(w, reply.framing, reply.length, c) = LeftAt("LENGTH", h + 1, 0, w, c)
    BY <1>8, <2>1, MeaningIs
  <2> PICK p \in Nat : p = h + 1
    BY <1>3
  <2>3. Moves(w, p, 0, h, p, 0)
    BY <1>3 DEF Moves
  <2>4. LeftAt("LENGTH", p, 0, w, c).body = Places(p, h) /\ LeftAt("LENGTH", p, 0, w, c).verdict = "end"
    BY <2>3, LengthEnds
  <2>5. Places(p, h) = <<>>
    <3>1. Places(p, p + 0 - 1) \in Seq(Nat) /\ Len(Places(p, p + 0 - 1)) = 0
      BY PlacesType
    <3>2. p + 0 - 1 = h
      BY <1>3
    <3> QED
      BY <3>1, <3>2
  <2>6. LeftAt("DONE", p, left', w, c).body = <<>> /\ LeftAt("DONE", p, left', w, c).verdict = "end"
    BY <1>3, LeftIs
  <2> QED
    BY <2>1, <2>2, <2>4, <2>5, <2>6
<1> QED
  BY <1>1, <1>4, <1>5, <1>6, <1>7, <1>8, HeadFinalType

LEMMA HeadFinalMeans ==
  ASSUME Types, Means, HeadFinal
  PROVE  Means'
<1> PICK m : m = Min(HeadMarks)
  OBVIOUS
<1>1. /\ call = "head" /\ HeadMarks # {} /\ Byte(m) = "final" /\ start' = m + 1
      /\ call' = (IF whole THEN "alloc" ELSE "idle") /\ result' = "ok"
      /\ UNCHANGED <<reply, sent, ended, got, buf, end, error, whole, size, parts>>
  BY DEF HeadFinal, HeadMark, netVars
<1>2. /\ buf # NoBuffer /\ start = 0 /\ end \in Nat /\ got \in Nat /\ end <= got /\ parts = <<>>
      /\ Place = got - end + 1 /\ Place \in Nat /\ Place >= 1
  BY <1>1, HeadPlace DEF Types, CallOK
<1>3. NetOK /\ BufOK /\ HeadOK /\ HeadSays
  BY DEF Types, Means
<1>4. m \in Nat /\ m < end
  BY <1>1, <1>2, <1>3, MarksType
<1> PICK h \in Nat : h = Place + m
  BY <1>2, <1>4
<1>5. h \in Nat /\ Place' = h + 1 /\ h >= 1 /\ h <= got
  BY <1>1, <1>2, <1>4 DEF Place
<1>6. ASSUME NEW w, Seen(w) PROVE HeadsEnd(w, h) /\ w[h] = "final"
  BY <1>1, <1>3, <1>6, HeadEndsHere DEF Ends
<1>7. state' \in {"LENGTH", "CLOSE", "CHUNK_SIZE", "DONE"} /\ left' \in Nat
  <2>1. Types' /\ state' \in {"LENGTH", "CLOSE", "CHUNK_SIZE", "DONE"}
    BY HeadFinalType
  <2> QED
    BY <2>1, Sizes DEF Types, BodyOK
<1>8. ASSUME NEW w, Seen(w), NEW c
      PROVE  /\ Says(w, c)' = Says(w, c) /\ LeftOf(w, c)' = LeftAt(state', h + 1, left', w, c)
             /\ Says(w, c).body = LeftAt(state', h + 1, left', w, c).body
             /\ Says(w, c).verdict = LeftAt(state', h + 1, left', w, c).verdict
  <2>1. Says(w, c)' = Says(w, c)
    BY <1>1 DEF Says
  <2>2. LeftOf(w, c)' = LeftAt(state', h + 1, left', w, c)
    BY <1>5 DEF LeftOf
  <2> QED
    BY <1>6, <1>8, <2>1, <2>2, FramedIs DEF Says
<1>9. BodySays'
  <2> SUFFICES ASSUME state' \in Reads, NEW w, Seen(w)', NEW c \in BOOLEAN
               PROVE  (Says(w, c).body = parts \o LeftOf(w, c).body /\ Says(w, c).verdict = LeftOf(w, c).verdict)'
    BY DEF BodySays
  <2>1. Seen(w) /\ parts' = <<>>
    BY <1>1, <1>2 DEF Seen
  <2>2. LeftAt(state', h + 1, left', w, c).body \in Seq(Nat)
    <3>1. w \in Seq(Bytes) /\ h + 1 \in Nat /\ h + 1 >= 1 /\ h + 1 <= Len(w) + 1
      BY <1>2, <1>5, <2>1 DEF Seen
    <3> QED
      BY <1>7, <3>1, LeftType
  <2>3. Says(w, c)'.body = <<>> \o LeftAt(state', h + 1, left', w, c).body
    BY <1>8, <2>1, <2>2
  <2> QED
    BY <1>8, <2>1, <2>3
<1>10. Whole' = Whole
  BY <1>1 DEF Whole
<1>11. DoneSays'
  <2> SUFFICES ASSUME state' = "DONE" PROVE Whole.verdict = "end" /\ <<>> = Whole.body
    BY <1>1, <1>2, <1>10 DEF DoneSays
  <2>1. Seen(reply.wire)
    BY <1>3, SeenReply
  <2> PICK c : c = (reply.ending = "close")
    OBVIOUS
  <2>2. Whole = Says(reply.wire, c)
    BY DEF Whole, Says
  <2>3. reply.wire \in Seq(Bytes)
    BY <2>1 DEF Seen
  <2> QED
    BY <1>8, <2>1, <2>2, <2>3, LeftIs
<1>12. ErrorSays' /\ HeadSays'
  BY <1>1, <1>7 DEF ErrorSays, HeadSays
<1>13. PartsAreBody'
  BY <1>1, <1>10 DEF Means, PartsAreBody
<1>14. ReturnSays'
  BY <1>1 DEF ReturnSays, Errors
<1> QED
  BY <1>9, <1>11, <1>12, <1>13, <1>14 DEF Means

-----------------------------------------------------------------------------
(* The steps that read nothing of a body.                                  *)

LEMMA StaysMeans ==
  ASSUME Types, Means, UNCHANGED <<reply, state, left, error, parts>>, ended => ended',
         \A w : Seen(w)' => Seen(w), state \in Reads => Place' = Place,
         call' # "head" \/ UNCHANGED <<got, end, limit, scanned, call>>, ~Lost' => ~Lost, ReturnSays'
  PROVE  Means'
<1>1. Whole' = Whole
  BY DEF Whole
<1>2. HeadSays'
  BY DEF HeadSays, Means
<1>3. BodySays'
  <2> SUFFICES ASSUME state \in Reads, ~Lost', NEW w, Seen(w)', NEW c \in BOOLEAN
               PROVE  (Says(w, c).body = parts \o LeftOf(w, c).body /\ Says(w, c).verdict = LeftOf(w, c).verdict)'
    BY DEF BodySays
  <2>1. Seen(w) /\ ~Lost /\ Place' = Place
    OBVIOUS
  <2>2. Says(w, c)' = Says(w, c) /\ LeftOf(w, c)' = LeftOf(w, c)
    BY <2>1 DEF Says, LeftOf
  <2>3. Says(w, c).body = parts \o LeftOf(w, c).body /\ Says(w, c).verdict = LeftOf(w, c).verdict
    BY <2>1 DEF Means, BodySays
  <2> QED
    BY <2>2, <2>3
<1>4. DoneSays'
  <2> SUFFICES ASSUME state' = "DONE", ~Lost' PROVE Whole'.verdict = "end" /\ parts' = Whole'.body
    BY DEF DoneSays
  <2> QED
    BY <1>1 DEF Means, DoneSays
<1>5. ErrorSays'
  BY <1>1 DEF Means, ErrorSays
<1>6. PartsAreBody'
  BY <1>1 DEF Means, PartsAreBody
<1> QED
  BY <1>2, <1>3, <1>4, <1>5, <1>6 DEF Means

LEMMA NetworkMeans ==
  ASSUME Types, Means, Network
  PROVE  Means'
<1>1. UNCHANGED <<reply, got, buf, start, end, limit, scanned, state, left, error, whole, size, call, result, parts>>
      /\ (ended => ended')
  BY DEF Network, Arrive, ArriveEnding, bufVars, headVars, bodyVars, callVars, Types, NetOK
<1>2. \A w : Seen(w)' => Seen(w)
  BY <1>1 DEF Seen
<1>3. Place' = Place /\ (~Lost' => ~Lost) /\ Whole' = Whole
  BY <1>1 DEF Place, Lost, Whole
<1>4. ReturnSays'
  BY <1>1, <1>3 DEF Means, ReturnSays
<1> QED
  BY <1>1, <1>2, <1>3, <1>4, StaysMeans

LEMMA ReadResponseMeans ==
  ASSUME Types, Means, ReadResponse
  PROVE  Means'
<1>1. /\ call = "idle" /\ result = "none" /\ end' = 0 /\ limit' = HeadMax /\ scanned' = 0
      /\ UNCHANGED <<reply, ended, got, state, error, parts, result>>
  BY DEF ReadResponse, netVars, bodyVars
<1>2. got = 0 /\ state = "NONE"
  BY <1>1 DEF Types, CallOK
<1>3. HeadSays'
  BY <1>1, <1>2, Sizes DEF HeadSays
<1>4. Whole' = Whole
  BY <1>1 DEF Whole
<1>5. BodySays' /\ DoneSays' /\ ErrorSays'
  BY <1>1, <1>2 DEF BodySays, DoneSays, ErrorSays, Reads
<1>6. PartsAreBody'
  BY <1>1, <1>4 DEF Means, PartsAreBody
<1>7. ReturnSays'
  BY <1>1, <1>2 DEF ReturnSays
<1> QED
  BY <1>3, <1>5, <1>6, <1>7 DEF Means

LEMMA ReadNextMeans ==
  ASSUME Types, Means, ReadNext \/ ReadResponseTooEarly
  PROVE  Means'
<1>1. /\ call = "idle" /\ call' \in {"next", "idle"} /\ result' \in {result, "PARM"} /\ (result' = result => ~whole \/ result = "PARM")
      /\ UNCHANGED <<reply, sent, ended, got, buf, start, end, limit, scanned, state, left, error, whole, size, parts>>
  BY DEF ReadNext, ReadResponseTooEarly, netVars, bufVars, headVars, bodyVars
<1>2. \A w : Seen(w)' => Seen(w)
  BY <1>1 DEF Seen
<1>3. Place' = Place /\ ~Lost /\ Whole' = Whole
  BY <1>1 DEF Place, Lost, Whole
<1>4. call' # "head"
  BY <1>1
<1>5. ReturnSays'
  BY <1>1, <1>3 DEF Means, ReturnSays, Errors
<1> QED
  BY <1>1, <1>2, <1>3, <1>4, <1>5, StaysMeans

LEMMA NextOverMeans ==
  ASSUME Types, Means, NextOver
  PROVE  Means'
<1>1. /\ call = "next" /\ state \in {"DONE", "ERROR", "NONE"}
      /\ result' = (CASE state = "DONE" -> "end" [] state = "ERROR" -> error [] state = "NONE" -> "PARM")
      /\ call' = (IF whole THEN "complete" ELSE "idle")
      /\ UNCHANGED <<reply, sent, ended, got, buf, start, end, limit, scanned, state, left, error, whole, size, parts>>
  BY DEF NextOver, Return, netVars, bufVars, headVars, bodyVars
<1>2. \A w : Seen(w)' => Seen(w)
  BY <1>1 DEF Seen
<1>3. Place' = Place /\ ~Lost
  BY <1>1 DEF Place, Lost
<1>4. call' # "head"
  BY <1>1
<1>5. ReturnSays'
  <2>1. state = "ERROR" => error \in Errors
    BY DEF Types, BodyOK
  <2>2. "end" \notin Errors /\ "PARM" \notin Errors /\ "body" \notin Errors
    BY DEF Errors
  <2>3. state = "DONE" \/ state = "ERROR" \/ state = "NONE"
    BY <1>1
  <2>4. CASE state = "DONE"
    <3>1. result' = "end" /\ state' = "DONE"
      BY <1>1, <2>4
    <3> QED
      BY <2>2, <3>1 DEF ReturnSays
  <2>5. CASE state = "ERROR"
    <3>1. result' = error /\ state' = "ERROR" /\ error' = error
      BY <1>1, <2>5
    <3> QED
      BY <2>1, <2>2, <2>5, <3>1 DEF ReturnSays
  <2>6. CASE state = "NONE"
    <3>1. result' = "PARM"
      BY <1>1, <2>6
    <3> QED
      BY <2>2, <3>1 DEF ReturnSays
  <2> QED
    BY <2>3, <2>4, <2>5, <2>6
<1> QED
  BY <1>1, <1>2, <1>3, <1>4, <1>5, StaysMeans

LEMMA AllocMeans ==
  ASSUME Types, Means, Alloc
  PROVE  Means'
<1>1. /\ call = "alloc" /\ UNCHANGED <<reply, sent, ended, got, buf, start, end, limit, scanned, state, left, error, whole, parts>>
      /\ ((call' = "complete" /\ result' \in {"LENGTH", "MEMORY"}) \/ (call' = "next" /\ result' = result))
  <2>1. whole /\ call = "alloc"
    BY DEF Alloc, Types, CallOK
  <2> QED
    BY <2>1 DEF Alloc, Return, netVars, bufVars, headVars, bodyVars
<1>2. \A w : Seen(w)' => Seen(w)
  BY <1>1 DEF Seen
<1>3. Place' = Place /\ ~Lost
  BY <1>1 DEF Place, Lost
<1>4. call' # "head"
  BY <1>1
<1>5. ReturnSays'
  <2>1. whole
    BY <1>1 DEF Types, CallOK
  <2>2. result # "body"
    BY <1>1 DEF Means, ReturnSays
  <2>3. whole'
    BY <1>1, <2>1
  <2>4. result' # "body" /\ (call' = "complete" => result' # "end")
    BY <1>1, <2>2
  <2> QED
    BY <2>3, <2>4 DEF ReturnSays
<1> QED
  BY <1>1, <1>2, <1>3, <1>4, <1>5, StaysMeans

LEMMA CompleteMeans ==
  ASSUME Types, Means, Complete
  PROVE  Means'
<1>1. /\ call = "complete" \/ (call = "idle" /\ ~whole /\ state # "NONE")
      /\ state' = "NONE" /\ call' = "idle"
      /\ result' = (IF call = "complete" /\ result = "end" THEN "body" ELSE result)
      /\ UNCHANGED <<reply, sent, ended, got, left, error, whole, parts>>
  BY DEF Complete, netVars
<1>2. Whole' = Whole
  BY <1>1 DEF Whole
<1>3. HeadSays' /\ BodySays' /\ DoneSays' /\ ErrorSays'
  BY <1>1 DEF HeadSays, BodySays, DoneSays, ErrorSays, Reads
<1>4. PartsAreBody'
  BY <1>1, <1>2 DEF Means, PartsAreBody
<1>5. ReturnSays'
  <2>1. CASE call = "complete" /\ result = "end"
    <3>1. state = "DONE" /\ ~Lost
      BY <2>1 DEF Means, ReturnSays, Lost
    <3>2. Whole.verdict = "end" /\ parts = Whole.body
      BY <3>1 DEF Means, DoneSays
    <3>3. whole
      BY <2>1 DEF Types, CallOK
    <3>4. whole'
      BY <1>1, <3>3
    <3>5. call' = "idle" /\ state' = "NONE" /\ Whole'.verdict = "end" /\ parts' = Whole'.body
      BY <1>1, <1>2, <3>2
    <3> QED
      BY <3>4, <3>5 DEF ReturnSays
  <2>2. CASE ~(call = "complete" /\ result = "end")
    <3>1. result # "body"
      BY <1>1 DEF Means, ReturnSays
    <3>2. result' # "body" /\ state' = "NONE" /\ call' = "idle"
      BY <1>1, <2>2, <3>1
    <3> QED
      BY <3>2 DEF ReturnSays
  <2> QED
    BY <2>1, <2>2
<1> QED
  BY <1>3, <1>4, <1>5 DEF Means

LEMMA ReconnectMeans ==
  ASSUME Types, Means, Reconnect
  PROVE  Means'
<1>1. reply' \in Retries /\ state' = "NONE" /\ call' = "idle" /\ result' = "none" /\ parts' = <<>>
  BY DEF Reconnect
<1>2. HeadSays' /\ BodySays' /\ DoneSays' /\ ErrorSays' /\ ReturnSays'
  BY <1>1 DEF HeadSays, BodySays, DoneSays, ErrorSays, ReturnSays, Reads
<1>3. (reply').wire \in Seq(Bytes) /\ (reply').framing \in Framings /\ (reply').length \in Nat
  BY <1>1, ReplyType
<1>4. Whole'.body \in Seq(Nat)
  BY <1>3, MeaningType DEF Whole
<1>5. IsPrefix(<<>>, Whole'.body)
  BY <1>4, PrefixOf
<1>6. PartsAreBody'
  BY <1>1, <1>5 DEF PartsAreBody
<1> QED
  BY <1>2, <1>6 DEF Means

LEMMA MeansInit == Init => Types /\ Means
<1> SUFFICES ASSUME Init PROVE Types /\ Means
  OBVIOUS
<1>1. Types
  BY TypesInit
<1>2. call = "idle" /\ result = "none" /\ parts = <<>> /\ state = "NONE"
  BY DEF Init
<1>3. HeadSays /\ BodySays /\ DoneSays /\ ErrorSays /\ ReturnSays
  BY <1>2 DEF HeadSays, BodySays, DoneSays, ErrorSays, ReturnSays, Reads
<1>4. Whole.body \in Seq(Nat)
  BY <1>1, WholeType DEF Types
<1>5. PartsAreBody
  BY <1>2, <1>4, PrefixOf DEF PartsAreBody
<1> QED
  BY <1>1, <1>3, <1>5 DEF Means

-----------------------------------------------------------------------------
(* The steps of httpclient_read_next_ex().                                 *)

LEMMA PlaceMoves ==
  ASSUME Types, buf # NoBuffer, UNCHANGED <<got, end>>, NEW k \in Int, start' = start + k
  PROVE  Place' = Place + k
<1>1. start \in Nat /\ end \in Nat /\ got \in Nat
  BY PlaceType DEF Types
<1>2. \A g \in Nat, e \in Nat, s \in Nat : g - (e - (s + k)) + 1 = (g - (e - s) + 1) + k
  OBVIOUS
<1>3. Place' = got - (end - (start + k)) + 1
  BY DEF Place
<1> QED
  BY <1>1, <1>2, <1>3 DEF Place

LEMMA LineMoves ==
  ASSUME Types, buf # NoBuffer, LineFeeds # {}, UNCHANGED <<got, end>>, start' = Min(LineFeeds) + 1
  PROVE  Place' = Place + (Min(LineFeeds) + 1 - start)
<1>1. start \in Nat /\ end \in Nat /\ Min(LineFeeds) + 1 \in start..end
  BY PlaceType, LineType DEF Types
<1> PICK n : n = Min(LineFeeds) + 1
  OBVIOUS
<1>a. n \in Nat
  BY <1>1
<1> PICK k : k = n - start
  OBVIOUS
<1>2. k \in Int /\ n = start + k
  BY <1>1, <1>a
<1>3. start' = start + k
  BY <1>2
<1>4. Place' = Place + k
  BY <1>2, <1>3, PlaceMoves
<1>5. Min(LineFeeds) + 1 - start = k
  <2>1. \A i \in Int, s \in Int : i + 1 \in Int /\ n = i + 1 => i + 1 - s = n - s
    OBVIOUS
  <2>2. Min(LineFeeds) \in Int /\ start \in Int
    BY LinesType, PlaceType DEF Types
  <2> QED
    BY <2>1, <2>2
<1> QED
  BY <1>4, <1>5

LEMMA FailMeans ==
  ASSUME Types, Means, call = "next", UNCHANGED <<reply, sent, ended, got, whole, parts>>, NEW r \in Errors, Fail(r),
         r \in {"HEADER", "CONTENT", "LENGTH"} => Whole.verdict = r,
         r = "CONNECTION" => ended /\ (reply.ending \in {"reset", "urgent"} \/ Whole.verdict = "cut")
  PROVE  Means'
<1>1. state' = "ERROR" /\ error' = r /\ result' = r /\ call' # "head"
  BY DEF Fail, Return
<1>2. Whole' = Whole
  BY DEF Whole
<1>3. r \notin {"end", "body"}
  BY DEF Errors
<1>4. HeadSays' /\ BodySays' /\ DoneSays'
  BY <1>1 DEF HeadSays, BodySays, DoneSays, Reads
<1>5. ErrorSays'
  BY <1>1, <1>2 DEF ErrorSays
<1>6. PartsAreBody'
  BY <1>2 DEF Means, PartsAreBody
<1>7. ReturnSays'
  BY <1>1, <1>3 DEF ReturnSays
<1> QED
  BY <1>4, <1>5, <1>6, <1>7 DEF Means

(* What the reader knows of the whole reply. *)
LEMMA WholeSays ==
  ASSUME Types, Means, state \in Reads, call = "next", NEW c, c = (reply.ending = "close")
  PROVE  /\ Whole.body = parts \o LeftOf(reply.wire, c).body /\ Whole.verdict = LeftOf(reply.wire, c).verdict
         /\ Seen(reply.wire) /\ c \in BOOLEAN
<1>1. Seen(reply.wire)
  BY SeenReply DEF Types
<1>2. ~Lost /\ c \in BOOLEAN
  BY DEF Lost
<1>3. Whole = Says(reply.wire, c)
  BY DEF Whole, Says
<1> QED
  BY <1>1, <1>2, <1>3 DEF Means, BodySays

(* A step that gives the caller nothing, and after which as much is left. *)
LEMMA GoesOnMeans ==
  ASSUME Types, Means, call = "next", state \in Reads, state' \in Reads \cup {"DONE"},
         UNCHANGED <<reply, got, error, whole, call, result, parts>>,
         state' \in Reads => \A w : Seen(w) => \A c \in BOOLEAN :
           LeftOf(w, c)'.body = LeftOf(w, c).body /\ LeftOf(w, c)'.verdict = LeftOf(w, c).verdict,
         state' = "DONE" => LeftOf(reply.wire, reply.ending = "close") = Reading(<<>>, "end")
  PROVE  Means'
<1>1. Whole' = Whole
  BY DEF Whole
<1>2. HeadSays' /\ ErrorSays' /\ ~Lost
  BY DEF HeadSays, ErrorSays, Reads, Lost
<1>3. BodySays'
  <2> SUFFICES ASSUME state' \in Reads, NEW w, Seen(w)', NEW c \in BOOLEAN
               PROVE  (Says(w, c).body = parts \o LeftOf(w, c).body /\ Says(w, c).verdict = LeftOf(w, c).verdict)'
    BY DEF BodySays
  <2>1. Seen(w)
    BY DEF Seen
  <2>2. Says(w, c)' = Says(w, c)
    BY DEF Says
  <2>3. Says(w, c).body = parts \o LeftOf(w, c).body /\ Says(w, c).verdict = LeftOf(w, c).verdict
    BY <1>2, <2>1 DEF Means, BodySays
  <2>4. LeftOf(w, c)'.body = LeftOf(w, c).body /\ LeftOf(w, c)'.verdict = LeftOf(w, c).verdict
    BY <2>1
  <2> QED
    BY <2>2, <2>3, <2>4
<1>4. DoneSays'
  <2> SUFFICES ASSUME state' = "DONE" PROVE Whole.verdict = "end" /\ parts = Whole.body
    BY <1>1 DEF DoneSays
  <2>a. \E l : /\ Whole.body = parts \o l.body /\ Whole.verdict = l.verdict
               /\ l = LeftOf(reply.wire, reply.ending = "close")
    BY WholeSays
  <2> PICK l : /\ Whole.body = parts \o l.body /\ Whole.verdict = l.verdict
               /\ l = LeftOf(reply.wire, reply.ending = "close")
    BY <2>a
  <2>b. l = Reading(<<>>, "end")
    OBVIOUS
  <2>c. l.body = <<>> /\ l.verdict = "end"
    BY <2>b, ReadingIs
  <2>1. Whole.body = parts \o <<>> /\ Whole.verdict = "end"
    BY <2>c
  <2>2. parts \in Seq(Nat)
    BY PartsType
  <2> QED
    BY <2>1, <2>2, PrefixOf
<1>5. PartsAreBody'
  BY <1>1 DEF Means, PartsAreBody
<1>6. ReturnSays'
  <2>1. ~whole => result \notin Errors \ {"TIMEOUT"} /\ result # "end"
    BY DEF Means, ReturnSays, Reads
  <2>2. result # "body"
    BY DEF Means, ReturnSays
  <2>3. call' # "complete"
    OBVIOUS
  <2>4. ReturnSays' = ((~whole /\ state' # "NONE" =>
                           /\ result \in Errors \ {"TIMEOUT"} => state' = "ERROR" /\ error = result
                           /\ result = "end" => state' = "DONE")
                        /\ (call' = "complete" /\ result = "end" => state' = "DONE")
                        /\ (result = "body" => call' = "idle" /\ whole /\ state' = "NONE" /\ Whole'.verdict = "end" /\ parts = Whole'.body))
    BY DEF ReturnSays
  <2> QED
    BY <2>1, <2>2, <2>3, <2>4
<1> QED
  BY <1>2, <1>3, <1>4, <1>5, <1>6 DEF Means

LEMMA NextTrailerMeans ==
  ASSUME Types, Means, NextTrailer
  PROVE  Means'
<1>1. /\ call = "next" /\ state = "TRAILER" /\ LineFeeds # {} /\ buf # NoBuffer
      /\ UNCHANGED <<reply, sent, ended, got, buf, end, error, whole, call, result, parts>>
      /\ start' = Min(LineFeeds) + 1 /\ state' = (IF Line = <<>> THEN "DONE" ELSE "TRAILER")
  BY NextTrailerIs
<1>2. NetOK /\ BufOK
  BY DEF Types
<1>3. Place' = Place + (Min(LineFeeds) + 1 - start)
  BY <1>1, LineMoves
<1>4. ASSUME NEW w, Seen(w), NEW c
      PROVE  /\ Line = <<>> => LeftOf(w, c) = Reading(<<>>, "end")
             /\ Line # <<>> => LeftOf(w, c) = LeftOf(w, c)'
  <2>1. /\ Place \in 1..Len(w) + 1 /\ LineFeedsAt(w, Place) # {}
        /\ NextAt(w, Place) = Place' /\ Line = LineAt(w, Place)
    BY <1>1, <1>2, <1>3, <1>4, LinesAgree
  <2>2. w \in Seq(Bytes)
    BY <1>4 DEF Seen
  <2>3. LeftOf(w, c) = ReadTrailer(w, ReadOf(w), Place)
    BY <1>1, <2>1, <2>2, RestIs, LeftIs DEF LeftOf
  <2>4. LeftOf(w, c) = IF Line = <<>> THEN Reading(<<>>, "end") ELSE Rest(w, Place', "trailer")
    BY <2>1, <2>3 DEF ReadTrailer, Rest
  <2>5. ASSUME Line # <<>> PROVE LeftOf(w, c)' = Rest(w, Place', "trailer")
    BY <1>1, <2>2, <2>5, LeftIs DEF LeftOf
  <2> QED
    BY <2>4, <2>5
<1>5. Seen(reply.wire)
  BY <1>2, SeenReply
<1>6. CASE Line = <<>>
  <2>1. state' = "DONE" /\ state' \notin Reads
    BY <1>1, <1>6 DEF Reads
  <2>2. LeftOf(reply.wire, reply.ending = "close") = Reading(<<>>, "end")
    BY <1>4, <1>5, <1>6
  <2>3. state \in Reads
    BY <1>1 DEF Reads
  <2> QED
    BY <1>1, <2>1, <2>2, <2>3, GoesOnMeans
<1>7. CASE Line # <<>>
  <2>1. state' = "TRAILER" /\ state' # "DONE" /\ state' \in Reads /\ state \in Reads
    BY <1>1, <1>7 DEF Reads
  <2>2. \A w : Seen(w) => \A c \in BOOLEAN :
           LeftOf(w, c)'.body = LeftOf(w, c).body /\ LeftOf(w, c)'.verdict = LeftOf(w, c).verdict
    BY <1>4, <1>7
  <2> QED
    BY <1>1, <2>1, <2>2, GoesOnMeans
<1> QED
  BY <1>6, <1>7

LEMMA NextSizeMeans ==
  ASSUME Types, Means, NextSize
  PROVE  Means'
<1>1. /\ call = "next" /\ state = "CHUNK_SIZE" /\ LineFeeds # {} /\ buf # NoBuffer
      /\ UNCHANGED <<reply, sent, ended, got, buf, end, limit, scanned, whole, size, parts>>
      /\ start' = Min(LineFeeds) + 1
      /\ \/ /\ SizeVerdict(Line) = "ok" /\ left' = Hex(SizeDigits(Line)) /\ left' \in 0..SizeMax
            /\ state' = (IF left' > 0 THEN "CHUNK_DATA" ELSE "TRAILER") /\ UNCHANGED <<error, result, call>>
         \/ SizeVerdict(Line) \in {"CONTENT", "LENGTH"} /\ Fail(SizeVerdict(Line)) /\ UNCHANGED left
  BY NextSizeIs
<1>2. NetOK /\ BufOK
  BY DEF Types
<1>3. Place' = Place + (Min(LineFeeds) + 1 - start)
  BY <1>1, LineMoves
<1>4. Seen(reply.wire)
  BY <1>2, SeenReply
<1>5. ASSUME NEW w, Seen(w), NEW c
      PROVE  /\ w \in Seq(Bytes) /\ Line = LineAt(w, Place) /\ NextAt(w, Place) = Place'
             /\ SizeVerdict(Line) # "ok" => LeftOf(w, c) = Reading(<<>>, SizeVerdict(Line))
             /\ SizeVerdict(Line) = "ok" =>
                  LeftOf(w, c) = IF Hex(SizeDigits(Line)) = 0 THEN Rest(w, Place', "trailer")
                                 ELSE ReadData(w, ReadOf(w), Place', Hex(SizeDigits(Line)))
  <2>1. /\ Place \in 1..Len(w) + 1 /\ LineFeedsAt(w, Place) # {}
        /\ NextAt(w, Place) = Place' /\ Line = LineAt(w, Place)
    BY <1>1, <1>2, <1>3, <1>5, LinesAgree
  <2>2. w \in Seq(Bytes)
    BY <1>5 DEF Seen
  <2>3. LeftOf(w, c) = ReadSize(w, ReadOf(w), Place)
    BY <1>1, <2>1, <2>2, RestIs, LeftIs DEF LeftOf
  <2> QED
    BY <2>1, <2>2, <2>3 DEF ReadSize, SizeAt, Rest
<1>6. CASE SizeVerdict(Line) = "ok"
  <2>1. left' = Hex(SizeDigits(Line)) /\ left' \in Nat /\ UNCHANGED <<error, result, call>>
        /\ state' = (IF left' > 0 THEN "CHUNK_DATA" ELSE "TRAILER")
    BY <1>1, <1>6, Sizes
  <2>2. ASSUME NEW w, Seen(w), NEW c PROVE LeftOf(w, c)' = LeftOf(w, c)
    <3>1. w \in Seq(Bytes)
      BY <1>5, <2>2
    <3>2. CASE left' = 0
      <4>1. state' = "TRAILER"
        BY <2>1, <3>2
      <4>2. LeftOf(w, c)' = Rest(w, Place', "trailer")
        BY <3>1, <4>1, LeftIs DEF LeftOf
      <4> QED
        BY <1>5, <1>6, <2>1, <2>2, <3>2, <4>2
    <3>3. CASE left' # 0
      <4>1. state' = "CHUNK_DATA"
        BY <2>1, <3>3
      <4>2. LeftOf(w, c)' = ReadData(w, ReadOf(w), Place', left')
        BY <3>1, <4>1, LeftIs DEF LeftOf
      <4> QED
        BY <1>5, <1>6, <2>1, <2>2, <3>3, <4>2
    <3> QED
      BY <3>2, <3>3
  <2>3. \A w : Seen(w) => \A c \in BOOLEAN :
           LeftOf(w, c)'.body = LeftOf(w, c).body /\ LeftOf(w, c)'.verdict = LeftOf(w, c).verdict
    BY <2>2
  <2>4. state' # "DONE" /\ state' \in Reads /\ state \in Reads
    BY <1>1, <2>1 DEF Reads
  <2> QED
    BY <1>1, <2>1, <2>3, <2>4, GoesOnMeans
<1>7. CASE SizeVerdict(Line) # "ok"
  <2>1. SizeVerdict(Line) \in {"CONTENT", "LENGTH"} /\ Fail(SizeVerdict(Line))
    BY <1>1, <1>7
  <2>2. \E l : Whole.verdict = l.verdict /\ l = LeftOf(reply.wire, reply.ending = "close")
    BY <1>1, WholeSays DEF Reads
  <2> PICK l : Whole.verdict = l.verdict /\ l = LeftOf(reply.wire, reply.ending = "close")
    BY <2>2
  <2>3. l = Reading(<<>>, SizeVerdict(Line))
    BY <1>4, <1>5, <1>7
  <2>4. Whole.verdict = SizeVerdict(Line)
    BY <2>3, ReadingIs
  <2> PICK r : r = SizeVerdict(Line)
    OBVIOUS
  <2>5. r \in {"CONTENT", "LENGTH"} /\ Fail(r) /\ Whole.verdict = r
    BY <2>1, <2>4
  <2>6. r \in Errors /\ r # "CONNECTION"
    BY <2>5 DEF Errors
  <2> QED
    BY <1>1, <2>5, <2>6, FailMeans
<1> QED
  BY <1>6, <1>7

LEMMA NextChunkEndMeans ==
  ASSUME Types, Means, NextChunkEnd
  PROVE  Means'
<1>1. /\ call = "next" /\ state = "CHUNK_END" /\ buf # NoBuffer /\ start + 2 <= end
      /\ UNCHANGED <<reply, sent, ended, got, buf, end, limit, scanned, left, whole, size, parts>>
      /\ \/ /\ Byte(start) = "CR" /\ Byte(start + 1) = "LF"
            /\ start' = start + 2 /\ state' = "CHUNK_SIZE" /\ UNCHANGED <<error, result, call>>
         \/ ~(Byte(start) = "CR" /\ Byte(start + 1) = "LF") /\ Fail("CONTENT") /\ UNCHANGED start
  BY NextChunkEndIs
<1>2. NetOK /\ BufOK /\ start \in Nat /\ end \in Nat /\ Place \in Nat /\ Place >= 1 /\ got \in Nat
  BY <1>1, PlaceType DEF Types
<1>3. Seen(reply.wire)
  BY <1>2, SeenReply
<1> DEFINE ok == Byte(start) = "CR" /\ Byte(start + 1) = "LF"
<1>5. ASSUME NEW w, Seen(w), NEW c
      PROVE  /\ w \in Seq(Bytes) /\ Place \in 1..Len(w) + 1
             /\ ok => LeftOf(w, c) = Rest(w, Place + 2, "size")
             /\ ~ok => LeftOf(w, c) = Reading(<<>>, "CONTENT")
  <2>1. 0 < end - start /\ 1 < end - start
    BY <1>1, <1>2
  <2>2. Byte(start + 0) = w[Place + 0] /\ Byte(start + 1) = w[Place + 1] /\ Place + 1 \in 1..got
    BY <1>1, <1>2, <1>5, <2>1, UnreadIs
  <2>3. Byte(start) = w[Place] /\ Byte(start + 1) = w[Place + 1]
    BY <1>2, <2>2
  <2>4. w \in Seq(Bytes) /\ got <= Len(w) /\ Len(w) \in Nat
    BY <1>5 DEF Seen
  <2>5. Place \in 1..Len(w) + 1 /\ ~(Place + 1 > Len(w))
    BY <1>2, <2>2, <2>4
  <2>6. LeftOf(w, c) = ReadEnd(w, ReadOf(w), Place)
    BY <1>1, <2>4, <2>5, RestIs, LeftIs DEF LeftOf
  <2> QED
    BY <2>3, <2>4, <2>5, <2>6 DEF ReadEnd, Rest
<1>6. CASE ok
  <2>1. start' = start + 2 /\ state' = "CHUNK_SIZE" /\ UNCHANGED <<error, result, call>>
    BY <1>1, <1>6
  <2>2. Place' = Place + 2
    BY <1>1, <2>1, PlaceMoves
  <2>3. ASSUME NEW w, Seen(w), NEW c PROVE LeftOf(w, c)' = LeftOf(w, c)
    <3>1. w \in Seq(Bytes) /\ LeftOf(w, c) = Rest(w, Place', "size")
      BY <1>5, <1>6, <2>2, <2>3
    <3>2. LeftOf(w, c)' = Rest(w, Place', "size")
      BY <2>1, <3>1, LeftIs DEF LeftOf
    <3> QED
      BY <3>1, <3>2
  <2>4. \A w : Seen(w) => \A c \in BOOLEAN :
           LeftOf(w, c)'.body = LeftOf(w, c).body /\ LeftOf(w, c)'.verdict = LeftOf(w, c).verdict
    BY <2>3
  <2>5. state' # "DONE" /\ state' \in Reads /\ state \in Reads
    BY <1>1, <2>1 DEF Reads
  <2> QED
    BY <1>1, <2>1, <2>4, <2>5, GoesOnMeans
<1>7. CASE ~ok
  <2>1. Fail("CONTENT") /\ "CONTENT" \in Errors
    BY <1>1, <1>7 DEF Errors
  <2>2. \E l : Whole.verdict = l.verdict /\ l = LeftOf(reply.wire, reply.ending = "close")
    BY <1>1, WholeSays DEF Reads
  <2> PICK l : Whole.verdict = l.verdict /\ l = LeftOf(reply.wire, reply.ending = "close")
    BY <2>2
  <2>3. l = Reading(<<>>, "CONTENT")
    BY <1>3, <1>5, <1>7
  <2>4. Whole.verdict = "CONTENT"
    BY <2>3, ReadingIs
  <2> QED
    BY <1>1, <2>1, <2>4, FailMeans
<1> QED
  BY <1>6, <1>7

(* As much stays unread as is not newly taken. *)
SameGap(s, e, g, t, f, h) ==
  /\ s \in Nat /\ e \in Nat /\ g \in Nat /\ t \in Nat /\ f \in Nat /\ h \in Nat
  /\ (f - t) - (h - g) = e - s

LEMMA SamePlace ==
  ASSUME NEW s, NEW e, NEW g, NEW t, NEW f, NEW h, SameGap(s, e, g, t, f, h)
  PROVE  h - (f - t) + 1 = g - (e - s) + 1
BY DEF SameGap

LEMMA NextMoreMeans ==
  ASSUME Types, Means, NextMore
  PROVE  Means'
<1>1. /\ call = "next" /\ NeedsMore /\ Receive(Most)
      /\ UNCHANGED <<reply, sent, ended, limit, scanned, state, left, error, whole, size, call, result, parts>>
  BY DEF NextMore, netVars, headVars, bodyVars, callVars
<1>2. state \in Reads
  BY <1>1 DEF NeedsMore, Reads
<1>3. NetOK /\ BufOK /\ buf # NoBuffer
  BY <1>2 DEF Types, CallOK
<1>4. reply.wire \in Seq(Bytes) /\ Holds(reply.wire, buf, start, end, got) /\ sent \in 0..Len(reply.wire) /\ Most \in Nat
  BY <1>3, ReplyType, Sizes DEF NetOK, BufOK, Types, BodyOK, Most
<1>5. /\ Holds(reply.wire, buf', start', end', got') /\ got' \in got..sent
      /\ (end' - start') - (got' - got) = end - start
  BY <1>1, <1>4, Received
<1>6. start' \in Nat /\ end' \in Nat /\ got' \in Nat /\ start \in Nat /\ end \in Nat /\ got \in Nat /\ got <= got'
  <2>1. start' \in Nat /\ end' \in Nat /\ got' \in Nat
    BY <1>5 DEF Holds
  <2>2. start \in Nat /\ end \in Nat /\ got \in Nat
    BY <1>3, PlaceType
  <2>3. got <= got'
    BY <1>5, <2>2
  <2> QED
    BY <2>1, <2>2, <2>3
<1>7. Place' = Place
  <2>1. (end' - start') - (got' - got) = end - start
    BY <1>5
  <2>2. got' - (end' - start') + 1 = got - (end - start) + 1
    <3>1. SameGap(start, end, got, start', end', got')
      BY <1>6, <2>1 DEF SameGap
    <3> QED
      BY <3>1, SamePlace
  <2> QED
    BY <2>2 DEF Place
<1>8. \A w : Seen(w)' => Seen(w)
  <2> SUFFICES ASSUME NEW w, Seen(w)' PROVE Seen(w)
    OBVIOUS
  <2>1. w \in Seq(Bytes) /\ got' <= Len(w) /\ \A i \in 1..got' : w[i] = (reply.wire)'[i]
    BY DEF Seen
  <2>2. reply.wire' = reply.wire
    BY <1>1
  <2>3. got <= Len(w) /\ \A i \in 1..got : i \in 1..got'
    BY <1>6, <2>1
  <2> QED
    BY <2>1, <2>2, <2>3 DEF Seen
<1>9. call' # "head" /\ (~Lost' => ~Lost)
  BY <1>1 DEF Lost
<1>10. ReturnSays'
  <2>1. Whole' = Whole
    BY <1>1 DEF Whole
  <2> QED
    BY <1>1, <2>1 DEF Means, ReturnSays
<1> QED
  BY <1>1, <1>7, <1>8, <1>9, <1>10, StaysMeans

LEMMA NextCutMeans ==
  ASSUME Types, Means, NEW why \in Outcomes \cup Failures, NextCut(why)
  PROVE  Means'
<1>1. /\ call = "next" /\ NeedsMore /\ Nothing(why) /\ Compact
      /\ UNCHANGED <<reply, sent, ended, limit, scanned, left, whole, size, parts>>
      /\ CASE why = "closed" /\ state = "CLOSE" -> state' = "DONE" /\ UNCHANGED <<error, result, call>>
           [] why = "closed" /\ state # "CLOSE" -> Fail("CONNECTION")
           [] why = "TIMEOUT" -> Return(why) /\ UNCHANGED <<state, error>>
           [] OTHER -> Fail(why)
  BY DEF NextCut, netVars, headVars
<1>2. state \in Reads
  BY <1>1 DEF NeedsMore, Reads
<1>3. NetOK /\ BufOK /\ buf # NoBuffer /\ got' = got
  BY <1>1, <1>2 DEF Types, CallOK, Compact
<1>4. Seen(reply.wire) /\ reply.wire \in Seq(Bytes)
  BY <1>3, SeenReply DEF Seen
<1>5. \E l : /\ Whole.verdict = l.verdict /\ Whole.body = parts \o l.body
             /\ l = LeftOf(reply.wire, reply.ending = "close")
  BY <1>1, <1>2, WholeSays
<1> PICK l : /\ Whole.verdict = l.verdict /\ Whole.body = parts \o l.body
             /\ l = LeftOf(reply.wire, reply.ending = "close")
  BY <1>5
<1>6. CASE why = "closed" /\ state = "CLOSE"
  <2>1. state' = "DONE" /\ state' \notin Reads /\ UNCHANGED <<error, result, call>>
    BY <1>1, <1>6 DEF Reads
  <2>2. sent = got /\ ended /\ reply.ending = "close" /\ start = end
    BY <1>1, <1>6 DEF Nothing, NeedsMore, Failures
  <2>3. Len(reply.wire) = got
    BY <2>2, <1>3 DEF NetOK
  <2>4. Place = Len(reply.wire) + 1 /\ Len(reply.wire) \in Nat
    BY <1>3, <2>2, <2>3, PlaceType
  <2> PICK N : N = Len(reply.wire)
    OBVIOUS
  <2>5. Places(Place, N) = <<>>
    <3> PICK p \in Nat : p = Place
      BY <2>4
    <3>1. Places(p, p + 0 - 1) \in Seq(Nat) /\ Len(Places(p, p + 0 - 1)) = 0
      BY PlacesType
    <3>2. p + 0 - 1 = N
      BY <2>4
    <3> QED
      BY <3>1, <3>2
  <2>6. LeftOf(reply.wire, reply.ending = "close") = Reading(Places(Place, N), "end")
    BY <1>6, <2>2 DEF LeftOf, LeftAt
  <2>7. LeftOf(reply.wire, reply.ending = "close") = Reading(<<>>, "end")
    BY <2>5, <2>6
  <2> QED
    BY <1>1, <1>2, <1>3, <2>1, <2>7, GoesOnMeans
<1>7. CASE why = "closed" /\ state # "CLOSE"
  <2>1. Fail("CONNECTION") /\ "CONNECTION" \in Errors
    BY <1>1, <1>7 DEF Errors
  <2>2. sent = got /\ ended /\ ~Full
    BY <1>1, <1>7 DEF Nothing, Failures
  <2>3. Len(reply.wire) = got
    BY <2>2, <1>3 DEF NetOK
  <2>4. (reply.ending = "close") \in BOOLEAN
    OBVIOUS
  <2>5. \A c \in BOOLEAN : LeftAt(state, Place, left, reply.wire, c).verdict = "cut"
    BY <1>1, <1>4, <1>7, <2>2, <2>3, NothingLeft
  <2>6. LeftOf(reply.wire, reply.ending = "close").verdict = "cut"
    BY <2>4, <2>5 DEF LeftOf
  <2>7. Whole.verdict = "cut"
    BY <2>6
  <2> QED
    BY <1>1, <1>3, <2>1, <2>2, <2>7, FailMeans
<1>8. CASE why = "TIMEOUT"
  <2>1. Return("TIMEOUT") /\ UNCHANGED <<state, error>>
    BY <1>1, <1>8
  <2>2. Place' = Place
    <3>1. Holds(reply.wire, buf, start, end, got)
      BY <1>3 DEF BufOK
    <3>2. end' - start' = end - start
      BY <1>1, <1>4, <3>1, CompactedHolds DEF Compact
    <3> QED
      BY <1>3, <3>2 DEF Place
  <2>3. \A w : Seen(w)' => Seen(w)
    BY <1>1, <1>3 DEF Seen
  <2>4. ~Lost /\ call' # "head" /\ result' = "TIMEOUT"
    BY <1>1, <2>1 DEF Lost, Return
  <2>5. ReturnSays'
    BY <2>4 DEF ReturnSays
  <2> QED
    BY <1>1, <2>1, <2>2, <2>3, <2>4, <2>5, StaysMeans
<1>9. CASE why = "CONNECTION"
  <2>1. Fail("CONNECTION") /\ "CONNECTION" \in Errors
    BY <1>1, <1>9 DEF Errors
  <2>2. ended /\ reply.ending \in {"reset", "urgent"}
    BY <1>1, <1>9 DEF Nothing, Failures
  <2> QED
    BY <1>1, <1>3, <2>1, <2>2, FailMeans
<1>10. CASE why = "LENGTH"
  <2>1. Fail("LENGTH") /\ "LENGTH" \in Errors
    BY <1>1, <1>10 DEF Errors
  <2>2. Full
    BY <1>1, <1>10 DEF Nothing, Failures
  <2>3. \A c : LeftAt(state, Place, left, reply.wire, c).verdict = "LENGTH"
    BY <1>1, <1>4, <2>2, FullIsTooLong
  <2>4. Whole.verdict = "LENGTH"
    BY <2>3 DEF LeftOf
  <2> QED
    BY <1>1, <1>3, <2>1, <2>4, FailMeans
<1>11. CASE why \in {"ERROR", "MEMORY"}
  <2>1. Fail(why) /\ why \in Errors /\ why \notin {"HEADER", "CONTENT", "LENGTH"} /\ why # "CONNECTION"
    BY <1>1, <1>11 DEF Errors
  <2> QED
    BY <1>1, <1>3, <2>1, FailMeans
<1> QED
  BY <1>6, <1>7, <1>8, <1>9, <1>10, <1>11 DEF Outcomes, Failures

(* What is left in state st at p is what was taken, up to M, and what is    *)
(* left in state t at q.                                                   *)
Goes(st, p, k, M, t, q, m, w, c) ==
  /\ LeftAt(st, p, k, w, c).body = Places(p, M) \o LeftAt(t, q, m, w, c).body
  /\ LeftAt(st, p, k, w, c).verdict = LeftAt(t, q, m, w, c).verdict
  /\ LeftAt(t, q, m, w, c).body \in Seq(Nat)

LEMMA MovesType ==
  ASSUME NEW w, NEW p, NEW k, NEW M, NEW q, NEW m, Moves(w, p, k, M, q, m), NEW c
  PROVE  \A st \in Reads : LeftAt(st, q, m, w, c).body \in Seq(Nat)
<1>1. w \in Seq(Bytes) /\ q \in Nat /\ q >= 1 /\ q <= Len(w) + 1 /\ m \in Nat
  <2>1. Len(w) \in Nat /\ w \in Seq(Bytes)
    BY DEF Moves
  <2> QED
    BY <2>1 DEF Moves
<1> QED
  BY <1>1, LeftType

LEMMA LengthPart ==
  ASSUME NEW w, NEW p, NEW k, NEW M, NEW q, NEW m, Moves(w, p, k, M, q, m), NEW c
  PROVE  Goes("LENGTH", p, k, M, IF m = 0 THEN "DONE" ELSE "LENGTH", q, m, w, c)
<1>1. CASE m # 0
  <2>1. /\ LeftAt("LENGTH", p, k, w, c).body = Places(p, M) \o LeftAt("LENGTH", q, m, w, c).body
        /\ LeftAt("LENGTH", p, k, w, c).verdict = LeftAt("LENGTH", q, m, w, c).verdict
    BY <1>1, LengthGoesOn
  <2>2. LeftAt("LENGTH", q, m, w, c).body \in Seq(Nat)
    BY MovesType DEF Reads
  <2>3. Goes("LENGTH", p, k, M, "LENGTH", q, m, w, c)
    BY <2>1, <2>2 DEF Goes
  <2> QED
    BY <1>1, <2>3
<1>2. CASE m = 0
  <2>1. Moves(w, p, k, M, q, 0)
    BY <1>2
  <2>2. LeftAt("LENGTH", p, k, w, c).body = Places(p, M) /\ LeftAt("LENGTH", p, k, w, c).verdict = "end"
    BY <2>1, LengthEnds
  <2>3. w \in Seq(Bytes)
    BY DEF Moves
  <2>4. LeftAt("DONE", q, m, w, c).body = <<>> /\ LeftAt("DONE", q, m, w, c).verdict = "end"
    BY <2>3, LeftIs
  <2>5. Places(p, M) \in Seq(Nat)
    <3>1. Cuts(p, M, q, M)
      BY <2>1 DEF Cuts, Moves
    <3> QED
      BY <3>1, PlacesSplit
  <2>6. Places(p, M) \o <<>> = Places(p, M) /\ <<>> \in Seq(Nat)
    BY <2>5, PrefixOf
  <2>7. Goes("LENGTH", p, k, M, "DONE", q, m, w, c)
    BY <2>2, <2>4, <2>6 DEF Goes
  <2> QED
    BY <1>2, <2>7
<1> QED
  BY <1>1, <1>2

LEMMA DataPart ==
  ASSUME NEW w, NEW p, NEW k, NEW M, NEW q, NEW m, Moves(w, p, k, M, q, m), NEW c
  PROVE  Goes("CHUNK_DATA", p, k, M, IF m = 0 THEN "CHUNK_END" ELSE "CHUNK_DATA", q, m, w, c)
<1>0. LeftAt("CHUNK_DATA", q, m, w, c).body \in Seq(Nat) /\ LeftAt("CHUNK_END", q, m, w, c).body \in Seq(Nat)
  BY MovesType DEF Reads
<1>1. CASE m # 0
  <2>1. /\ LeftAt("CHUNK_DATA", p, k, w, c).body = Places(p, M) \o LeftAt("CHUNK_DATA", q, m, w, c).body
        /\ LeftAt("CHUNK_DATA", p, k, w, c).verdict = LeftAt("CHUNK_DATA", q, m, w, c).verdict
    BY <1>1, DataGoesOn
  <2>3. Goes("CHUNK_DATA", p, k, M, "CHUNK_DATA", q, m, w, c)
    BY <1>0, <2>1 DEF Goes
  <2> QED
    BY <1>1, <2>3
<1>2. CASE m = 0
  <2>1. Moves(w, p, k, M, q, 0)
    BY <1>2
  <2>2. /\ LeftAt("CHUNK_DATA", p, k, w, c).body = Places(p, M) \o LeftAt("CHUNK_END", q, 0, w, c).body
        /\ LeftAt("CHUNK_DATA", p, k, w, c).verdict = LeftAt("CHUNK_END", q, 0, w, c).verdict
    BY <2>1, DataEnds
  <2>3. LeftAt("CHUNK_END", q, 0, w, c) = LeftAt("CHUNK_END", q, m, w, c)
    BY <1>2
  <2>4. Goes("CHUNK_DATA", p, k, M, "CHUNK_END", q, m, w, c)
    BY <1>0, <2>2, <2>3 DEF Goes
  <2> QED
    BY <1>2, <2>4
<1> QED
  BY <1>1, <1>2

LEMMA ClosePart ==
  ASSUME NEW w \in Seq(Bytes), NEW p, NEW M, NEW q, Cuts(p, M, q, Len(w)), NEW k \in Nat, NEW c, p >= 1
  PROVE  Goes("CLOSE", p, k, M, "CLOSE", q, k, w, c)
<1>1. /\ LeftAt("CLOSE", p, k, w, c).body = Places(p, M) \o LeftAt("CLOSE", q, k, w, c).body
      /\ LeftAt("CLOSE", p, k, w, c).verdict = LeftAt("CLOSE", q, k, w, c).verdict
  BY CloseGoesOn
<1>2. q \in Nat /\ q >= 1 /\ q <= Len(w) + 1
  BY DEF Cuts
<1>3. LeftAt("CLOSE", q, k, w, c).body \in Seq(Nat)
  BY <1>2, LeftType DEF Reads
<1> QED
  BY <1>1, <1>3 DEF Goes

(* What a part is of what was left. *)
LEMMA PartGoesOn ==
  ASSUME Types, NextPart, NEW w, Seen(w), NEW c
  PROVE  /\ LeftOf(w, c).body = Places(Place, Place + AtHand - 1) \o LeftAt(state', Place', left', w, c).body
         /\ LeftOf(w, c).verdict = LeftAt(state', Place', left', w, c).verdict
         /\ LeftAt(state', Place', left', w, c).body \in Seq(Nat)
         /\ Places(Place, Place + AtHand - 1) \in Seq(Nat)
<1>1. /\ state \in {"LENGTH", "CLOSE", "CHUNK_DATA"} /\ buf # NoBuffer
      /\ UNCHANGED <<reply, got, buf, end>>
      /\ AtHand \in Nat /\ AtHand >= 1 /\ AtHand <= end - start /\ (state # "CLOSE" => AtHand <= left)
      /\ start' = start + AtHand /\ left' = (IF state = "CLOSE" THEN left ELSE left - AtHand)
      /\ state' = (IF state = "CLOSE" \/ left' > 0 THEN state ELSE IF state = "LENGTH" THEN "DONE" ELSE "CHUNK_END")
      /\ left' \in 0..SizeMax
  BY NextPartIs
<1>2. /\ start \in Nat /\ end \in Nat /\ got \in Nat /\ Place \in Nat /\ Place >= 1 /\ Place + (end - start) = got + 1
      /\ end - start \in Nat
  BY <1>1, PlaceType DEF Types
<1>3. left \in Nat /\ left' \in Nat
  BY <1>1, Sizes DEF Types, BodyOK
<1>4. Place' = Place + AtHand
  BY <1>1, PlaceMoves
<1>5. w \in Seq(Bytes) /\ Len(w) \in Nat /\ got <= Len(w)
  BY DEF Seen
<1> PICK p \in Nat : p = Place
  BY <1>2
<1> PICK n \in Nat : n = AtHand
  BY <1>1
<1> PICK M \in Nat : M = p + n - 1
  BY <1>1, <1>2
<1> PICK q \in Nat : q = Place'
  BY <1>2, <1>4, <1>1
<1> PICK m \in Nat : m = left'
  BY <1>3
<1> PICK k \in Nat : k = left
  BY <1>3
<1>6. 1 <= p /\ q = p + n /\ q = M + 1 /\ M <= Len(w) /\ p <= q /\ q <= Len(w) + 1 /\ q >= 1
  <2>1. n <= end - start /\ p + (end - start) = got + 1 /\ n >= 1 /\ p >= 1
    BY <1>1, <1>2
  <2> PICK d \in Nat : d = end - start
    BY <1>2
  <2>2. n <= d /\ p + d = got + 1
    BY <2>1
  <2>3. q = p + n
    BY <1>4
  <2> QED
    BY <1>2, <1>5, <2>1, <2>2, <2>3
<1>7. Places(Place, Place + AtHand - 1) = Places(p, M)
  OBVIOUS
<1>8. Places(p, M) \in Seq(Nat)
  BY PlacesType
<1>9. LeftOf(w, c) = LeftAt(state, p, k, w, c)
  BY DEF LeftOf
<1>10. LeftAt(state', Place', left', w, c) = LeftAt(state', q, m, w, c)
  OBVIOUS
<1> SUFFICES Goes(state, p, k, M, state', q, m, w, c)
  BY <1>7, <1>8, <1>9, <1>10 DEF Goes
<1>11. CASE state = "CLOSE"
  <2>1. state' = "CLOSE" /\ m = k
    BY <1>1, <1>11
  <2>2. Cuts(p, M, q, Len(w))
    BY <1>5, <1>6 DEF Cuts
  <2>3. Goes("CLOSE", p, k, M, "CLOSE", q, k, w, c)
    BY <1>5, <1>6, <2>2, ClosePart
  <2> QED
    BY <1>11, <2>1, <2>3
<1>12. CASE state # "CLOSE"
  <2>1. m = k - n /\ n <= k
    BY <1>1, <1>12
  <2>2. p + k = q + m
    BY <1>6, <2>1
  <2>3. Moves(w, p, k, M, q, m)
    BY <1>5, <1>6, <2>2 DEF Moves
  <2>4. state' = IF m = 0 THEN (IF state = "LENGTH" THEN "DONE" ELSE "CHUNK_END") ELSE state
    BY <1>1, <1>12
  <2>5. CASE state = "LENGTH"
    <3>1. Goes("LENGTH", p, k, M, IF m = 0 THEN "DONE" ELSE "LENGTH", q, m, w, c)
      BY <2>3, LengthPart
    <3> QED
      BY <2>4, <2>5, <3>1
  <2>6. CASE state = "CHUNK_DATA"
    <3>1. Goes("CHUNK_DATA", p, k, M, IF m = 0 THEN "CHUNK_END" ELSE "CHUNK_DATA", q, m, w, c)
      BY <2>3, DataPart
    <3> QED
      BY <2>4, <2>6, <3>1
  <2> QED
    BY <1>1, <1>12, <2>5, <2>6
<1> QED
  BY <1>11, <1>12

LEMMA NextPartMeans ==
  ASSUME Types, Means, NextPart
  PROVE  Means'
<1>1. /\ call = "next" /\ state \in {"LENGTH", "CLOSE", "CHUNK_DATA"} /\ buf # NoBuffer
      /\ UNCHANGED <<reply, sent, ended, got, error, whole>> /\ Taken(AtHand) /\ AtHand \in Nat /\ AtHand <= end - start
      /\ state' \in Reads \cup {"DONE"}
  BY NextPartIs DEF Reads
<1>2. Whole' = Whole
  BY <1>1 DEF Whole
<1>3. state \in Reads /\ ~Lost
  BY <1>1 DEF Reads, Lost
<1>4. call' # "head"
  BY <1>1 DEF Taken, Return
<1>5. HeadSays' /\ ErrorSays'
  BY <1>1, <1>4 DEF HeadSays, ErrorSays, Reads
<1>6. ReturnSays'
  <2>1. result # "body"
    BY <1>1 DEF Means, ReturnSays
  <2>2. CASE ~whole
    <3>1. result' = "part" /\ call' = "idle"
      BY <1>1, <2>2 DEF Taken, Return
    <3> QED
      BY <3>1 DEF ReturnSays, Errors
  <2>3. CASE whole
    <3>1. whole'
      BY <1>1, <2>3
    <3>2. (call' = "next" /\ result' = result) \/ (call' = "complete" /\ result' \in {"MEMORY", "LENGTH"})
      BY <1>1, <2>3 DEF Taken, Return
    <3>3. result' # "body" /\ (call' = "complete" => result' # "end")
      BY <2>1, <3>2
    <3> QED
      BY <3>1, <3>3 DEF ReturnSays
  <2> QED
    BY <2>2, <2>3
<1>7. CASE Give(AtHand)
  <2> PICK given \in Seq(Nat) : given = Places(Place, Place + AtHand - 1)
    <3>1. Seen(reply.wire)
      BY SeenReply DEF Types
    <3> QED
      BY <3>1, PartGoesOn
  <2>1. parts' = parts \o given /\ parts \in Seq(Nat) /\ given \in Seq(Nat)
    BY <1>1, <1>7, GiveIs, PartsType
  <2>2. ASSUME NEW w, Seen(w), NEW c \in BOOLEAN
        PROVE  /\ Says(w, c).body = parts' \o LeftOf(w, c)'.body
               /\ Says(w, c).verdict = LeftOf(w, c)'.verdict /\ LeftOf(w, c)'.body \in Seq(Nat)
    <3>1. LeftOf(w, c)' = LeftAt(state', Place', left', w, c)
      BY DEF LeftOf
    <3> PICK rest : rest = LeftAt(state', Place', left', w, c)
      OBVIOUS
    <3>2. /\ LeftOf(w, c).body = given \o rest.body /\ LeftOf(w, c).verdict = rest.verdict /\ rest.body \in Seq(Nat)
      BY <2>2, PartGoesOn
    <3>3. Says(w, c).body = parts \o LeftOf(w, c).body /\ Says(w, c).verdict = LeftOf(w, c).verdict
      BY <1>3, <2>2 DEF Means, BodySays
    <3>4. parts \o (given \o rest.body) = (parts \o given) \o rest.body
      BY <2>1, <3>2, JoinAssoc
    <3> QED
      BY <2>1, <3>1, <3>2, <3>3, <3>4
  <2>3. parts' \in Seq(Nat)
    BY <2>1, Joined
  <2>4. BodySays'
    <3> SUFFICES ASSUME NEW w, Seen(w)', NEW c \in BOOLEAN
                 PROVE  (Says(w, c).body = parts \o LeftOf(w, c).body /\ Says(w, c).verdict = LeftOf(w, c).verdict)'
      BY DEF BodySays
    <3>1. Seen(w) /\ Says(w, c)' = Says(w, c)
      BY <1>1 DEF Seen, Says
    <3> QED
      BY <2>2, <3>1
  <2>5. \E l : /\ Whole.body = parts' \o l.body /\ Whole.verdict = l.verdict /\ l.body \in Seq(Nat)
               /\ (state' = "DONE" => l.body = <<>> /\ l.verdict = "end")
    <3> PICK w : w = reply.wire
      OBVIOUS
    <3>1. Seen(w) /\ w \in Seq(Bytes)
      BY SeenReply DEF Types, Seen
    <3>2. \A c \in BOOLEAN : state' = "DONE" => LeftOf(w, c)'.body = <<>> /\ LeftOf(w, c)'.verdict = "end"
      BY <1>1, <3>1, LeftIs DEF LeftOf
    <3>3. \E c \in BOOLEAN : Whole = Says(w, c)
      BY DEF Whole, Says
    <3> PICK c \in BOOLEAN : Whole = Says(w, c)
      BY <3>3
    <3>a. /\ Says(w, c).body = parts' \o LeftOf(w, c)'.body
          /\ Says(w, c).verdict = LeftOf(w, c)'.verdict /\ LeftOf(w, c)'.body \in Seq(Nat)
      BY <2>2, <3>1
    <3> PICK l : l = LeftOf(w, c)'
      OBVIOUS
    <3>4. Whole.body = parts' \o l.body /\ Whole.verdict = l.verdict /\ l.body \in Seq(Nat)
      BY <3>a
    <3>5. state' = "DONE" => l.body = <<>> /\ l.verdict = "end"
      BY <3>2
    <3> QED
      BY <3>4, <3>5
  <2> PICK l : /\ Whole.body = parts' \o l.body /\ Whole.verdict = l.verdict /\ l.body \in Seq(Nat)
               /\ (state' = "DONE" => l.body = <<>> /\ l.verdict = "end")
    BY <2>5
  <2>6. DoneSays'
    <3>1. parts' \o <<>> = parts'
      BY <2>3, PrefixOf
    <3> QED
      BY <1>2, <3>1 DEF DoneSays
  <2>7. PartsAreBody'
    <3>1. IsPrefix(parts', parts' \o l.body)
      BY <2>3, PrefixOf
    <3> QED
      BY <1>2, <3>1 DEF PartsAreBody
  <2> QED
    BY <1>5, <1>6, <2>4, <2>6, <2>7 DEF Means
<1>8. CASE ~Give(AtHand)
  <2>1. whole /\ UNCHANGED parts /\ call' = "complete" /\ result' \in {"MEMORY", "LENGTH"}
    BY <1>1, <1>8 DEF Taken, Return
  <2>2. BodySays' /\ DoneSays'
    BY <2>1 DEF BodySays, DoneSays, Lost
  <2>3. PartsAreBody'
    BY <1>2, <2>1 DEF Means, PartsAreBody
  <2> QED
    BY <1>5, <1>6, <2>2, <2>3 DEF Means
<1> QED
  BY <1>7, <1>8

-----------------------------------------------------------------------------
(* What holds in every state.                                              *)

LEMMA MeansStep == Types /\ Means /\ [Next]_vars => Means'
<1> SUFFICES ASSUME Types, Means, [Next]_vars PROVE Means'
  OBVIOUS
<1>1. CASE Network
  BY <1>1, NetworkMeans
<1>2. CASE Caller
  BY <1>2, ReadResponseMeans, ReadResponseNoMemoryMeans, ReadNextMeans, ReconnectMeans DEF Caller
<1>3. CASE HeadBad \/ HeadInterim \/ HeadTooLong \/ HeadMore \/ HeadFinal \/ HeadRefused
  BY <1>3, HeadBadMeans, HeadInterimMeans, HeadTooLongMeans, HeadMoreMeans, HeadFinalMeans, HeadRefusedMeans
<1>4. CASE NextOver \/ NextMore \/ NextPart \/ NextSize \/ NextChunkEnd \/ NextTrailer
  BY <1>4, NextOverMeans, NextMoreMeans, NextPartMeans, NextSizeMeans, NextChunkEndMeans, NextTrailerMeans
<1>5. CASE Alloc
  BY <1>5, AllocMeans
<1>6. CASE \E why \in Outcomes \cup Failures : HeadCut(why) \/ NextCut(why)
  BY <1>6, HeadCutMeans, NextCutMeans
<1>7. CASE Complete
  BY <1>7, CompleteMeans
<1>8. CASE UNCHANGED vars
  <2>1. /\ UNCHANGED <<reply, got, start, end, limit, scanned, state, left, error, whole, call, result, parts, ended>>
    BY <1>8 DEF vars, netVars, bufVars, headVars, bodyVars, callVars
  <2>2. (\A w : Seen(w)' => Seen(w)) /\ Place' = Place /\ (~Lost' => ~Lost) /\ Whole' = Whole
    BY <2>1 DEF Seen, Place, Lost, Whole
  <2>3. ReturnSays'
    BY <2>1, <2>2 DEF Means, ReturnSays
  <2> QED
    BY <2>1, <2>2, <2>3, StaysMeans
<1> QED
  BY <1>1, <1>2, <1>3, <1>4, <1>5, <1>6, <1>7, <1>8 DEF Next, Client, Breaks

LEMMA MeansAlways == Spec => [](Types /\ Means)
<1>1. Types /\ Means /\ [Next]_vars => (Types /\ Means)'
  BY TypesStep, MeansStep
<1> QED
  BY <1>1, MeansInit, PTL DEF Spec

(* However the bytes arrive, with timeouts anywhere between them, what the  *)
(* caller was given is the body up to some place.                          *)
THEOREM BodyCorrect == Spec => []PartsAreBody
<1>1. Types /\ Means => PartsAreBody
  BY DEF Means
<1> QED
  BY <1>1, MeansAlways, PTL

(* The body ends for the caller exactly where it does in the reply, and it  *)
(* is called malformed, too long or cut only when it is.                   *)
THEOREM EndCorrect == Spec => []EndIsReplys
<1>1. Types /\ Means => EndIsReplys
  <2> SUFFICES ASSUME Types, Means PROVE EndIsReplys
    OBVIOUS
  <2>1. state = "DONE" /\ result \notin {"LENGTH", "MEMORY"} => Whole.verdict = "end" /\ parts = Whole.body
    BY DEF Means, DoneSays, Lost
  <2> QED
    BY <2>1 DEF Means, ErrorSays, EndIsReplys
<1> QED
  BY <1>1, MeansAlways, PTL

(* httpclient_read_response() never copies more than its allocation holds,  *)
(* and a body that it returns is the whole one.                            *)
THEOREM FitsCorrect == Spec => []ResponseFits
<1>1. Types /\ Means => ResponseFits
  BY DEF Types, CallOK, Means, ReturnSays, ResponseFits
<1> QED
  BY <1>1, MeansAlways, PTL

(* The last place of what is left is as far as the body goes. *)
LEMMA LastPlace ==
  ASSUME NEW s \in Seq(Nat), NEW p \in Nat, NEW N \in Nat, p <= N
  PROVE  Last(s \o Places(p, N)) = N
<1> PICK n \in Nat : n = N + 1 - p
  OBVIOUS
<1>1. n >= 1 /\ p + n - 1 = N
  OBVIOUS
<1>2. /\ Places(p, p + n - 1) \in Seq(Nat) /\ Len(Places(p, p + n - 1)) = n
      /\ \A k \in 1..n : Places(p, p + n - 1)[k] = p + k - 1
  BY PlacesType
<1> PICK t \in Seq(Nat) : t = Places(p, N)
  BY <1>1, <1>2
<1>3. Len(t) = n /\ t[n] = N
  BY <1>1, <1>2
<1>4. Last(s \o t) = t[n]
  <2>1. Len(s \o t) = Len(s) + n /\ Len(s) \in Nat
    BY <1>3
  <2>2. (s \o t)[Len(s) + n] = t[n]
    BY <1>1, <1>3
  <2> QED
    BY <2>1, <2>2 DEF Last
<1> QED
  BY <1>3, <1>4

-----------------------------------------------------------------------------
(* What a step may never do.                                               *)

(* The steps by the call they belong to. *)
InHead == HeadBad \/ HeadInterim \/ HeadTooLong \/ HeadMore \/ HeadFinal \/ HeadRefused
            \/ \E why \in Outcomes \cup Failures : HeadCut(why)
InBody == NextPart \/ NextSize \/ NextChunkEnd \/ NextTrailer

LEMMA StepKinds ==
  ASSUME Types, [Next]_vars
  PROVE  \/ UNCHANGED <<got, call, result, parts>>
         \/ call = "idle" /\ (got' = got \/ got' = 0)
         \/ call \in {"alloc", "complete"} /\ got' = got
         \/ call = "head" /\ state = "NONE" /\ InHead
         \/ call = "next" /\ NextOver
         \/ call = "next" /\ NextMore
         \/ call = "next" /\ state \in Reads /\ got' = got /\ InBody
         \/ call = "next" /\ state \in Reads /\ got' = got /\ \E why \in Outcomes \cup Failures : NextCut(why)
<1>1. CASE Network \/ UNCHANGED vars
  BY <1>1 DEF Network, Arrive, ArriveEnding, vars, bufVars, callVars
<1>2. CASE Caller \/ (Complete /\ call = "idle")
  BY <1>2 DEF Caller, ReadResponse, ReadResponseNoMemory, HeadFails, ReadResponseTooEarly, ReadNext, Reconnect, Complete, bufVars
<1>3. CASE Alloc \/ (Complete /\ call = "complete")
  BY <1>3 DEF Alloc, Complete, bufVars
<1>4. CASE InHead
  <2>1. call = "head"
    BY <1>4 DEF InHead, HeadBad, HeadInterim, HeadTooLong, HeadMore, HeadFinal, HeadRefused, HeadCut
  <2>2. state = "NONE"
    BY <2>1 DEF Types, CallOK
  <2> QED
    BY <1>4, <2>1, <2>2
<1>5. CASE NextOver \/ NextMore
  BY <1>5 DEF NextOver, NextMore
<1>6. CASE InBody
  <2>1. call = "next" /\ state \in Reads /\ got' = got
    BY <1>6 DEF InBody, NextPart, NextSize, NextChunkEnd, NextTrailer, Reads
  <2> QED
    BY <1>6, <2>1
<1>7. CASE \E why \in Outcomes \cup Failures : NextCut(why)
  <2>1. call = "next" /\ state \in Reads /\ got' = got
    BY <1>7 DEF NextCut, NeedsMore, Reads, Compact
  <2> QED
    BY <1>7, <2>1
<1> QED
  BY <1>1, <1>2, <1>3, <1>4, <1>5, <1>6, <1>7 DEF Next, Client, Breaks, InHead, InBody, Complete

(* From place p = h + 1 on at most k are taken, up to g, and N is the last of them. *)
Within(g, h, k, p, N) ==
  g \in Nat /\ h \in Nat /\ k \in Nat /\ p \in Nat /\ N \in Nat /\ g - h <= k /\ p = h + 1 /\ N = p + k - 1

LEMMA WithinIs ==
  ASSUME NEW g, NEW h, NEW k, NEW p, NEW N, Within(g, h, k, p, N)
  PROVE  g <= N
BY DEF Within

(* A body with a length is never read past it. *)
LEMMA LengthBound ==
  ASSUME Types, Means, NextMore, state = "LENGTH"
  PROVE  got' <= Last(Whole.body)
<1>1. call = "next" /\ NeedsMore /\ Receive(Most) /\ state \in Reads /\ start = end /\ Most = left
  BY DEF NextMore, NeedsMore, Most, Reads
<1>2. NetOK /\ BufOK /\ buf # NoBuffer /\ left \in Nat /\ left >= 1
  BY <1>1, Sizes DEF Types, CallOK, BodyOK
<1>3. reply.wire \in Seq(Bytes) /\ Holds(reply.wire, buf, start, end, got) /\ sent \in 0..Len(reply.wire) /\ Len(reply.wire) \in Nat
  BY <1>2, ReplyType DEF NetOK, BufOK
<1>4. got' \in got..sent /\ got' - got <= left /\ got' > got
  BY <1>1, <1>2, <1>3, Received
<1>5. got \in Nat /\ Place = got + 1 /\ Place \in Nat
  BY <1>1, <1>2, PlaceType
<1> PICK p \in Nat : p = Place
  BY <1>5
<1> PICK N \in Nat : N = p + left - 1
  BY <1>2, <1>5
<1> PICK M : M = Lesser(Len(reply.wire), N)
  OBVIOUS
<1>6. M \in Nat /\ got' <= M /\ p <= M
  <2>0. got' \in Nat /\ got' <= sent /\ sent <= Len(reply.wire) /\ sent \in Nat
    <3>1. sent \in Nat /\ sent <= Len(reply.wire)
      BY <1>3
    <3> QED
      BY <1>4, <1>5, <3>1
  <2> PICK g \in Nat : g = got'
    BY <2>0
  <2> PICK k \in Nat : k = left
    BY <1>2
  <2> PICK h \in Nat : h = got
    BY <1>5
  <2>a. Within(g, h, k, p, N)
    BY <1>4, <1>5 DEF Within
  <2>b. g <= N
    BY <2>a, WithinIs
  <2>1. got' \in Nat /\ got' <= Len(reply.wire) /\ got' <= N
    BY <1>3, <2>0, <2>b
  <2>2. M \in {Len(reply.wire), N}
    BY <1>3, LesserIs
  <2>3. got' <= M /\ M \in Nat
    BY <1>3, <2>1, <2>2
  <2> QED
    BY <1>4, <1>5, <2>1, <2>3
<1>7. Whole.body = parts \o Places(p, M)
  <2>1. \E l : Whole.body = parts \o l.body /\ l = LeftOf(reply.wire, reply.ending = "close")
    BY <1>1, WholeSays
  <2> PICK l : Whole.body = parts \o l.body /\ l = LeftOf(reply.wire, reply.ending = "close")
    BY <2>1
  <2>2. l.body = Places(Place, Lesser(Len(reply.wire), Place + left - 1))
    BY <1>3, LeftIs DEF LeftOf
  <2>3. l.body = Places(p, M)
    BY <2>2
  <2> QED
    BY <2>3
<1>8. Last(Whole.body) = M
  BY <1>6, <1>7, PartsType, LastPlace
<1> QED
  BY <1>6, <1>8

(* After the end of a body, or an error, no call moves the reader or gives  *)
(* a part, and a body with a length is never read past it.                 *)
THEOREM FinalCorrect == Spec => EndIsFinal
<1> DEFINE Final ==
      /\ call = "next" /\ result \in {"end"} \cup (Errors \ {"TIMEOUT"}) /\ state # "NONE" /\ ~whole
           => result' = result /\ parts' = parts /\ got' = got
      /\ state = "LENGTH" /\ got' > got => got' <= Last(Whole.body)
<1>1. Types /\ Means /\ [Next]_vars => Final
  <2> SUFFICES ASSUME Types, Means, [Next]_vars PROVE Final
    OBVIOUS
  <2>1. ASSUME call = "next", result \in {"end"} \cup (Errors \ {"TIMEOUT"}), state # "NONE", ~whole
        PROVE  result' = result /\ parts' = parts /\ got' = got
    <3>1. (result = "end" /\ state = "DONE") \/ (result = error /\ state = "ERROR")
      BY <2>1 DEF Means, ReturnSays
    <3>2. state \notin Reads /\ ~NeedsMore
      BY <3>1 DEF Reads, NeedsMore
    <3>3. ~NextMore
      BY <3>2 DEF NextMore
    <3>4. CASE NextOver
      BY <3>1, <3>4 DEF NextOver, Return, bufVars
    <3>5. UNCHANGED <<got, call, result, parts>> \/ NextOver
      BY <2>1, <3>2, <3>3, StepKinds
    <3> QED
      BY <3>4, <3>5
  <2>2. ASSUME state = "LENGTH", got' > got PROVE got' <= Last(Whole.body)
    <3>1. got \in Nat /\ ~(got > got) /\ ~(0 > got)
      <4>1. got \in Nat
        BY DEF Types, NetOK
      <4> QED
        BY <4>1
    <3>2. ~NextOver
      BY <2>2 DEF NextOver
    <3>3. got' # got /\ got' # 0
      BY <2>2, <3>1
    <3>4. NextMore
      BY <2>2, <3>2, <3>3, StepKinds
    <3> QED
      BY <2>2, <3>4, LengthBound
  <2> QED
    BY <2>1, <2>2
<1>2. Types /\ Means /\ [Next]_vars =>
        [/\ call = "next" /\ result \in {"end"} \cup (Errors \ {"TIMEOUT"}) /\ state # "NONE" /\ ~whole
              => result' = result /\ parts' = parts /\ got' = got
         /\ state = "LENGTH" /\ got' > got => got' <= Last(Whole.body)]_vars
  BY <1>1
<1> QED
  BY <1>2, MeansAlways, PTL DEF EndIsFinal, Spec

(* What has arrived, when all of it was taken. *)
LEMMA SoFarCut ==
  ASSUME Types, Means, sent = got, ~ended, ~Full,
         \/ call = "head" /\ HeadMarks = {} /\ end < limit
         \/ call = "next" /\ NeedsMore /\ state \in Reads
  PROVE  SoFar.verdict = "cut"
<1> PICK w : w = SubSeq(reply.wire, 1, sent)
  OBVIOUS
<1>1. Seen(w) /\ Len(w) = got /\ NetOK
  BY SeenReply DEF Types
<1>2. SoFar = Says(w, FALSE)
  <2>1. (ended /\ reply.ending = "close") = FALSE
    OBVIOUS
  <2> QED
    BY <2>1 DEF SoFar, Says
<1>3. CASE call = "head" /\ HeadMarks = {} /\ end < limit
  BY <1>1, <1>2, <1>3, NoHeadYet DEF Says, Means
<1>4. CASE call = "next" /\ NeedsMore /\ state \in Reads
  <2>1. ~Lost
    BY <1>4 DEF Lost
  <2>2. Says(w, FALSE).verdict = LeftOf(w, FALSE).verdict
    BY <1>1, <1>4, <2>1 DEF Means, BodySays
  <2>3. LeftAt(state, Place, left, w, FALSE).verdict = "cut"
    BY <1>1, <1>4, NothingLeft
  <2> QED
    BY <1>2, <2>2, <2>3 DEF LeftOf
<1> QED
  BY <1>3, <1>4

(* A call gives up waiting only while what has arrived leaves open what the *)
(* reply is.                                                               *)
THEOREM WaitsCorrect == Spec => WaitsOnlyWhenCut
<1>1. Types /\ Means /\ [Next]_vars =>
        [call' # call /\ call \in {"head", "next"} /\ result' = "TIMEOUT" /\ state # "ERROR"
           => SoFar.verdict = "cut"]_vars
  <2> SUFFICES ASSUME Types, Means, [Next]_vars, call' # call, call \in {"head", "next"}, result' = "TIMEOUT", state # "ERROR"
               PROVE  SoFar.verdict = "cut"
    OBVIOUS
  <2>1. ~NextMore
    BY DEF NextMore, callVars
  <2>2. ~NextOver
    BY DEF NextOver, Return
  <2>3. CASE call = "head" /\ InHead
    <3>1. ~HeadBad /\ ~HeadTooLong /\ ~HeadFinal /\ ~HeadInterim /\ ~HeadMore
      BY DEF HeadBad, HeadTooLong, HeadFinal, HeadFails, HeadInterim, HeadMore, callVars
    <3>2. ~HeadRefused
      <4>1. "TIMEOUT" \notin Framings
        BY DEF Framings
      <4>2. reply.framing \in Framings
        BY ReplyType DEF Types, NetOK
      <4> QED
        BY <4>1, <4>2 DEF HeadRefused, HeadFails
    <3>3. \E why \in Outcomes \cup Failures : HeadCut(why)
      BY <2>3, <3>1, <3>2 DEF InHead
    <3> PICK why \in Outcomes \cup Failures : HeadCut(why)
      BY <3>3
    <3>4. why = "TIMEOUT" /\ Nothing(why) /\ HeadMarks = {} /\ end < limit
      BY DEF HeadCut, HeadFails
    <3>5. sent = got /\ ~ended /\ ~Full
      BY <3>4 DEF Nothing, Failures
    <3> QED
      BY <2>3, <3>4, <3>5, SoFarCut
  <2>4. CASE call = "next" /\ InBody
    <3>1. ~NextPart
      <4>1. ASSUME NextPart PROVE Taken(AtHand)
        BY <4>1, NextPartIs
      <4> QED
        BY <4>1 DEF Taken, Return
    <3>2. ~NextSize
      <4>1. ASSUME NextSize PROVE Fail(SizeVerdict(Line)) /\ SizeVerdict(Line) \in {"CONTENT", "LENGTH"}
        BY <4>1, NextSizeIs
      <4> QED
        BY <4>1 DEF Fail, Return
    <3>3. ~NextChunkEnd
      <4>1. ASSUME NextChunkEnd PROVE Fail("CONTENT")
        BY <4>1, NextChunkEndIs
      <4> QED
        BY <4>1 DEF Fail, Return
    <3>4. ~NextTrailer
      BY DEF NextTrailer, callVars
    <3> QED
      BY <2>4, <3>1, <3>2, <3>3, <3>4 DEF InBody
  <2>5. CASE call = "next" /\ state \in Reads /\ \E why \in Outcomes \cup Failures : NextCut(why)
    <3> PICK why \in Outcomes \cup Failures : NextCut(why)
      BY <2>5
    <3>1. why = "TIMEOUT" /\ Nothing(why) /\ NeedsMore
      BY DEF NextCut, Fail, Return
    <3>2. sent = got /\ ~ended /\ ~Full
      BY <3>1 DEF Nothing, Failures
    <3> QED
      BY <2>5, <3>1, <3>2, SoFarCut
  <2> QED
    BY <2>1, <2>2, <2>3, <2>4, <2>5, StepKinds
<1> QED
  BY <1>1, MeansAlways, PTL DEF WaitsOnlyWhenCut, Spec

=============================================================================
