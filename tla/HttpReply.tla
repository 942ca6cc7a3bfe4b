----------------------------- MODULE HttpReply ------------------------------
(***************************************************************************)
(* What the bytes of one HTTP reply mean (RFC 9112, sections 6 and 7),     *)
(* given all at once: which of them are the body, and whether the reply is *)
(* whole, cut or malformed.  HttpClient, which gets the bytes in pieces,   *)
(* must come to the same conclusion.                                       *)
(*                                                                         *)
(* A byte is one of the classes that a reader tells apart.  A head is a    *)
(* run of "h" up to its last byte: "interim" for one that another follows, *)
(* "final", or "bad" for a byte that no head may have.  What the fields of *)
(* the final head say of the body is the reply's framing and length; a     *)
(* framing in capitals is a head that is refused with that error.          *)
(***************************************************************************)
EXTENDS Integers, Sequences, SequencesExt

CONSTANTS
  BufMax,   (* HTTP_CLIENT_MAX_RECV_BUFFER_LENGTH: the longest line      *)
  HeadMax,  (* HTTP_CLIENT_MAX_RECV_HEADER_LENGTH: the longest heads     *)
  SizeMax   (* the largest length of a body or of a chunk: INT32_MAX     *)

ASSUME BufMaxAssumption == BufMax \in Nat /\ BufMax >= 2
ASSUME HeadMaxAssumption == HeadMax \in 1..BufMax
ASSUME SizeMaxAssumption == SizeMax \in Nat \ {0}

Framings == {"none", "length", "close", "chunked", "HEADER", "CONTENT", "LENGTH"}
Bytes == {"h", "interim", "final", "bad", "0", "1", "2", "CR", "LF", ";", "d"}
Digit == [b \in {"0", "1", "2"} |-> CASE b = "0" -> 0 [] b = "1" -> 1 [] b = "2" -> 2]

Lesser(m, n) == IF m <= n THEN m ELSE n
Greater(m, n) == IF m >= n THEN m ELSE n

(* The places m to n, and a reading: a body and what became of it. *)
Places(m, n) == [k \in 1..n+1-m |-> m + k - 1]
Reading(body, verdict) == [body |-> body, verdict |-> verdict]

(* A line without its end: LF, or CRLF. *)
Stripped(line) ==
  IF line # <<>> /\ Last(line) = "CR" THEN Front(line) ELSE line

-----------------------------------------------------------------------------
(* chunk-size [ ";" chunk-ext ] *)
Hex(digits) ==
  LET value[n \in 0..Len(digits)] ==
        IF n = 0 THEN 0 ELSE 16 * value[n - 1] + Digit[digits[n]]
  IN  value[Len(digits)]

SizeDigits(line) ==
  LET n == CHOOSE n \in 0..Len(line) :
             /\ \A i \in 1..n : line[i] \in DOMAIN Digit
             /\ n < Len(line) => line[n + 1] \notin DOMAIN Digit
  IN  SubSeq(line, 1, n)

SizeVerdict(line) ==
  LET n == Len(SizeDigits(line))
  IN  IF n = 0 THEN "CONTENT"
      ELSE IF Hex(SizeDigits(line)) > SizeMax THEN "LENGTH"
      ELSE IF n < Len(line) /\ line[n + 1] # ";" THEN "CONTENT"
      ELSE "ok"

(* What begins at place p of w, a chunk's size line, the line end after its *)
(* data or a trailer line, given the readings of what follows it.          *)
ReadAt(w, read, p, at) ==
  LET N == Len(w)
      lineFeeds == {i \in p..Lesser(N, p + BufMax - 1) : w[i] = "LF"}
      next == Min(lineFeeds) + 1
      line == Stripped(SubSeq(w, p, next - 2))
      size == Hex(SizeDigits(line))
  IN  IF at = "end"
      THEN IF p + 1 > N THEN Reading(<<>>, "cut")
           ELSE IF w[p] = "CR" /\ w[p + 1] = "LF" THEN read[p + 2]["size"]
           ELSE Reading(<<>>, "CONTENT")
      ELSE IF lineFeeds = {}
      THEN Reading(<<>>, IF N + 1 - p >= BufMax THEN "LENGTH" ELSE "cut")
      ELSE IF at = "trailer"
      THEN IF line = <<>> THEN Reading(<<>>, "end") ELSE read[next]["trailer"]
      ELSE IF SizeVerdict(line) # "ok" THEN Reading(<<>>, SizeVerdict(line))
      ELSE IF size = 0 THEN read[next]["trailer"]
      ELSE IF next + size > N + 1 THEN Reading(Places(next, N), "cut")
      ELSE LET rest == read[next + size]["end"]
           IN  Reading(Places(next, next + size - 1) \o rest.body, rest.verdict)

(* The chunked body that begins at place p of w. *)
Chunked(w, first) ==
  LET read[p \in 1..Len(w)+1] == [at \in {"size", "end", "trailer"} |-> ReadAt(w, read, p, at)]
  IN  read[first]["size"]

(* Where the heads of w end, if they do within their limit. *)
HeadEnds(w) == {i \in 1..Lesser(Len(w), HeadMax) : w[i] \in {"bad", "final"}}

(* What the bytes w of a reply mean, when its connection was closed after  *)
(* them or is still open.                                                  *)
Meaning(w, framing, length, closed) ==
  LET first == Min(HeadEnds(w)) + 1
  IN  IF HeadEnds(w) = {}
      THEN Reading(<<>>, IF Len(w) >= HeadMax THEN "LENGTH" ELSE "cut")
      ELSE IF w[first - 1] = "bad" THEN Reading(<<>>, "HEADER")
      ELSE CASE framing \in {"HEADER", "CONTENT", "LENGTH"} -> Reading(<<>>, framing)
             [] framing = "none" -> Reading(<<>>, "end")
             [] framing = "length" ->
                  Reading(Places(first, Lesser(Len(w), first + length - 1)),
                          IF first + length - 1 <= Len(w) THEN "end" ELSE "cut")
             [] framing = "close" -> Reading(Places(first, Len(w)), IF closed THEN "end" ELSE "cut")
             [] framing = "chunked" -> Chunked(w, first)

=============================================================================
