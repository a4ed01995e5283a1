-------------------------------- MODULE Random --------------------------------
(***************************************************************************)
(* random.VisibleBytes and random.Bytes (src/random/random.go).           *)
(*                                                                         *)
(* VisibleBytes fills b from the end.  Each src.Int63() gives a 63-bit     *)
(* cache, read as letterIdxMax = 63 / 6 = 10 chunks of 6 bits; a chunk     *)
(* below len(letterBytes) = 62 picks a letter, and chunks 62 and 63 are    *)
(* rejected.  The chunks of a uniform Int63 are independent, so the model *)
(* draws each one from the constant set Chunks and records the draws.     *)
(***************************************************************************)
EXTENDS Integers, Sequences

CONSTANTS
    MaxN,        \* the largest n VisibleBytes is called with
    Chunks,      \* 6-bit values the random source may yield
    MaxDraws,    \* bound on chunks drawn (rejections could go on for ever)
    MaxBytesN    \* the largest n Bytes is checked for

letterIdxBits == 6
letterIdxMax  == 63 \div letterIdxBits
NumLetters    == 62          \* len(letterBytes)

\* letterBytes[idx]: "0123456789abcdefghijklmnopqrstuvwxyzABCDEFGHIJKLMNOPQRSTUVWXYZ"
\* as ASCII codes.
LetterByte(idx) ==
    CASE idx < 10 -> 48 + idx
      [] idx < 36 -> 97 + (idx - 10)
      [] OTHER    -> 65 + (idx - 36)

\* Go's / and % on int truncate toward zero.
GoDiv(a, b) == IF a >= 0 THEN a \div b ELSE -((-a) \div b)
GoMod(a, b) == a - b * GoDiv(a, b)

\* Fault variant of Ceil8: rounds down.
Ceil8Down(n) == GoDiv(n, 8) * 8

\* ceil8(n)
Ceil8(n) == IF GoMod(n, 8) # 0 THEN (GoDiv(n, 8) + 1) * 8 ELSE n

\* Bytes(n): make([]byte, ceil8(n)), one channel read per 8 bytes, b[:n].
BytesReads(n) == Ceil8(n) \div 8

VARIABLES
    n,           \* the argument
    b,           \* the result buffer, b[k] for k \in 0..n-1 (0 until written)
    i,           \* the loop index, from n-1 down to -1
    remain,      \* chunks left in cache
    words,       \* src.Int63() calls so far
    drawn        \* history: every chunk the loop looked at, in order

vars == <<n, b, i, remain, words, drawn>>

\* b := make([]byte, n); cache := src.Int63(); i, remain := n-1, letterIdxMax
Init ==
    /\ n \in 0..MaxN
    /\ b = [k \in 0..n-1 |-> 0]
    /\ i = n - 1
    /\ remain = letterIdxMax
    /\ words = 1
    /\ drawn = <<>>

\* Fault variant of Refill: the cache is read for one chunk more than
\* the 63 bits it holds.
RefillLate(r) == IF r = -1 THEN letterIdxMax ELSE r

\* if remain == 0 { cache = src.Int63(); remain = letterIdxMax }
Refill(r) == IF r = 0 THEN letterIdxMax ELSE r

\* One iteration of the loop: refill if needed, take the low 6 bits,
\* store a letter and move i down when the chunk is accepted, shift.
Iterate ==
    /\ i >= 0 /\ Len(drawn) < MaxDraws
    /\ \E idx \in Chunks :
          LET r == Refill(remain) IN
          /\ words' = IF r # remain THEN words + 1 ELSE words
          /\ drawn' = Append(drawn, idx)
          /\ remain' = r - 1
          /\ IF idx < NumLetters
               THEN b' = [b EXCEPT ![i] = LetterByte(idx)] /\ i' = i - 1
               ELSE UNCHANGED <<b, i>>
    /\ UNCHANGED n

\* VisibleBytes has returned (or the draw bound is reached).
Done ==
    /\ i < 0 \/ Len(drawn) = MaxDraws
    /\ UNCHANGED vars

Next == Iterate \/ Done

Spec == Init /\ [][Next]_vars

-----------------------------------------------------------------------------
(* Reference definitions.                                                  *)

\* The bytes the draws s should produce, last position first: rejected
\* chunks are skipped, an accepted one becomes the byte before the bytes
\* of the rest.
RECURSIVE Visible(_)
Visible(s) ==
    IF s = <<>> THEN <<>>
    ELSE IF Head(s) < NumLetters
         THEN Visible(Tail(s)) \o <<LetterByte(Head(s))>>
         ELSE Visible(Tail(s))

IsAlnum(c) == c \in (48..57) \cup (65..90) \cup (97..122)

\* The smallest multiple of 8 that is not below k.
RefCeil8(k) == CHOOSE m \in k..k+7 : m % 8 = 0

\* The bytes VisibleBytes returns are exactly those the reference builds
\* from the same draws, each an ASCII letter or digit; every Int63 is
\* read for at most 10 chunks, so no chunk reuses or invents bits.
VisibleBytesCorrect ==
    /\ \A idx \in 0..NumLetters-1 : IsAlnum(LetterByte(idx))
    /\ i < 0 =>
          /\ [k \in 1..n |-> b[k - 1]] = Visible(drawn)
          /\ \A k \in 0..n-1 : IsAlnum(b[k])
    /\ words = IF drawn = <<>> THEN 1
               ELSE (Len(drawn) + letterIdxMax - 1) \div letterIdxMax

\* Bytes(n) for n >= 0 rounds the buffer up to a whole number of 8-byte
\* reads and never reads fewer bytes than it returns.
BytesCeil8Correct ==
    \A k \in 0..MaxBytesN : Ceil8(k) = RefCeil8(k) /\ BytesReads(k) * 8 >= k

=============================================================================
