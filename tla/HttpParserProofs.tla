------------------------- MODULE HttpParserProofs ---------------------------
(* The two halves of picohttpparser. For every body, every cut of it and     *)
(* every width of size_t: the chunk decoder stays inside its buffer and its  *)
(* size inside size_t, and what its calls return together is what one call   *)
(* on the whole body returns. For every message, every cut of it and every   *)
(* array of headers: so it is with the parser, what it decides does not      *)
(* change with what follows, and the headers are the lines of the message.   *)
EXTENDS MCHttpParser, SequenceTheorems, FiniteSetTheorems, NaturalsInduction,
        WellFoundedInduction, TLAPS

(* InBuffer is not inductive: that a size does not wrap around follows from  *)
(* its digits being counted, with the powers of 16 that are left for those   *)
(* to come; that the next one begins at 0, from the chunk being used up.     *)
BufferInv == /\ buf \in Seq(Characters) /\ source \in Seq(Characters) /\ body \in Seq(Characters)
             /\ src \in Nat /\ dst \in Nat /\ dst <= src /\ src <= Len(buf)
SizeInv == /\ left \in Nat /\ hexes \in 0 .. HexMax
           /\ state = "SIZE" => (left + 1) * Power[HexMax - hexes] <= Power[HexMax]
           /\ state # "SIZE" => hexes = 0 /\ left < Power[HexMax]
           /\ state = "CRLF" => left = 0
PInv == BufferInv /\ SizeInv

(* memmove towards the front, of octets that are there: a buffer of the same *)
(* length.                                                                   *)
LEMMA MovedType ==
  ASSUME NEW b \in Seq(Characters), NEW to \in Nat, NEW from \in Nat, NEW n \in Nat,
         to <= from, from + n <= Len(b)
  PROVE  Moved(b, to, from, n) \in Seq(Characters) /\ Len(Moved(b, to, from, n)) = Len(b)
<1> DEFINE f == [k \in 1 .. Len(b) |-> IF k > to /\ k <= to + n THEN b[k - to + from] ELSE b[k]]
<1>1. Len(b) \in Nat /\ \A k \in 1 .. Len(b) : b[k] \in Characters
  OBVIOUS
<1>2. \A k \in 1 .. Len(b) : k > to /\ k <= to + n => k - to + from \in 1 .. Len(b)
  BY <1>1
<1>3. f \in [1 .. Len(b) -> Characters]
  BY <1>1, <1>2
<1>4. f \in Seq(Characters) /\ Len(f) = Len(b)
  <2>1. \A m \in Nat : \A g \in [1 .. m -> Characters] : g \in Seq(Characters) /\ Len(g) = m
    OBVIOUS
  <2>2. QED  BY <1>1, <1>3, <2>1
<1>5. QED  BY <1>4 DEF Moved

(* Whatever a call returns, it leaves the buffer and both counts in range.   *)
LEMMA LeaveInRange ==
  ASSUME NEW a, NEW b \in Seq(Characters), NEW d \in Nat, NEW s \in Nat,
         d <= s, s <= Len(b), source \in Seq(Characters), body \in Seq(Characters),
         Leave(a, b, d, s)
  PROVE  BufferInv'
<1>1. Len(b) - s \in Nat /\ s + (Len(b) - s) <= Len(b)
  OBVIOUS
<1>2. /\ buf' = Moved(b, d, s, Len(b) - s) /\ src' = s /\ dst' = d
      /\ source' = source /\ body' = body
  BY DEF Leave
<1>3. buf' \in Seq(Characters) /\ Len(buf') = Len(b)
  BY <1>1, <1>2, MovedType
<1>4. QED  BY <1>2, <1>3 DEF BufferInv

(* The state and the sizes stay.                                             *)
LEMMA SizeKept == SizeInv /\ UNCHANGED decoder => SizeInv'
  BY DEF SizeInv, decoder

(* The counts of one character passed.                                       *)
LEMMA PastInRange == BufferInv /\ Ahead /\ Past => BufferInv'
  BY DEF BufferInv, Ahead, Past, history

(* A call of the decoder that fails or waits where it stands.                *)
LEMMA StopsHere == ASSUME NEW a, PInv, Leave(a, buf, dst, src), UNCHANGED decoder
                   PROVE  PInv'
<1>1. BufferInv'
  BY LeaveInRange DEF PInv, BufferInv
<1>2. QED  BY <1>1, SizeKept DEF PInv

(* The powers of 16 up to the range of size_t.                               *)
LEMMA PowerType == /\ HexMax \in Nat \ {0}
                   /\ \A h \in 0 .. HexMax : Power[h] \in Nat \ {0}
                   /\ \A h \in 1 .. HexMax : Power[h] = 16 * Power[h - 1]
  BY HexMaxAssumption, PowerAssumption

(* One digit more: 16 times the size, and a power of 16 less that is left.   *)
LEMMA OneDigit ==
  ASSUME NEW l \in Nat, NEW d \in 0 .. 15, NEW q \in Nat, NEW p \in Nat,
         (l + 1) * (16 * q) <= p
  PROVE  (l * 16 + d + 1) * q <= p
<1>1. (l + 1) * (16 * q) = (l * 16 + 16) * q
  OBVIOUS
<1>2. (l * 16 + 16) * q = (l * 16 + d + 1) * q + (15 - d) * q
  OBVIOUS
<1>3. (15 - d) * q \in Nat /\ (l * 16 + d + 1) * q \in Nat
  OBVIOUS
<1>4. QED  BY <1>1, <1>2, <1>3

(* A bound on a product bounds its factor.                                   *)
LEMMA Bounded == ASSUME NEW l \in Nat, NEW q \in Nat \ {0}, NEW p \in Nat, (l + 1) * q <= p
                 PROVE  l < p
<1>1. (l + 1) * q = (l + 1) + (l + 1) * (q - 1)
  OBVIOUS
<1>2. (l + 1) * (q - 1) \in Nat
  OBVIOUS
<1>3. QED  BY <1>1, <1>2

(* The size read so far is in range whatever the state.                      *)
LEMMA SizeBounded == SizeInv => left < Power[HexMax]
<1> SUFFICES ASSUME SizeInv, state = "SIZE" PROVE left < Power[HexMax]
  BY DEF SizeInv
<1>1. HexMax - hexes \in 0 .. HexMax /\ HexMax \in 0 .. HexMax
  BY PowerType DEF SizeInv
<1>2. Power[HexMax - hexes] \in Nat \ {0} /\ Power[HexMax] \in Nat
  BY <1>1, PowerType
<1>3. QED  BY <1>2, Bounded DEF SizeInv

(* The bounds hold when nothing has arrived,                                 *)
LEMMA InitPInv == Init => PInv
<1> SUFFICES ASSUME Init PROVE PInv
  OBVIOUS
<1>1. BufferInv
  BY BodiesAssumption DEF Init, BufferInv
<1>2. SizeInv
  <2>1. Power[HexMax] \in Nat
    BY PowerType
  <2>2. hexes = 0 /\ left = 0 /\ state = "SIZE" /\ HexMax - 0 = HexMax
    BY PowerType DEF Init
  <2>3. (0 + 1) * Power[HexMax] <= Power[HexMax]
    BY <2>1
  <2>4. QED  BY <2>1, <2>2, <2>3, PowerType DEF SizeInv
<1>3. QED  BY <1>1, <1>2 DEF PInv

(* and each action keeps them: the next piece,                               *)
LEMMA CallPInv == ASSUME NEW n \in 1 .. Len(source) - Len(body), PInv, Call(n) PROVE PInv'
<1>1. source \in Seq(Characters) /\ body \in Seq(Characters)
  BY DEF PInv, BufferInv
<1>2. Len(source) \in Nat /\ Len(body) \in Nat /\ n \in Nat /\ Len(body) + n <= Len(source)
  BY <1>1
<1>3. buf' = SubSeq(source, Len(body) + 1, Len(body) + n) /\ body' = body \o buf'
  BY DEF Call
<1>4. buf' \in Seq(Characters)
  BY <1>1, <1>2, <1>3
<1>5. body' \in Seq(Characters)
  BY <1>1, <1>3, <1>4
<1>6. BufferInv'
  BY <1>1, <1>4, <1>5 DEF Call, BufferInv
<1>7. QED  BY <1>6, SizeKept DEF Call, PInv

(* one more digit of a size,                                                 *)
LEMMA SizeDigitPInv == PInv /\ SizeDigit => PInv'
<1> SUFFICES ASSUME PInv, SizeDigit PROVE PInv'
  OBVIOUS
<1>1. CASE hexes = HexMax
  BY <1>1, StopsHere DEF SizeDigit
<1>2. CASE hexes # HexMax
  <2>1. /\ left' = left * 16 + Digit[Here] /\ hexes' = hexes + 1 /\ state' = state
        /\ state = "SIZE" /\ Here \in DOMAIN Digit
    BY <1>2 DEF SizeDigit
  <2>2. Digit[Here] \in 0 .. 15
    BY <2>1, DigitAssumption
  <2>3. /\ left \in Nat /\ hexes \in 0 .. HexMax /\ hexes + 1 \in 0 .. HexMax
        /\ HexMax - hexes \in 1 .. HexMax /\ HexMax - (hexes + 1) = (HexMax - hexes) - 1
        /\ HexMax - (hexes + 1) \in 0 .. HexMax
    BY <1>2, PowerType DEF PInv, SizeInv
  <2>4. /\ Power[HexMax - hexes] = 16 * Power[HexMax - (hexes + 1)]
        /\ Power[HexMax - (hexes + 1)] \in Nat /\ Power[HexMax] \in Nat
    BY <2>3, PowerType
  <2>5. (left + 1) * (16 * Power[HexMax - (hexes + 1)]) <= Power[HexMax]
    BY <2>1, <2>4 DEF PInv, SizeInv
  <2>6. (left * 16 + Digit[Here] + 1) * Power[HexMax - (hexes + 1)] <= Power[HexMax]
    BY <2>2, <2>3, <2>4, <2>5, OneDigit
  <2>7. left * 16 + Digit[Here] \in Nat
    BY <2>2, <2>3
  <2>8. SizeInv'
    BY <2>1, <2>3, <2>6, <2>7 DEF SizeInv
  <2>9. BufferInv'
    BY <1>2, PastInRange DEF SizeDigit, PInv
  <2>10. QED  BY <2>8, <2>9 DEF PInv
<1>3. QED  BY <1>1, <1>2

(* the end of the digits,                                                    *)
LEMMA SizeEndPInv == PInv /\ SizeEnd => PInv'
<1> SUFFICES ASSUME PInv, SizeEnd PROVE PInv'
  OBVIOUS
<1>1. CASE hexes = 0
  BY <1>1, StopsHere DEF SizeEnd
<1>2. CASE hexes # 0
  <2>1. left < Power[HexMax]
    BY SizeBounded DEF PInv
  <2>2. SizeInv'
    BY <1>2, <2>1, PowerType DEF SizeEnd, PInv, SizeInv
  <2>3. BufferInv'
    BY <1>2 DEF SizeEnd, PInv, BufferInv, history
  <2>4. QED  BY <2>2, <2>3 DEF PInv
<1>3. QED  BY <1>1, <1>2

(* the end of a size line,                                                   *)
LEMMA ExtEndPInv == PInv /\ ExtEnd => PInv'
<1> SUFFICES ASSUME PInv, ExtEnd PROVE PInv'
  OBVIOUS
<1>1. CASE left = 0 /\ ~trailer
  <2>1. /\ Leave(Len(buf) - src - 1, buf, dst, src + 1) /\ UNCHANGED decoder
        /\ buf \in Seq(Characters) /\ source \in Seq(Characters) /\ body \in Seq(Characters)
        /\ dst \in Nat /\ src + 1 \in Nat /\ dst <= src + 1 /\ src + 1 <= Len(buf)
    BY <1>1 DEF ExtEnd, Ahead, PInv, BufferInv
  <2>2. BufferInv'
    BY <2>1, LeaveInRange
  <2>3. QED  BY <2>1, <2>2, SizeKept DEF PInv
<1>2. CASE ~(left = 0 /\ ~trailer)
  <2>1. BufferInv'
    BY <1>2, PastInRange DEF ExtEnd, PInv
  <2>2. SizeInv'
    BY <1>2 DEF ExtEnd, PInv, SizeInv
  <2>3. QED  BY <2>1, <2>2 DEF PInv
<1>3. QED  BY <1>1, <1>2

(* Of the chunk only what is in the buffer is moved and taken off its size.  *)
LEMMA DataPInv == PInv /\ Data => PInv'
<1> SUFFICES ASSUME PInv, Data PROVE PInv'
  OBVIOUS
<1> DEFINE n == Available
           b == Moved(buf, dst, src, n)
<1>1. /\ buf \in Seq(Characters) /\ source \in Seq(Characters) /\ body \in Seq(Characters)
      /\ src \in Nat /\ dst \in Nat /\ dst <= src /\ src <= Len(buf) /\ Len(buf) \in Nat
      /\ left \in Nat /\ left < Power[HexMax] /\ hexes = 0 /\ state = "DATA"
      /\ Power[HexMax] \in Nat
  BY PowerType DEF PInv, BufferInv, SizeInv, Data
<1>2. n \in Nat /\ src + n <= Len(buf) /\ left - n \in Nat /\ (~(n < left) => left - n = 0)
  BY <1>1 DEF Available
<1>3. b \in Seq(Characters) /\ Len(b) = Len(buf)
  BY <1>1, <1>2, MovedType
<1>4. Take(n, left - n)
  BY DEF Data
<1> HIDE DEF n, b
<1>5. left' = left - n /\ hexes' = hexes /\ left - n < Power[HexMax]
  BY <1>1, <1>2, <1>4 DEF Take
<1>6. CASE n < left
  <2>1. Leave(EXIT, b, dst + n, src + n) /\ state' = state
    BY <1>4, <1>6 DEF Take, b
  <2>2. BufferInv'
    BY <1>1, <1>2, <1>3, <2>1, LeaveInRange
  <2>3. SizeInv'
    BY <1>1, <1>2, <1>5, <2>1, PowerType DEF SizeInv
  <2>4. QED  BY <2>2, <2>3 DEF PInv
<1>7. CASE ~(n < left)
  <2>1. /\ state' = "CRLF" /\ buf' = b /\ src' = src + n /\ dst' = dst + n
        /\ source' = source /\ body' = body
    BY <1>4, <1>7 DEF Take, b, history
  <2>2. BufferInv'
    BY <1>1, <1>2, <1>3, <2>1 DEF BufferInv
  <2>3. SizeInv'
    BY <1>1, <1>2, <1>5, <1>7, <2>1, PowerType DEF SizeInv
  <2>4. QED  BY <2>2, <2>3 DEF PInv
<1>8. QED  BY <1>6, <1>7

(* the newline behind a chunk,                                               *)
LEMMA ChunkEndPInv == PInv /\ ChunkEnd => PInv'
<1> SUFFICES ASSUME PInv, ChunkEnd PROVE PInv'
  OBVIOUS
<1>1. CASE Here = "LF"
  <2>1. BufferInv'
    BY <1>1, PastInRange DEF ChunkEnd, PInv
  <2>2. /\ left' = 0 /\ hexes' = 0 /\ state' = "SIZE" /\ HexMax - 0 = HexMax
    BY <1>1, PowerType DEF ChunkEnd, PInv, SizeInv
  <2>3. Power[HexMax] \in Nat /\ (0 + 1) * Power[HexMax] <= Power[HexMax]
    BY PowerType
  <2>4. SizeInv'
    BY <2>2, <2>3, PowerType DEF SizeInv
  <2>5. QED  BY <2>1, <2>4 DEF PInv
<1>2. CASE Here # "LF"
  BY <1>2, StopsHere DEF ChunkEnd
<1>3. QED  BY <1>1, <1>2

(* the end of the trailers.                                                  *)
LEMMA LineHeadPInv == PInv /\ LineHead => PInv'
<1> SUFFICES ASSUME PInv, LineHead PROVE PInv'
  OBVIOUS
<1>1. CASE Here = "LF"
  <2>1. /\ Leave(Len(buf) - src - 1, buf, dst, src + 1) /\ UNCHANGED decoder
        /\ buf \in Seq(Characters) /\ source \in Seq(Characters) /\ body \in Seq(Characters)
        /\ dst \in Nat /\ src + 1 \in Nat /\ dst <= src + 1 /\ src + 1 <= Len(buf)
    BY <1>1 DEF LineHead, Ahead, PInv, BufferInv
  <2>2. BufferInv'
    BY <2>1, LeaveInRange
  <2>3. QED  BY <2>1, <2>2, SizeKept DEF PInv
<1>2. CASE Here # "LF"
  <2>1. BufferInv'
    BY <1>2, PastInRange DEF LineHead, PInv
  <2>2. SizeInv'
    BY <1>2 DEF LineHead, PInv, SizeInv
  <2>3. QED  BY <2>1, <2>2 DEF PInv
<1>3. QED  BY <1>1, <1>2

(* The states that only pass a character.                                    *)
LEMMA PassingPInv == PInv /\ (ExtSkip \/ SkipCR \/ LineMiddle) => PInv'
<1> SUFFICES ASSUME PInv, ExtSkip \/ SkipCR \/ LineMiddle PROVE PInv'
  OBVIOUS
<1>1. BufferInv'
  BY PastInRange DEF ExtSkip, SkipCR, LineMiddle, PInv
<1>2. SizeInv'
  BY DEF ExtSkip, SkipCR, LineMiddle, PInv, SizeInv
<1>3. QED  BY <1>1, <1>2 DEF PInv

(* Every step keeps the bounds.                                              *)
LEMMA NextPInv == PInv /\ [Next]_vars => PInv'
<1> SUFFICES ASSUME PInv, [Next]_vars PROVE PInv'
  OBVIOUS
<1>1. CASE \E n \in 1 .. Len(source) - Len(body) : Call(n)
  BY <1>1, CallPInv
<1>2. CASE Starve
  BY <1>2, StopsHere DEF Starve
<1>3. CASE SizeDigit
  BY <1>3, SizeDigitPInv
<1>4. CASE SizeEnd
  BY <1>4, SizeEndPInv
<1>5. CASE ExtEnd
  BY <1>5, ExtEndPInv
<1>6. CASE Data
  BY <1>6, DataPInv
<1>7. CASE ChunkEnd
  BY <1>7, ChunkEndPInv
<1>8. CASE LineHead
  BY <1>8, LineHeadPInv
<1>9. CASE ExtSkip \/ SkipCR \/ LineMiddle
  BY <1>9, PassingPInv
<1>10. CASE UNCHANGED vars
  BY <1>10 DEF PInv, BufferInv, SizeInv, vars, decoder, history
<1>11. QED
  BY <1>1, <1>2, <1>3, <1>4, <1>5, <1>6, <1>7, <1>8, <1>9, <1>10 DEF Next, Decode

(* phr_decode_chunked reads and moves inside its buffer, never towards the   *)
(* end, and no size wraps around size_t, however a body is written and cut.  *)
THEOREM InBufferCorrect == Spec => []InBuffer
<1>1. PInv => InBuffer
  BY SizeBounded DEF PInv, BufferInv, SizeInv, InBuffer
<1>2. QED  BY <1>1, InitPInv, NextPInv, PTL DEF Spec
-----------------------------------------------------------------------------
(* Induction on 0 .. n for a set.                                            *)
LEMMA SetInduction ==
  ASSUME NEW n \in Nat, NEW S, 0 \in S, \A d \in 0 .. n - 1 : d \in S => d + 1 \in S
  PROVE  \A d \in 0 .. n : d \in S
<1> DEFINE T == {d \in 0 .. n : d \notin S}
           R == {q \in Nat \X Nat : q[1] < q[2]}
<1>1. SUFFICES ASSUME T # {} PROVE FALSE
  OBVIOUS
<1>2. IsWellFoundedOn(R, Nat)
  BY NatLessThanWellFounded DEF OpToRel
<1>3. T \subseteq Nat
  OBVIOUS
<1>4. PICK m \in T : \A e \in T : ~(<<e, m>> \in R)
  BY <1>1, <1>2, <1>3, WFMin
<1>5. m \in 1 .. n /\ m - 1 \in 0 .. n - 1 /\ m \notin S
  OBVIOUS
<1>6. m - 1 \in S
  <2>1. <<m - 1, m>> \in R
    BY <1>5
  <2> QED  BY <1>4, <1>5, <2>1
<1> QED
  <2>1. (m - 1) + 1 \in S
    BY <1>5, <1>6
  <2> QED  BY <1>5, <2>1

(* A set of naturals has a least element.                                    *)
LEMMA LeastOf ==
  ASSUME NEW T, T \subseteq Nat, T # {} PROVE \E m \in T : \A x \in T : m <= x
<1> DEFINE R == {q \in Nat \X Nat : q[1] < q[2]}
<1>1. IsWellFoundedOn(R, Nat)
  BY NatLessThanWellFounded DEF OpToRel
<1>2. PICK m \in T : \A e \in T : ~(<<e, m>> \in R)
  BY <1>1, WFMin
<1>3. ASSUME NEW x \in T PROVE m <= x
  <2>1. x \in Nat /\ m \in Nat /\ ~(<<x, m>> \in R)
    BY <1>2
  <2>2. ~(x < m)
    BY <2>1
  <2>3. QED  BY <2>1, <2>2
<1>4. QED  BY <1>3

(* What Min returns.                                                         *)
LEMMA MinIs ==
  ASSUME NEW T, T \subseteq Int, NEW m \in T, \A x \in T : m <= x PROVE Min(T) = m
<1>1. \A y \in T : (\A x \in T : y <= x) => y = m
  OBVIOUS
<1>2. QED  BY <1>1 DEF Min

(* The first position with a character of S is found.                        *)
LEMMA FirstIs ==
  ASSUME NEW S, NEW i \in Nat, NEW n \in Nat, NEW j \in i .. n, source[j] \in S,
         \A k \in i .. j - 1 : source[k] \notin S
  PROVE  First(S, i, n) = j
<1> DEFINE T == {k \in i .. n : source[k] \in S} \cup {n + 1}
<1>1. T \subseteq Int /\ j \in T
  OBVIOUS
<1>2. \A x \in T : j <= x
  OBVIOUS
<1> HIDE DEF T
<1>3. Min(T) = j
  BY <1>1, <1>2, MinIs
<1>4. QED  BY <1>3 DEF First, T

(* No position with a character of S: behind the end.                        *)
LEMMA FirstIsNone ==
  ASSUME NEW S, NEW i \in Nat, NEW n \in Nat, \A k \in i .. n : source[k] \notin S
  PROVE  First(S, i, n) = n + 1
<1>1. {k \in i .. n : source[k] \in S} \cup {n + 1} = {n + 1}
  OBVIOUS
<1>2. Min({n + 1}) = n + 1
  BY MinIs
<1>3. QED  BY <1>1, <1>2 DEF First

(* Where the first position with a character of S can be.                    *)
LEMMA FirstType ==
  ASSUME NEW S, NEW i \in Nat, NEW n \in Nat, i <= n + 1
  PROVE  LET f == First(S, i, n)
         IN /\ f \in i .. n + 1 /\ (f <= n => source[f] \in S)
            /\ \A k \in i .. f - 1 : source[k] \notin S
<1> DEFINE T == {k \in i .. n : source[k] \in S} \cup {n + 1}
<1>1. T \subseteq Nat /\ n + 1 \in T
  OBVIOUS
<1>2. PICK m \in T : \A x \in T : m <= x
  BY <1>1, LeastOf
<1>3. First(S, i, n) = m
  <2> HIDE DEF T
  <2>1. Min(T) = m
    <3>1. T \subseteq Int
      BY <1>1
    <3>2. QED  BY <1>2, <3>1, MinIs
  <2>2. QED  BY <2>1 DEF First, T
<1>4. m \in i .. n + 1 /\ (m <= n => source[m] \in S)
  OBVIOUS
<1>5. \A k \in i .. m - 1 : source[k] \notin S
  <2> SUFFICES ASSUME NEW k \in i .. m - 1, source[k] \in S PROVE FALSE
    OBVIOUS
  <2>1. k \in T
    BY <1>4
  <2>2. QED  BY <1>2, <2>1
<1>6. QED  BY <1>3, <1>4, <1>5

(* The number that digits write, digit by digit.                             *)
IsNumber(f, i, n) ==
  f = [k \in i - 1 .. n |-> IF k < i THEN 0 ELSE f[k - 1] * 16 + Digit[source[k]]]

(* The function that reads digits from i to n exists,                        *)
LEMMA NumbersExist ==
  ASSUME NEW i \in Nat \ {0}, NEW n \in Nat, i <= n + 1 PROVE \E f : IsNumber(f, i, n)
<1> DEFINE S == {m \in 0 .. n + 1 - i : \E f : IsNumber(f, i, i - 1 + m)}
<1>1. 0 \in S
  <2> DEFINE f == [k \in i - 1 .. i - 1 |-> 0]
  <2>1. IsNumber(f, i, i - 1)
    BY DEF IsNumber
  <2>2. i - 1 = i - 1 + 0 /\ 0 \in 0 .. n + 1 - i
    OBVIOUS
  <2> HIDE DEF f
  <2>3. QED  BY <2>1, <2>2
<1>2. ASSUME NEW m \in 0 .. n + 1 - i - 1, m \in S PROVE m + 1 \in S
  <2>1. PICK f : IsNumber(f, i, i - 1 + m)
    BY <1>2
  <2> DEFINE z == i + m
             g == [k \in i - 1 .. z |-> IF k = z THEN f[z - 1] * 16 + Digit[source[z]] ELSE f[k]]
  <2>2. \A k \in i - 1 .. z - 1 : f[k] = IF k < i THEN 0 ELSE f[k - 1] * 16 + Digit[source[k]]
    BY <2>1 DEF IsNumber
  <2>3. \A k \in i - 1 .. z : g[k] = IF k < i THEN 0 ELSE g[k - 1] * 16 + Digit[source[k]]
    <3> SUFFICES ASSUME NEW k \in i - 1 .. z
                 PROVE  g[k] = IF k < i THEN 0 ELSE g[k - 1] * 16 + Digit[source[k]]
      OBVIOUS
    <3>1. CASE k = z
      BY <3>1
    <3>2. CASE k # z
      <4>1. k \in i - 1 .. z - 1 /\ g[k] = f[k] /\ (k >= i => k - 1 \in i - 1 .. z /\ k - 1 # z)
        <5>1. k <= z - 1
          BY <3>2
        <5>2. QED  BY <3>2, <5>1
      <4>2. k >= i => g[k - 1] = f[k - 1]
        BY <4>1
      <4>3. QED  BY <2>2, <4>1, <4>2
    <3>3. QED  BY <3>1, <3>2
  <2>4. g = [k \in i - 1 .. z |-> g[k]]
    OBVIOUS
  <2> HIDE DEF g
  <2>5. g = [k \in i - 1 .. z |-> IF k < i THEN 0 ELSE g[k - 1] * 16 + Digit[source[k]]]
    BY <2>3, <2>4
  <2>6. z = i - 1 + (m + 1) /\ m + 1 \in 0 .. n + 1 - i
    OBVIOUS
  <2>7. IsNumber(g, i, i - 1 + (m + 1))
    BY <2>5, <2>6 DEF IsNumber
  <2>8. QED  BY <2>6, <2>7
<1> HIDE DEF S
<1>3. n + 1 - i \in Nat
  OBVIOUS
<1>4. \A m \in 0 .. n + 1 - i : m \in S
  BY <1>1, <1>2, <1>3, SetInduction
<1>5. n + 1 - i \in S /\ i - 1 + (n + 1 - i) = n
  BY <1>3, <1>4
<1>6. QED  BY <1>5 DEF S

(* so Number is what its definition says, digit by digit,                    *)
LEMMA NumberIs ==
  ASSUME NEW i \in Nat \ {0}, Len(source) \in Nat, i <= Len(source) + 1
  PROVE  /\ Number(i, i - 1) = 0
         /\ \A j \in i .. Len(source) : Number(i, j) = Number(i, j - 1) * 16 + Digit[source[j]]
<1> DEFINE f == CHOOSE f : IsNumber(f, i, Len(source))
<1>1. IsNumber(f, i, Len(source))
  BY NumbersExist
<1>2. \A j : Number(i, j) = f[j]
  BY DEF Number, IsNumber
<1> HIDE DEF f
<1>3. /\ f[i - 1] = 0
      /\ \A j \in i .. Len(source) : f[j] = f[j - 1] * 16 + Digit[source[j]]
  BY <1>1 DEF IsNumber
<1>4. QED  BY <1>2, <1>3

(* and a natural number as long as there are only digits.                    *)
LEMMA NumberType ==
  ASSUME NEW i \in Nat \ {0}, source \in Seq(Characters), NEW j \in Nat,
         i <= j + 1, j <= Len(source), \A k \in i .. j : source[k] \notin Others
  PROVE  Number(i, j) \in Nat
<1> DEFINE S == {m \in 0 .. j + 1 - i : Number(i, i - 1 + m) \in Nat}
<1>1. Len(source) \in Nat /\ j + 1 - i \in Nat /\ i <= Len(source) + 1
  OBVIOUS
<1>2. 0 \in S
  <2>1. i - 1 + 0 = i - 1 /\ 0 \in 0 .. j + 1 - i
    BY <1>1
  <2>2. QED  BY <1>1, <2>1, NumberIs
<1>3. ASSUME NEW m \in 0 .. j + 1 - i - 1, m \in S PROVE m + 1 \in S
  <2> DEFINE z == i + m
  <2>1. z \in i .. j /\ z \in i .. Len(source) /\ i - 1 + m = z - 1 /\ i - 1 + (m + 1) = z
        /\ m + 1 \in 0 .. j + 1 - i
    BY <1>1
  <2> HIDE DEF z
  <2>2. source[z] \in DOMAIN Digit
    BY <2>1 DEF Characters
  <2>3. Digit[source[z]] \in Nat
    <3>1. Digit[source[z]] \in 0 .. 15
      BY <2>2, DigitAssumption
    <3>2. QED  BY <3>1
  <2>4. Number(i, z) = Number(i, z - 1) * 16 + Digit[source[z]] /\ Number(i, z - 1) \in Nat
    BY <1>1, <1>3, <2>1, NumberIs
  <2>5. Number(i, z) \in Nat
    BY <2>3, <2>4
  <2>6. QED  BY <2>1, <2>5
<1> HIDE DEF S
<1>4. j + 1 - i \in Nat
  BY <1>1
<1>5. \A d \in 0 .. (j + 1 - i) - 1 : d \in S => d + 1 \in S
  BY <1>3
<1>6. \A m \in 0 .. j + 1 - i : m \in S
  BY <1>2, <1>4, <1>5, SetInduction
<1>7. j + 1 - i \in S /\ i - 1 + (j + 1 - i) = j
  BY <1>1, <1>6
<1>8. QED  BY <1>7 DEF S
-----------------------------------------------------------------------------
(* The parts of a chunk, in their order.                                     *)
LEMMA LayoutType ==
  ASSUME source \in Seq(Characters), NEW n \in 0 .. Len(source), NEW i \in 1 .. n + 1
  PROVE  /\ DigitsEnd(i, n) \in i .. n + 1 /\ LineEnd(i, n) \in DigitsEnd(i, n) .. n + 1
         /\ \A k \in i .. DigitsEnd(i, n) - 1 : source[k] \notin Others
         /\ Size(i, n) \in Nat
         /\ IsFollowed(i, n) => ChunkStop(i, n) + 1 \in i + 1 .. n + 1
<1>1. n \in Nat /\ i \in Nat \ {0} /\ Len(source) \in Nat /\ n <= Len(source)
  OBVIOUS
<1>2. /\ DigitsEnd(i, n) \in i .. n + 1
      /\ \A k \in i .. DigitsEnd(i, n) - 1 : source[k] \notin Others
  BY <1>1, FirstType DEF DigitsEnd
<1>3. DigitsEnd(i, n) \in Nat /\ DigitsEnd(i, n) <= n + 1
  BY <1>1, <1>2
<1>4. LineEnd(i, n) \in DigitsEnd(i, n) .. n + 1
  BY <1>1, <1>3, FirstType DEF LineEnd
<1>5. Size(i, n) \in Nat
  <2>1. /\ DigitsEnd(i, n) - 1 \in Nat /\ i <= (DigitsEnd(i, n) - 1) + 1
        /\ DigitsEnd(i, n) - 1 <= Len(source)
    BY <1>1, <1>2
  <2>2. QED  BY <1>1, <1>2, <2>1, NumberType DEF Size
<1>6. ASSUME IsFollowed(i, n) PROVE ChunkStop(i, n) + 1 \in i + 1 .. n + 1
  <2> DEFINE a == LineEnd(i, n) + Size(i, n) + 1
  <2>1. ChunkStop(i, n) <= n
    BY <1>6 DEF IsFollowed
  <2>2. a \in Nat /\ a > i
    BY <1>2, <1>4, <1>5
  <2>3. CASE a <= n + 1
    <3>1. ChunkStop(i, n) \in a .. n + 1
      BY <1>1, <2>2, <2>3, FirstType DEF ChunkStop
    <3> HIDE DEF a
    <3>2. QED  BY <1>1, <2>1, <2>2, <3>1
  <2>4. CASE ~(a <= n + 1)
    <3>1. \A k \in a .. n : source[k] \notin Characters \ {"CR"}
      BY <2>2, <2>4
    <3>2. ChunkStop(i, n) = n + 1
      BY <1>1, <2>2, <3>1, FirstIsNone DEF ChunkStop
    <3>3. QED  BY <1>1, <2>1, <3>2
  <2>5. QED  BY <2>3, <2>4
<1>7. QED  BY <1>2, <1>4, <1>5, <1>6

(* The recursion over the chunks is well founded.                            *)
ChunkOf(f, i, n) == IF IsFollowed(i, n)
                    THEN <<f[ChunkStop(i, n) + 1][1], ChunkData(i, n) \o f[ChunkStop(i, n) + 1][2]>>
                    ELSE <<LastAnswer(i, n), ChunkData(i, n)>>

(* The function over the chunks exists,                                      *)
LEMMA ChunksExist ==
  ASSUME source \in Seq(Characters), NEW n \in 0 .. Len(source)
  PROVE  \E f : f = [i \in 1 .. n + 1 |-> ChunkOf(f, i, n)]
<1> DEFINE Is(f, m) == f = [i \in n + 2 - m .. n + 1 |-> ChunkOf(f, i, n)]
           S == {m \in 0 .. n + 1 : \E f : Is(f, m)}
<1>1. n \in Nat /\ n + 1 \in Nat
  OBVIOUS
<1>2. 0 \in S
  <2> DEFINE f == [i \in {} |-> 0]
  <2>1. n + 2 - 0 .. n + 1 = {} /\ 0 \in 0 .. n + 1
    BY <1>1
  <2>2. f = [i \in {} |-> ChunkOf(f, i, n)]
    OBVIOUS
  <2> HIDE DEF f
  <2>3. QED  BY <2>1, <2>2
<1>3. ASSUME NEW m \in 0 .. n, m \in S PROVE m + 1 \in S
  <2> DEFINE z == n + 1 - m
  <2>1. z \in 1 .. n + 1 /\ n + 2 - m = z + 1 /\ n + 2 - (m + 1) = z /\ m + 1 \in 0 .. n + 1
    BY <1>1
  <2>2. PICK f : f = [i \in z + 1 .. n + 1 |-> ChunkOf(f, i, n)]
    BY <1>3, <2>1
  <2> HIDE DEF z
  <2> DEFINE g == [i \in z .. n + 1 |-> IF i = z THEN ChunkOf(f, z, n) ELSE f[i]]
  <2>3. \A i \in z + 1 .. n + 1 : g[i] = f[i]
    BY <2>1
  <2>4. ASSUME NEW i \in z .. n + 1 PROVE g[i] = ChunkOf(g, i, n)
    <3>1. i \in 1 .. n + 1 /\ (IsFollowed(i, n) => ChunkStop(i, n) + 1 \in i + 1 .. n + 1)
      BY <2>1, LayoutType
    <3>2. IsFollowed(i, n) => ChunkStop(i, n) + 1 \in z + 1 .. n + 1
      BY <2>1, <3>1
    <3>3. ChunkOf(g, i, n) = ChunkOf(f, i, n)
      <4> HIDE DEF g
      <4>1. QED  BY <2>3, <3>2 DEF ChunkOf
    <3>4. g[i] = ChunkOf(f, i, n)
      <4>1. CASE i = z
        BY <4>1
      <4>2. CASE i # z
        <5>1. i \in z + 1 .. n + 1
          BY <2>1, <4>2
        <5>2. f[i] = ChunkOf(f, i, n)
          BY <2>2, <5>1
        <5>3. QED  BY <2>3, <5>1, <5>2
      <4>3. QED  BY <4>1, <4>2
    <3>5. QED  BY <3>3, <3>4
  <2>5. g = [i \in z .. n + 1 |-> g[i]]
    OBVIOUS
  <2> HIDE DEF g
  <2>6. g = [i \in z .. n + 1 |-> ChunkOf(g, i, n)]
    BY <2>4, <2>5
  <2>7. Is(g, m + 1)
    BY <2>1, <2>6
  <2>8. QED  BY <2>1, <2>7
<1>4. \A d \in 0 .. (n + 1) - 1 : d \in S => d + 1 \in S
  BY <1>1, <1>3
<1>5. n + 1 \in S
  <2> HIDE DEF S
  <2>1. \A m \in 0 .. n + 1 : m \in S
    BY <1>1, <1>2, <1>4, SetInduction
  <2>2. QED  BY <1>1, <2>1
<1>6. n + 2 - (n + 1) = 1
  BY <1>1
<1>7. QED  BY <1>5, <1>6

(* so Chunks is what its definition says, chunk by chunk.                    *)
LEMMA ChunksAre ==
  ASSUME source \in Seq(Characters), NEW n \in 0 .. Len(source), NEW i \in 1 .. n + 1
  PROVE  Chunks(n)[i] = ChunkOf(Chunks(n), i, n)
<1> DEFINE f == CHOOSE f : f = [k \in 1 .. n + 1 |-> ChunkOf(f, k, n)]
<1>1. f = [k \in 1 .. n + 1 |-> ChunkOf(f, k, n)]
  BY ChunksExist
<1>2. Chunks(n) = f
  BY DEF Chunks, ChunkOf
<1> HIDE DEF f
<1>3. f[i] = ChunkOf(f, i, n)
  BY <1>1
<1>4. QED  BY <1>2, <1>3
-----------------------------------------------------------------------------
(* How far into the body the decoder is, and the data so far. *)
Read == Len(body) - Len(buf) + src
Out == IF running THEN decoded \o SubSeq(buf, 1, dst) ELSE decoded

Outside(S, i, j) == \A k \in i .. j : source[k] \notin S
(* The chunks before i give d, however much of the body there is.            *)
Reached(i, d) == \A n \in i - 1 .. Len(source) :
  Unchunked(n) = <<Chunks(n)[i][1], d \o Chunks(n)[i][2]>>
(* The digits of the size that begins at i end at stop, its line at eol.     *)
Digits(i, stop) == /\ stop \in i + 1 .. Len(body) /\ stop - i <= HexMax
                   /\ Outside(Others, i, stop - 1) /\ source[stop] \in Others
SizeRead(i, stop, eol) == /\ Digits(i, stop) /\ eol \in stop .. Read
                          /\ Outside({"LF"}, stop, eol - 1) /\ source[eol] = "LF"
Line(e, b) == /\ b \in e .. Read + 1 /\ (b = e \/ source[b - 1] = "LF")
              /\ Outside({"LF"}, b, Read)
(* In each state, what of the chunk has been read. *)
InSize(i, d) == /\ Outside(Others, i, Read) /\ hexes = Read + 1 - i
                /\ left = Number(i, Read) /\ Out = d
InExt(i, d) == \E stop \in i + 1 .. Read + 1 :
  /\ Digits(i, stop) /\ left = Number(i, stop - 1)
  /\ Outside({"LF"}, stop, Read) /\ Out = d
InData(i, d) == \E stop \in i + 1 .. Read, eol \in i + 1 .. Read :
  /\ SizeRead(i, stop, eol) /\ left > 0 /\ Read + left = eol + Number(i, stop - 1)
  /\ Out = d \o SubSeq(source, eol + 1, Read)
InCRLF(i, d) == \E stop \in i + 1 .. Read, eol \in i + 1 .. Read :
  LET z == eol + Number(i, stop - 1)
  IN /\ SizeRead(i, stop, eol) /\ eol < z /\ z <= Read
     /\ Outside(Characters \ {"CR"}, z + 1, Read)
     /\ Out = d \o SubSeq(source, eol + 1, z)
InTrailer(i, d) == \E stop \in i + 1 .. Read, eol \in i + 1 .. Read :
  /\ trailer /\ SizeRead(i, stop, eol) /\ Number(i, stop - 1) = 0 /\ Out = d
  /\ \A m \in eol + 1 .. Read : ~EmptyLine(eol + 1, m)
  /\ \E b \in eol + 1 .. Read + 1 :
       Line(eol + 1, b) /\ (state = "LINE_HEAD" <=> Outside(Characters \ {"CR"}, b, Read))
InChunk(i, d) == /\ state = "SIZE" => InSize(i, d)
                 /\ state = "EXT" => InExt(i, d)
                 /\ state = "DATA" => InData(i, d)
                 /\ state = "CRLF" => InCRLF(i, d)
                 /\ state \in {"LINE_HEAD", "LINE_MIDDLE"} => InTrailer(i, d)
States == {"SIZE", "EXT", "DATA", "CRLF", "LINE_HEAD", "LINE_MIDDLE"}

Decoding == \E i \in 1 .. Read + 1, d \in Seq(Characters) : Reached(i, d) /\ InChunk(i, d)
CutInv == /\ Len(body) <= Len(source) /\ body = SubSeq(source, 1, Len(body))
          /\ Len(buf) <= Len(body) /\ state \in States /\ decoded \in Seq(Characters)
          /\ trailer \in BOOLEAN
          /\ running => /\ ret = EXIT
                        /\ \A k \in src + 1 .. Len(buf) : buf[k] = source[Len(body) - Len(buf) + k]
          /\ ret = EXIT => Decoding
          /\ ret = EXIT /\ ~running => src = Len(buf)
          /\ ret # EXIT => <<ret, decoded>> = Unchunked(Len(body))
          /\ RestHandedBack

(* The grammar depends on the body and the kind of decoder only.             *)
LEMMA ReferenceSame ==
  ASSUME UNCHANGED <<source, trailer>>
  PROVE  /\ \A n : Chunks(n)' = Chunks(n)
         /\ \A i, j : Number(i, j)' = Number(i, j)
         /\ \A S, i, j : Outside(S, i, j)' <=> Outside(S, i, j)
         /\ \A e, m : EmptyLine(e, m)' <=> EmptyLine(e, m)
         /\ \A i, d : Reached(i, d)' <=> Reached(i, d)
<1>1. ASSUME NEW n PROVE Chunks(n)' = Chunks(n)
  BY DEF First, Number, Chunks, IsFollowed, ChunkStop, HasSize, Size, LineEnd, DigitsEnd, HasNoSize,
         LastAnswer, TrailerEnd, EmptyLine, EXIT, ChunkData
<1>2. ASSUME NEW i, NEW j PROVE Number(i, j)' = Number(i, j)
  BY DEF Number
<1>3. ASSUME NEW S, NEW i, NEW j PROVE Outside(S, i, j)' <=> Outside(S, i, j)
  BY DEF Outside
<1>4. ASSUME NEW e, NEW m PROVE EmptyLine(e, m)' <=> EmptyLine(e, m)
  BY DEF EmptyLine
<1>5. ASSUME NEW i, NEW d PROVE Reached(i, d)' <=> Reached(i, d)
  BY <1>1 DEF Reached, Unchunked
<1>6. QED  BY <1>1, <1>2, <1>3, <1>4, <1>5

(* What the two invariants say of the types and counts.                      *)
LEMMA Facts ==
  ASSUME PInv, CutInv
  PROVE  /\ source \in Seq(Characters) /\ body \in Seq(Characters) /\ buf \in Seq(Characters)
         /\ Len(source) \in Nat /\ Len(body) \in Nat /\ Len(buf) \in Nat
         /\ src \in Nat /\ dst \in Nat /\ dst <= src /\ src <= Len(buf)
         /\ Len(buf) <= Len(body) /\ Len(body) <= Len(source)
         /\ Read \in 0 .. Len(body) /\ Len(body) - Read = Len(buf) - src
         /\ left \in Nat /\ HexMax \in Nat \ {0} /\ hexes \in 0 .. HexMax
         /\ Out \in Seq(Characters)
         /\ \A k \in 1 .. Len(source) : source[k] \in Characters
<1>1. /\ source \in Seq(Characters) /\ body \in Seq(Characters) /\ buf \in Seq(Characters)
      /\ src \in Nat /\ dst \in Nat /\ dst <= src /\ src <= Len(buf)
      /\ Len(buf) <= Len(body) /\ Len(body) <= Len(source) /\ decoded \in Seq(Characters)
      /\ left \in Nat /\ HexMax \in Nat \ {0} /\ hexes \in 0 .. HexMax
  BY PowerType DEF PInv, BufferInv, SizeInv, CutInv
<1>2. Len(source) \in Nat /\ Len(body) \in Nat /\ Len(buf) \in Nat
  BY <1>1
<1>3. Read \in 0 .. Len(body) /\ Len(body) - Read = Len(buf) - src
  BY <1>1, <1>2 DEF Read
<1>4. SubSeq(buf, 1, dst) \in Seq(Characters)
  BY <1>1, <1>2
<1>5. Out \in Seq(Characters)
  BY <1>1, <1>4 DEF Out
<1>6. \A k \in 1 .. Len(source) : source[k] \in Characters
  BY <1>1
<1>7. QED  BY <1>1, <1>2, <1>3, <1>5, <1>6

(* The character the decoder looks at is the next one of the body.           *)
LEMMA HereIs ==
  ASSUME PInv, CutInv, Ahead
  PROVE  /\ Here = source[Read + 1] /\ Read + 1 \in 1 .. Len(body) /\ Here \in Characters
         /\ running /\ ret = EXIT /\ Decoding
<1>1. running /\ src < Len(buf)
  BY DEF Ahead
<1>2. src + 1 \in src + 1 .. Len(buf)
  BY <1>1, Facts
<1>3. Here = source[Len(body) - Len(buf) + (src + 1)]
  BY <1>1, <1>2 DEF CutInv, Here
<1>4. Len(body) - Len(buf) + (src + 1) = Read + 1 /\ Read + 1 \in 1 .. Len(body)
  BY <1>1, Facts DEF Read
<1>5. QED  BY <1>1, <1>3, <1>4, Facts DEF CutInv

(* What the parts of a chunk are that has been read this far.                *)
LEMMA SizeOf ==
  ASSUME source \in Seq(Characters), NEW n \in 0 .. Len(source), NEW i \in 1 .. n + 1,
         NEW stop \in i + 1 .. n, stop - i <= HexMax, Outside(Others, i, stop - 1),
         source[stop] \in Others
  PROVE  /\ DigitsEnd(i, n) = stop /\ Size(i, n) = Number(i, stop - 1) /\ ~HasNoSize(i, n)
         /\ Number(i, stop - 1) \in Nat
<1>1. n \in Nat /\ i \in Nat /\ Len(source) \in Nat /\ HexMax \in Nat
  BY HexMaxAssumption
<1>2. DigitsEnd(i, n) = stop
  BY <1>1, FirstIs DEF DigitsEnd, Outside
<1>3. QED  BY <1>1, <1>2, LayoutType DEF Size, HasNoSize

(* The end of the size line, once it is there,                               *)
LEMMA LineOf ==
  ASSUME source \in Seq(Characters), NEW n \in 0 .. Len(source), NEW i \in 1 .. n + 1,
         NEW stop \in i + 1 .. n, stop - i <= HexMax, Outside(Others, i, stop - 1),
         source[stop] \in Others,
         NEW eol \in stop .. n, Outside({"LF"}, stop, eol - 1), source[eol] = "LF"
  PROVE  LineEnd(i, n) = eol /\ HasSize(i, n)
<1>1. n \in Nat /\ stop \in Nat
  OBVIOUS
<1>2. DigitsEnd(i, n) = stop /\ ~HasNoSize(i, n)
  BY SizeOf
<1>3. LineEnd(i, n) = eol
  <2>1. source[eol] \in {"LF"} /\ \A k \in stop .. eol - 1 : source[k] \notin {"LF"}
    BY DEF Outside
  <2>2. First({"LF"}, stop, n) = eol
    BY <1>1, <2>1, FirstIs
  <2>3. QED  BY <1>2, <2>2 DEF LineEnd
<1>4. QED  BY <1>2, <1>3 DEF HasSize

(* and a chunk whose size line has not ended.                                *)
LEMMA NoLineYet ==
  ASSUME source \in Seq(Characters), NEW n \in 0 .. Len(source), NEW i \in 1 .. n + 1,
         ~HasNoSize(i, n), DigitsEnd(i, n) \in Nat, Outside({"LF"}, DigitsEnd(i, n), n)
  PROVE  ~HasSize(i, n) /\ ~IsFollowed(i, n) /\ LastAnswer(i, n) = EXIT /\ ChunkData(i, n) = <<>>
<1>1. n \in Nat
  OBVIOUS
<1>2. LineEnd(i, n) = n + 1
  BY <1>1, FirstIsNone DEF LineEnd, Outside
<1>3. QED  BY <1>1, <1>2 DEF HasSize, IsFollowed, LastAnswer, ChunkData

(* What one call makes of n characters, if no chunk comes after the one at i.*)
LEMMA LastOne ==
  ASSUME source \in Seq(Characters), NEW n \in 0 .. Len(source), NEW i \in 1 .. n + 1,
         NEW d \in Seq(Characters), Reached(i, d), ~IsFollowed(i, n)
  PROVE  Unchunked(n) = <<LastAnswer(i, n), d \o ChunkData(i, n)>>
<1>1. Chunks(n)[i] = <<LastAnswer(i, n), ChunkData(i, n)>>
  BY ChunksAre DEF ChunkOf
<1>2. n \in i - 1 .. Len(source)
  OBVIOUS
<1>3. Unchunked(n) = <<Chunks(n)[i][1], d \o Chunks(n)[i][2]>>
  BY <1>2 DEF Reached
<1>4. Chunks(n)[i][1] = LastAnswer(i, n) /\ Chunks(n)[i][2] = ChunkData(i, n)
  BY <1>1
<1>5. QED  BY <1>3, <1>4

(* The smaller of two numbers.                                               *)
LEMMA MinOfTwo == ASSUME NEW a \in Int, NEW b \in Int, a <= b PROVE Min({a, b}) = a /\ Min({b, a}) = a
<1>1. {a, b} \subseteq Int /\ a \in {a, b} /\ \A x \in {a, b} : a <= x
  OBVIOUS
<1>2. Min({a, b}) = a
  BY <1>1, MinIs
<1>3. {b, a} = {a, b}
  OBVIOUS
<1>4. QED  BY <1>2, <1>3
-----------------------------------------------------------------------------
(* A decoder that has read all there is answers as one call does.            *)
LEMMA WaitingInSize ==
  ASSUME PInv, CutInv, NEW i \in 1 .. Read + 1, NEW d \in Seq(Characters), Reached(i, d),
         Read = Len(body), InSize(i, d)
  PROVE  Unchunked(Read) = <<EXIT, Out>>
<1> DEFINE n == Read
<1>1. /\ n \in 0 .. Len(source) /\ n \in Nat /\ i \in Nat /\ source \in Seq(Characters)
      /\ hexes \in 0 .. HexMax /\ HexMax \in Nat /\ hexes = n + 1 - i /\ Out = d
      /\ Outside(Others, i, n)
  BY Facts DEF InSize
<1> HIDE DEF n
<1>2. DigitsEnd(i, n) = n + 1
  BY <1>1, FirstIsNone DEF DigitsEnd, Outside
<1>3. ~HasNoSize(i, n)
  BY <1>1, <1>2 DEF HasNoSize
<1>4. DigitsEnd(i, n) \in Nat /\ Outside({"LF"}, DigitsEnd(i, n), n)
  BY <1>1, <1>2 DEF Outside
<1>5. ~IsFollowed(i, n) /\ LastAnswer(i, n) = EXIT /\ ChunkData(i, n) = <<>>
  BY <1>1, <1>3, <1>4, NoLineYet DEF n
<1>6. Unchunked(n) = <<EXIT, d \o <<>> >>
  BY <1>1, <1>5, LastOne DEF n
<1>7. d \o <<>> = d
  OBVIOUS
<1>8. QED  BY <1>1, <1>6, <1>7 DEF n

(* The same behind the digits of a size,                                     *)
LEMMA WaitingInExt ==
  ASSUME PInv, CutInv, NEW i \in 1 .. Read + 1, NEW d \in Seq(Characters), Reached(i, d),
         Read = Len(body), InExt(i, d)
  PROVE  Unchunked(Read) = <<EXIT, Out>>
<1> DEFINE n == Read
<1>1. PICK stop \in i + 1 .. n + 1 : Digits(i, stop) /\ Outside({"LF"}, stop, n) /\ Out = d
  BY DEF InExt
<1>2. /\ n \in 0 .. Len(source) /\ n \in Nat /\ i \in Nat /\ source \in Seq(Characters)
      /\ n = Len(body)
  BY Facts
<1> HIDE DEF n
<1>3. /\ stop \in i + 1 .. n /\ stop - i <= HexMax /\ Outside(Others, i, stop - 1)
      /\ source[stop] \in Others
  BY <1>1, <1>2 DEF Digits
<1>4. DigitsEnd(i, n) = stop /\ ~HasNoSize(i, n)
  BY <1>2, <1>3, SizeOf DEF n
<1>5. ~IsFollowed(i, n) /\ LastAnswer(i, n) = EXIT /\ ChunkData(i, n) = <<>>
  BY <1>1, <1>2, <1>3, <1>4, NoLineYet DEF n
<1>6. Unchunked(n) = <<EXIT, d \o <<>> >>
  BY <1>2, <1>5, LastOne DEF n
<1>7. d \o <<>> = d
  OBVIOUS
<1>8. QED  BY <1>1, <1>6, <1>7 DEF n

(* A size line read to its end: the layout for any n from there on. *)
LEMMA SizeReadIs ==
  ASSUME PInv, CutInv, NEW i \in 1 .. Read + 1, NEW stop \in Int, NEW eol \in Int,
         SizeRead(i, stop, eol), NEW n \in Read .. Len(source)
  PROVE  /\ HasSize(i, n) /\ LineEnd(i, n) = eol /\ Size(i, n) = Number(i, stop - 1)
         /\ ~HasNoSize(i, n) /\ Number(i, stop - 1) \in Nat /\ eol \in Nat /\ i < eol /\ eol <= Read
         /\ i \in 1 .. n + 1 /\ n \in 0 .. Len(source) /\ Read \in Nat /\ source \in Seq(Characters)
<1>1. /\ Read \in Nat /\ n \in 0 .. Len(source) /\ source \in Seq(Characters)
      /\ i \in 1 .. n + 1 /\ n \in Nat
  BY Facts
<1>2. /\ stop \in i + 1 .. n /\ stop - i <= HexMax /\ Outside(Others, i, stop - 1)
      /\ source[stop] \in Others /\ eol \in stop .. n /\ eol <= Read
      /\ Outside({"LF"}, stop, eol - 1) /\ source[eol] = "LF"
  BY <1>1 DEF SizeRead, Digits
<1>3. Size(i, n) = Number(i, stop - 1) /\ ~HasNoSize(i, n) /\ Number(i, stop - 1) \in Nat
  BY <1>1, <1>2, SizeOf
<1>4. HasSize(i, n) /\ LineEnd(i, n) = eol
  BY <1>1, <1>2, LineOf
<1>5. QED  BY <1>1, <1>2, <1>3, <1>4

(* in the data,                                                              *)
LEMMA WaitingInData ==
  ASSUME PInv, CutInv, NEW i \in 1 .. Read + 1, NEW d \in Seq(Characters), Reached(i, d),
         Read = Len(body), InData(i, d)
  PROVE  Unchunked(Read) = <<EXIT, Out>>
<1> DEFINE n == Read
<1>1. PICK stop \in i + 1 .. n, eol \in i + 1 .. n :
        /\ SizeRead(i, stop, eol) /\ left > 0 /\ n + left = eol + Number(i, stop - 1)
        /\ Out = d \o SubSeq(source, eol + 1, n)
  BY DEF InData
<1>2. n \in Read .. Len(source) /\ left \in Nat
  BY Facts
<1>3. /\ HasSize(i, n) /\ LineEnd(i, n) = eol /\ Size(i, n) = Number(i, stop - 1)
      /\ ~HasNoSize(i, n) /\ Number(i, stop - 1) \in Nat /\ eol \in Nat /\ eol <= n
      /\ i \in 1 .. n + 1 /\ n \in 0 .. Len(source) /\ n \in Nat /\ source \in Seq(Characters)
  <2>1. stop \in Int /\ eol \in Int
    BY <1>1, Facts
  <2>2. QED  BY <1>1, <1>2, <2>1, SizeReadIs
<1> HIDE DEF n
<1> DEFINE z == eol + Number(i, stop - 1)
<1>4. z \in Nat /\ z > n /\ z + 1 \in Nat /\ \A k \in z + 1 .. n : source[k] \notin Characters \ {"CR"}
  BY <1>1, <1>2, <1>3
<1>5. ChunkStop(i, n) = n + 1
  BY <1>3, <1>4, FirstIsNone DEF ChunkStop
<1>6. Size(i, n) > 0 /\ ~(n + 1 <= n)
  BY <1>1, <1>2, <1>3
<1>7. ~IsFollowed(i, n) /\ LastAnswer(i, n) = EXIT
  BY <1>3, <1>5, <1>6 DEF IsFollowed, LastAnswer
<1>8. ChunkData(i, n) = SubSeq(source, eol + 1, n)
  <2>1. Min({z, n}) = n
    <3>1. z \in Int /\ n \in Int /\ n <= z
      BY <1>3, <1>4
    <3> HIDE DEF z
    <3>2. QED  BY <3>1, MinOfTwo
  <2>2. QED  BY <1>3, <2>1 DEF ChunkData
<1>9. QED  BY <1>1, <1>3, <1>7, <1>8, LastOne DEF n

(* behind the data                                                           *)
LEMMA WaitingInCRLF ==
  ASSUME PInv, CutInv, NEW i \in 1 .. Read + 1, NEW d \in Seq(Characters), Reached(i, d),
         Read = Len(body), InCRLF(i, d)
  PROVE  Unchunked(Read) = <<EXIT, Out>>
<1> DEFINE n == Read
<1>1. PICK stop \in i + 1 .. n, eol \in i + 1 .. n :
        LET z == eol + Number(i, stop - 1)
        IN /\ SizeRead(i, stop, eol) /\ eol < z /\ z <= n
           /\ Outside(Characters \ {"CR"}, z + 1, n)
           /\ Out = d \o SubSeq(source, eol + 1, z)
  BY DEF InCRLF
<1>2. n \in Read .. Len(source)
  BY Facts
<1>3. /\ HasSize(i, n) /\ LineEnd(i, n) = eol /\ Size(i, n) = Number(i, stop - 1)
      /\ ~HasNoSize(i, n) /\ Number(i, stop - 1) \in Nat /\ eol \in Nat /\ eol <= n
      /\ i \in 1 .. n + 1 /\ n \in 0 .. Len(source) /\ n \in Nat /\ source \in Seq(Characters)
  <2>1. stop \in Int /\ eol \in Int
    BY <1>1, Facts
  <2>2. QED  BY <1>1, <1>2, <2>1, SizeReadIs
<1> HIDE DEF n
<1> DEFINE z == eol + Number(i, stop - 1)
<1>4. z \in Nat /\ z <= n /\ z + 1 \in Nat /\ \A k \in z + 1 .. n : source[k] \notin Characters \ {"CR"}
  BY <1>1, <1>3 DEF Outside
<1>5. ChunkStop(i, n) = n + 1
  BY <1>3, <1>4, FirstIsNone DEF ChunkStop
<1>6. Size(i, n) > 0 /\ ~(n + 1 <= n)
  BY <1>1, <1>3
<1>7. ~IsFollowed(i, n) /\ LastAnswer(i, n) = EXIT
  BY <1>3, <1>5, <1>6 DEF IsFollowed, LastAnswer
<1>8. ChunkData(i, n) = SubSeq(source, eol + 1, z)
  <2>1. Min({z, n}) = z
    <3>1. z \in Int /\ n \in Int /\ z <= n
      BY <1>3, <1>4
    <3> HIDE DEF z
    <3>2. QED  BY <3>1, MinOfTwo
  <2>2. QED  BY <1>3, <2>1 DEF ChunkData
<1>9. QED  BY <1>1, <1>3, <1>7, <1>8, LastOne DEF n

(* After a chunk of size 0 there is no data. *)
LEMMA NoData ==
  ASSUME NEW i, NEW n \in Nat, NEW eol \in Nat, eol <= n, HasSize(i, n), LineEnd(i, n) = eol,
         Size(i, n) = 0, source \in Seq(Characters), NEW d \in Seq(Characters)
  PROVE  d \o ChunkData(i, n) = d /\ ~IsFollowed(i, n)
<1>1. Min({eol, n}) = eol /\ eol + 0 = eol
  BY MinOfTwo
<1>2. ChunkData(i, n) = SubSeq(source, eol + 1, eol)
  BY <1>1 DEF ChunkData
<1>3. SubSeq(source, eol + 1, eol) = <<>> /\ d \o <<>> = d
  OBVIOUS
<1>4. QED  BY <1>2, <1>3 DEF IsFollowed

(* and among the trailing lines.                                             *)
LEMMA WaitingInTrailer ==
  ASSUME PInv, CutInv, NEW i \in 1 .. Read + 1, NEW d \in Seq(Characters), Reached(i, d),
         Read = Len(body), InTrailer(i, d)
  PROVE  Unchunked(Read) = <<EXIT, Out>>
<1> DEFINE n == Read
<1>1. PICK stop \in i + 1 .. n, eol \in i + 1 .. n :
        /\ trailer /\ SizeRead(i, stop, eol) /\ Number(i, stop - 1) = 0 /\ Out = d
        /\ \A m \in eol + 1 .. n : ~EmptyLine(eol + 1, m)
  BY DEF InTrailer
<1>2. n \in Read .. Len(source)
  BY Facts
<1>3. /\ HasSize(i, n) /\ LineEnd(i, n) = eol /\ Size(i, n) = 0
      /\ ~HasNoSize(i, n) /\ eol \in Nat /\ eol <= n
      /\ i \in 1 .. n + 1 /\ n \in 0 .. Len(source) /\ n \in Nat /\ source \in Seq(Characters)
  <2>1. stop \in Int /\ eol \in Int
    BY <1>1, Facts
  <2>2. QED  BY <1>1, <1>2, <2>1, SizeReadIs
<1> HIDE DEF n
<1>4. LastAnswer(i, n) = EXIT
  BY <1>1, <1>3 DEF LastAnswer, TrailerEnd
<1>5. d \o ChunkData(i, n) = d /\ ~IsFollowed(i, n)
  BY <1>3, NoData
<1>6. Unchunked(n) = <<LastAnswer(i, n), d \o ChunkData(i, n)>>
  BY <1>3, <1>5, LastOne DEF n
<1>7. QED  BY <1>1, <1>4, <1>5, <1>6 DEF n

(* Whatever it waits for, its answers so far are those of one call.          *)
LEMMA Waiting ==
  ASSUME PInv, CutInv, Decoding, Read = Len(body)
  PROVE  Unchunked(Read) = <<EXIT, Out>>
<1>1. PICK i \in 1 .. Read + 1, d \in Seq(Characters) : Reached(i, d) /\ InChunk(i, d)
  BY DEF Decoding
<1>2. state \in States
  BY DEF CutInv
<1>3. QED  BY <1>1, <1>2, WaitingInSize, WaitingInExt, WaitingInData, WaitingInCRLF, WaitingInTrailer
              DEF InChunk, States
-----------------------------------------------------------------------------
(* Sequences. *)
LEMMA SubSeqIs ==
  ASSUME NEW S, NEW s \in Seq(S), NEW a \in Nat, NEW b \in Nat, a <= b, b <= Len(s)
  PROVE  /\ SubSeq(s, a + 1, b) \in Seq(S) /\ Len(SubSeq(s, a + 1, b)) = b - a
         /\ \A k \in 1 .. b - a : SubSeq(s, a + 1, b)[k] = s[a + k]
  OBVIOUS

(* Two pieces that meet.                                                     *)
LEMMA SubSeqJoin ==
  ASSUME NEW S, NEW s \in Seq(S), NEW a \in Nat, NEW b \in Nat, NEW c \in Nat,
         a <= b, b <= c, c <= Len(s)
  PROVE  SubSeq(s, a + 1, b) \o SubSeq(s, b + 1, c) = SubSeq(s, a + 1, c)
<1>1. a + 1 \in 1 .. Len(s) + 1 /\ b \in a + 1 - 1 .. Len(s) /\ c \in b .. Len(s)
  OBVIOUS
<1>2. QED  BY <1>1, ConcatAdjacentSubSeq

-----------------------------------------------------------------------------
(* What a step keeps.                                                        *)
LEMMA ChunkKept ==
  ASSUME UNCHANGED <<source, trailer, state, left, hexes>>, Read' = Read, Out' = Out,
         Len(body) \in Nat, Len(body)' \in Nat, Len(body) <= Len(body)',
         Read \in Nat, NEW i \in 1 .. Read + 1, NEW d, InChunk(i, d)
  PROVE  InChunk(i, d)'
<1> USE ReferenceSame
<1>1. ASSUME NEW stop, Digits(i, stop) PROVE Digits(i, stop)'
  BY <1>1 DEF Digits
<1>2. ASSUME NEW stop, NEW eol, SizeRead(i, stop, eol) PROVE SizeRead(i, stop, eol)'
  BY <1>1, <1>2 DEF SizeRead
<1>3. ASSUME NEW e, NEW b PROVE Line(e, b)' <=> Line(e, b)
  BY DEF Line
<1>4. InSize(i, d) => InSize(i, d)'
  BY DEF InSize
<1>5. InExt(i, d) => InExt(i, d)'
  BY <1>1 DEF InExt
<1>6. InData(i, d) => InData(i, d)'
  BY <1>2 DEF InData
<1>7. InCRLF(i, d) => InCRLF(i, d)'
  BY <1>2 DEF InCRLF
<1>8. InTrailer(i, d) => InTrailer(i, d)'
  BY <1>2, <1>3 DEF InTrailer
<1>9. QED  BY <1>4, <1>5, <1>6, <1>7, <1>8 DEF InChunk

(* What was read stays read when nothing of it changes.                      *)
LEMMA DecodingKept ==
  ASSUME UNCHANGED <<source, trailer, state, left, hexes>>, Read' = Read, Out' = Out,
         Len(body) \in Nat, Len(body)' \in Nat, Len(body) <= Len(body)', Read \in Nat, Decoding
  PROVE  Decoding'
<1>1. PICK i \in 1 .. Read + 1, d \in Seq(Characters) : Reached(i, d) /\ InChunk(i, d)
  BY DEF Decoding
<1>2. InChunk(i, d)'
  BY <1>1, ChunkKept
<1>3. Reached(i, d)'
  BY <1>1, ReferenceSame
<1>4. QED  BY <1>1, <1>2, <1>3 DEF Decoding

(* The next piece of the body continues it.                                  *)
LEMMA CallKeeps ==
  ASSUME PInv, CutInv, NEW n \in 1 .. Len(source) - Len(body), Call(n) PROVE CutInv'
<1>1. /\ ~running /\ ret = EXIT /\ running' = TRUE /\ ret' = EXIT
      /\ buf' = SubSeq(source, Len(body) + 1, Len(body) + n) /\ src' = 0 /\ dst' = 0
      /\ body' = body \o buf' /\ UNCHANGED <<source, decoded, trailer, state, left, hexes>>
  BY DEF Call, decoder
<1>2. src = Len(buf) /\ body = SubSeq(source, 1, Len(body)) /\ Decoding
  BY <1>1 DEF CutInv
<1> DEFINE l == Len(body)
<1>3. /\ l \in Nat /\ n \in Nat /\ l + n <= Len(source) /\ Len(source) \in Nat
      /\ source \in Seq(Characters)
  BY Facts
<1>4. Len(buf') = n /\ \A k \in 1 .. n : buf'[k] = source[l + k]
  BY <1>1, <1>3
<1>5. buf' \in Seq(Characters) /\ body \in Seq(Characters)
  BY <1>1, <1>3, Facts
<1>6. Len(body') = l + n
  BY <1>1, <1>4, <1>5
<1>7. body' = SubSeq(source, 1, Len(body'))
  <2>1. SubSeq(source, 0 + 1, l) \o SubSeq(source, l + 1, l + n) = SubSeq(source, 0 + 1, l + n)
    <3>1. 0 <= l /\ l <= l + n /\ l + n \in Nat
      BY <1>3
    <3>2. QED  BY <1>3, <3>1, SubSeqJoin
  <2>2. QED  BY <1>1, <1>2, <1>6, <2>1
<1>8. Read' = Read /\ Read \in Nat
  <2>1. Read = l
    BY <1>2, Facts DEF Read
  <2>2. Read' = (l + n) - n + 0
    BY <1>1, <1>4, <1>6 DEF Read
  <2>3. QED  BY <1>3, <2>1, <2>2
<1>9. Out' = Out
  <2>1. SubSeq(buf', 1, 0) = <<>> /\ decoded \o <<>> = decoded
    BY <1>5 DEF CutInv
  <2>2. QED  BY <1>1, <2>1 DEF Out
<1>10. Decoding'
  BY <1>1, <1>2, <1>3, <1>6, <1>8, <1>9, DecodingKept
<1>11. \A k \in src' + 1 .. Len(buf') : buf'[k] = source[Len(body') - Len(buf') + k]
  BY <1>1, <1>3, <1>4, <1>6
<1>12. RestHandedBack'
  BY <1>1 DEF RestHandedBack, EXIT
<1>13. Len(body') <= Len(source) /\ Len(buf') <= Len(body')
  BY <1>3, <1>4, <1>6
<1>14. QED  BY <1>1, <1>7, <1>10, <1>11, <1>12, <1>13 DEF CutInv

(* A character passed changes nothing but the position,                      *)
LEMMA PastKeeps ==
  ASSUME PInv, CutInv, Ahead, Past, state' \in States, Decoding' PROVE CutInv'
<1>1. /\ src' = src + 1 /\ UNCHANGED <<trailer, buf, dst, running, ret, source, body, decoded>>
  BY DEF Past, history
<1>2. running /\ ret = EXIT
  BY HereIs
<1>3. src \in Nat /\ Len(buf) \in Nat
  BY Facts
<1>4. \A k \in src' + 1 .. Len(buf') : buf'[k] = source'[Len(body') - Len(buf') + k]
  BY <1>1, <1>2, <1>3 DEF CutInv
<1>5. RestHandedBack'
  BY <1>1, <1>2 DEF RestHandedBack, EXIT
<1>6. QED  BY <1>1, <1>2, <1>4, <1>5 DEF CutInv

(* which is one further.                                                     *)
LEMMA PastRead ==
  ASSUME PInv, CutInv, Ahead, Past PROVE Read' = Read + 1 /\ Out' = Out /\ body' = body /\ source' = source
<1>1. QED  BY Facts DEF Past, history, Read, Out

(* A call that returns: with its answer that of one call, or with -2 in      *)
(* the middle of a chunk.                                                    *)
LEMMA LeaveKeeps ==
  ASSUME PInv, CutInv, running, NEW a \in Int, NEW b \in Seq(Characters), NEW d \in Nat,
         NEW s \in Nat, d <= s, src <= s, s <= Len(b), Len(b) = Len(buf),
         \A k \in s + 1 .. Len(b) : b[k] = source[Len(body) - Len(buf) + k],
         Leave(a, b, d, s), trailer' = trailer, state' \in States,
         a = EXIT => s = Len(b) /\ Decoding',
         a # EXIT => <<a, decoded \o SubSeq(b, 1, d)>> = Unchunked(Len(body)),
         a >= 0 => a = Len(b) - s
  PROVE  CutInv'
<1>1. /\ ~running' /\ ret' = a /\ buf' = Moved(b, d, s, Len(b) - s)
      /\ decoded' = decoded \o SubSeq(b, 1, d) /\ src' = s /\ dst' = d
      /\ UNCHANGED <<source, body, trailer>>
  BY DEF Leave
<1>2. /\ Len(b) - s \in Nat /\ s + (Len(b) - s) <= Len(b) /\ Len(b) \in Nat
      /\ Len(body) \in Nat /\ Len(b) <= Len(body) /\ body \in Seq(Characters)
      /\ source \in Seq(Characters) /\ Len(body) <= Len(source)
  BY Facts
<1>3. buf' \in Seq(Characters) /\ Len(buf') = Len(b)
  BY <1>1, <1>2, MovedType
<1>4. decoded' \in Seq(Characters)
  <2>1. decoded \in Seq(Characters) /\ SubSeq(b, 1, d) \in Seq(Characters)
    BY DEF CutInv
  <2>2. QED  BY <1>1, <2>1
<1>5. a # EXIT => <<ret', decoded'>> = Unchunked(Len(body))'
  BY <1>1, ReferenceSame DEF Unchunked
<1>6. RestHandedBack'
  <2>1. SUFFICES ASSUME a >= 0
                 PROVE  /\ d + a <= Len(buf')
                        /\ SubSeq(buf', d + 1, d + a) = SubSeq(body, Len(body) - a + 1, Len(body))
    BY <1>1 DEF RestHandedBack
  <2>2. a = Len(b) - s /\ a \in Nat /\ d + a <= Len(buf') /\ a <= Len(body)
    BY <1>2, <1>3, <2>1
  <2>3. \A k \in 1 .. a : buf'[d + k] = body[Len(body) - a + k]
    <3> SUFFICES ASSUME NEW k \in 1 .. a PROVE buf'[d + k] = body[Len(body) - a + k]
      OBVIOUS
    <3>1. d + k \in 1 .. Len(b) /\ d + k > d /\ d + k <= d + (Len(b) - s) /\ d + k - d + s = s + k
          /\ s + k \in s + 1 .. Len(b)
      BY <1>2, <2>2
    <3>2. buf'[d + k] = b[s + k]
      <4>1. buf'[d + k] = IF d + k > d /\ d + k <= d + (Len(b) - s) THEN b[d + k - d + s] ELSE b[d + k]
        BY <1>1, <3>1 DEF Moved
      <4>2. QED  BY <3>1, <4>1
    <3>3. b[s + k] = source[Len(body) - Len(buf) + (s + k)]
      BY <3>1
    <3>4. Len(body) - Len(buf) + (s + k) = Len(body) - a + k /\ Len(body) - a + k \in 1 .. Len(body)
      BY <1>2, <2>2
    <3>5. body = SubSeq(source, 1, Len(body))
      BY DEF CutInv
    <3>6. body[Len(body) - a + k] = source[Len(body) - a + k]
      <4> DEFINE l == Len(body)
                 j == l - a + k
      <4>1. l \in Nat /\ l <= Len(source) /\ j \in 1 .. l
        BY <1>2, <3>4
      <4> HIDE DEF l, j
      <4>2. SubSeq(source, 1, l)[j] = source[j]
        BY <1>2, <4>1
      <4>3. QED  BY <3>5, <4>2 DEF l, j
    <3>7. QED  BY <3>2, <3>3, <3>4, <3>6
  <2> DEFINE t == SubSeq(buf', d + 1, d + a)
             u == SubSeq(body, Len(body) - a + 1, Len(body))
  <2>4. t \in Seq(Characters) /\ Len(t) = a /\ \A k \in 1 .. a : t[k] = buf'[d + k]
    BY <1>3, <2>2
  <2>5. u \in Seq(Characters) /\ Len(u) = a /\ \A k \in 1 .. a : u[k] = body[Len(body) - a + k]
    BY <1>2, <2>2
  <2> HIDE DEF t, u
  <2>6. t = u
    BY <2>2, <2>3, <2>4, <2>5, SeqEqual
  <2>7. QED  BY <2>2, <2>6 DEF t, u
<1>7. a = EXIT => Decoding' /\ src' = Len(buf')
  BY <1>1, <1>3
<1>8. /\ Len(buf') <= Len(body') /\ Len(body') <= Len(source')
      /\ body' = SubSeq(source', 1, Len(body'))
  BY <1>1, <1>2, <1>3 DEF CutInv
<1>9. QED  BY <1>1, <1>4, <1>5, <1>6, <1>7, <1>8 DEF CutInv

(* The calls that return where they stand.                                   *)
LEMMA StopKeeps ==
  ASSUME PInv, CutInv, running, NEW a \in {EXIT, -1}, Leave(a, buf, dst, src), UNCHANGED decoder,
         a = EXIT => src = Len(buf),
         a = -1 => Unchunked(Len(body)) = <<-1, Out>>
  PROVE  CutInv'
<1>1. /\ buf \in Seq(Characters) /\ src \in Nat /\ dst \in Nat /\ dst <= src /\ src <= Len(buf)
      /\ Len(body) \in Nat /\ Read \in Nat /\ Len(buf) \in Nat /\ body \in Seq(Characters)
  BY Facts
<1>2. UNCHANGED <<trailer, state, left, hexes, source, body>> /\ state' \in States
  BY DEF decoder, Leave, CutInv
<1>3. \A k \in src + 1 .. Len(buf) : buf[k] = source[Len(body) - Len(buf) + k]
  BY DEF CutInv
<1>4. Out = decoded \o SubSeq(buf, 1, dst)
  BY DEF Out
<1>5. ASSUME a = EXIT PROVE Decoding'
  <2>1. Out' = Out
    BY <1>4 DEF Leave, Out
  <2>2. Len(buf') = Len(buf)
    <3>1. Len(buf) - src \in Nat /\ src + (Len(buf) - src) <= Len(buf)
      BY <1>1
    <3>2. Len(Moved(buf, dst, src, Len(buf) - src)) = Len(buf)
      BY <1>1, <3>1, MovedType
    <3>3. QED  BY <3>2 DEF Leave
  <2>3. Read' = Read
    BY <1>2, <2>2 DEF Leave, Read
  <2>4. Decoding
    BY DEF CutInv
  <2>5. QED  BY <1>1, <1>2, <2>1, <2>3, <2>4, DecodingKept
<1>6. a \in Int /\ ~(a >= 0) /\ (a # EXIT => a = -1)
  BY DEF EXIT
<1>7. a # EXIT => <<a, decoded \o SubSeq(buf, 1, dst)>> = Unchunked(Len(body))
  BY <1>4, <1>6
<1>8. (a = EXIT => src = Len(buf) /\ Decoding') /\ (a >= 0 => a = Len(buf) - src)
  BY <1>5, <1>6
<1>9. trailer' = trailer /\ src <= src /\ Len(buf) = Len(buf)
  BY <1>1, <1>2
<1> HIDE DEF EXIT
<1>10. QED  BY <1>1, <1>2, <1>3, <1>6, <1>7, <1>8, <1>9, LeaveKeeps
-----------------------------------------------------------------------------
(* One character further, in the same chunk.                                 *)
LEMMA DecodingOn ==
  ASSUME UNCHANGED <<source, trailer>>, Read \in Nat, Read' \in Nat, Read <= Read',
         NEW i \in 1 .. Read + 1, NEW d \in Seq(Characters), Reached(i, d), InChunk(i, d)'
  PROVE  Decoding'
<1>1. Reached(i, d)'
  BY ReferenceSame
<1>2. i \in 1 .. Read' + 1
  <2>1. \A a, b \in Nat : a <= b => \A k \in 1 .. a + 1 : k \in 1 .. b + 1
    OBVIOUS
  <2>2. QED  BY <2>1
<1>3. QED  BY <1>1, <1>2 DEF Decoding

(* A chunk without a size, or with too long a one, ends the body with -1.    *)
LEMMA NoSizeThere ==
  ASSUME source \in Seq(Characters), NEW n \in 0 .. Len(source), NEW i \in 1 .. n + 1,
         NEW d \in Seq(Characters), Reached(i, d), HasNoSize(i, n)
  PROVE  Unchunked(n) = <<-1, d>>
<1>1. ~IsFollowed(i, n) /\ LastAnswer(i, n) = -1 /\ ChunkData(i, n) = <<>>
  BY DEF IsFollowed, LastAnswer, ChunkData, HasSize
<1>2. Unchunked(n) = <<-1, d \o <<>> >>
  BY <1>1, LastOne
<1>3. d \o <<>> = d
  OBVIOUS
<1>4. QED  BY <1>2, <1>3

(* The buffer ends between two characters.                                   *)
LEMMA StarveKeeps == ASSUME PInv, CutInv, Starve PROVE CutInv'
<1>1. running /\ src = Len(buf) /\ Leave(EXIT, buf, dst, src) /\ UNCHANGED decoder
  BY DEF Starve
<1>2. EXIT # -1
  BY DEF EXIT
<1> HIDE DEF EXIT
<1>3. QED  BY <1>1, <1>2, StopKeeps

(* A digit of a size, or one too many.                                       *)
LEMMA SizeDigitKeeps == ASSUME PInv, CutInv, SizeDigit PROVE CutInv'
<1>1. Ahead /\ state = "SIZE" /\ Here \in DOMAIN Digit
  BY DEF SizeDigit
<1>2. PICK i \in 1 .. Read + 1, d \in Seq(Characters) : Reached(i, d) /\ InSize(i, d)
  BY <1>1, HereIs DEF Decoding, InChunk
<1>3. /\ Here = source[Read + 1] /\ Read + 1 \in 1 .. Len(body) /\ running /\ Read \in Nat
      /\ source \in Seq(Characters) /\ Len(body) \in Nat /\ Len(body) <= Len(source)
      /\ Len(source) \in Nat /\ hexes \in 0 .. HexMax /\ HexMax \in Nat
  BY <1>1, HereIs, Facts
<1>4. Outside(Others, i, Read + 1)
  BY <1>1, <1>2, <1>3, OthersAssumption DEF InSize, Outside
<1>5. CASE hexes = HexMax
  <2> DEFINE n == Len(body)
             f == DigitsEnd(i, n)
  <2>1. n \in 0 .. Len(source) /\ n \in Nat /\ i \in 1 .. n + 1 /\ i \in Nat /\ i <= n + 1
    BY <1>3
  <2>2. f \in i .. n + 1 /\ (f <= n => source[f] \in Others)
    BY <2>1, FirstType DEF DigitsEnd
  <2>3. f >= Read + 2
    <3> HIDE DEF f
    <3>1. ~(f \in i .. Read + 1)
      BY <1>3, <1>4, <2>2 DEF Outside
    <3>2. QED  BY <1>3, <2>1, <2>2, <3>1
  <2>4. HasNoSize(i, n)
    <3> HIDE DEF n
    <3>1. f - i > HexMax
      BY <1>2, <1>3, <1>5, <2>1, <2>2, <2>3 DEF InSize
    <3>2. QED  BY <3>1 DEF HasNoSize
  <2>5. Unchunked(n) = <<-1, d>>
    BY <1>2, <1>3, <2>1, <2>4, NoSizeThere
  <2>6. Out = d
    BY <1>2 DEF InSize
  <2>7. Leave(-1, buf, dst, src) /\ UNCHANGED decoder
    BY <1>5 DEF SizeDigit
  <2>8. -1 # EXIT
    BY DEF EXIT
  <2> HIDE DEF EXIT
  <2>9. QED  BY <1>3, <2>5, <2>6, <2>7, <2>8, StopKeeps
<1>6. CASE hexes # HexMax
  <2>1. left' = left * 16 + Digit[Here] /\ hexes' = hexes + 1 /\ Past /\ state' = "SIZE"
    BY <1>1, <1>6 DEF SizeDigit
  <2>2. Read' = Read + 1 /\ Out' = Out /\ UNCHANGED <<source, trailer>>
    BY <1>1, <2>1, PastRead DEF Past
  <2>3. Number(i, Read + 1) = Number(i, Read) * 16 + Digit[source[Read + 1]]
    <3>1. i \in Nat \ {0} /\ i <= Len(source) + 1 /\ Read + 1 \in i .. Len(source)
      BY <1>3
    <3>2. Number(i, Read + 1) = Number(i, Read + 1 - 1) * 16 + Digit[source[Read + 1]]
      BY <1>3, <3>1, NumberIs
    <3>3. Read + 1 - 1 = Read
      BY <1>3
    <3>4. QED  BY <3>2, <3>3
  <2>4. left' = Number(i, Read)'
    BY <1>2, <1>3, <2>1, <2>2, <2>3, ReferenceSame DEF InSize
  <2>5. hexes' = Read' + 1 - i
    BY <1>2, <1>3, <2>1, <2>2 DEF InSize
  <2>6. Outside(Others, i, Read)'
    BY <1>4, <2>2, ReferenceSame
  <2>7. Out' = d
    BY <1>2, <2>2 DEF InSize
  <2>8. InSize(i, d)'
    BY <2>4, <2>5, <2>6, <2>7 DEF InSize
  <2>9. Decoding'
    BY <1>2, <1>3, <2>1, <2>2, <2>8, DecodingOn DEF InChunk
  <2>10. QED  BY <1>1, <2>1, <2>9, PastKeeps DEF States
<1>7. QED  BY <1>5, <1>6

(* The end of the digits, or none.                                           *)
LEMMA SizeEndKeeps == ASSUME PInv, CutInv, SizeEnd PROVE CutInv'
<1>1. Ahead /\ state = "SIZE" /\ Here \notin DOMAIN Digit
  BY DEF SizeEnd
<1>2. PICK i \in 1 .. Read + 1, d \in Seq(Characters) : Reached(i, d) /\ InSize(i, d)
  BY <1>1, HereIs DEF Decoding, InChunk
<1>3. /\ Here = source[Read + 1] /\ Read + 1 \in 1 .. Len(body) /\ running /\ Read \in Nat
      /\ source \in Seq(Characters) /\ Len(body) \in Nat /\ Len(body) <= Len(source)
      /\ Len(source) \in Nat /\ hexes \in 0 .. HexMax /\ HexMax \in Nat /\ Here \in Others
      /\ ret = EXIT
  BY <1>1, HereIs, Facts DEF Characters
<1>4. hexes = Read + 1 - i /\ Outside(Others, i, Read) /\ left = Number(i, Read) /\ Out = d
  BY <1>2 DEF InSize
<1>5. CASE hexes = 0
  <2> DEFINE n == Len(body)
  <2>1. n \in 0 .. Len(source) /\ n \in Nat /\ i \in 1 .. n + 1 /\ i \in Nat /\ i = Read + 1
        /\ i \in i .. n
    BY <1>3, <1>4, <1>5
  <2>2. First(Others, i, n) = i
    <3>1. source[i] \in Others /\ \A k \in i .. i - 1 : source[k] \notin Others
      BY <1>3, <2>1
    <3> HIDE DEF n
    <3>2. QED  BY <2>1, <3>1, FirstIs
  <2>3. HasNoSize(i, n)
    BY <2>1, <2>2 DEF HasNoSize, DigitsEnd
  <2>4. Unchunked(n) = <<-1, d>>
    BY <1>2, <1>3, <2>1, <2>3, NoSizeThere
  <2>5. Leave(-1, buf, dst, src) /\ UNCHANGED decoder
    BY <1>5 DEF SizeEnd
  <2>6. -1 # EXIT
    BY DEF EXIT
  <2> HIDE DEF EXIT
  <2>7. QED  BY <1>3, <1>4, <2>4, <2>5, <2>6, StopKeeps
<1>6. CASE hexes # 0
  <2>1. /\ hexes' = 0 /\ state' = "EXT"
        /\ UNCHANGED <<trailer, left, buf, src, dst, running, ret, source, body, decoded>>
    BY <1>1, <1>6 DEF SizeEnd, history
  <2>2. Read' = Read /\ Out' = Out
    BY <2>1 DEF Read, Out
  <2>3. PICK stop : stop = Read + 1
    OBVIOUS
  <2>4. Digits(i, stop)
    BY <1>3, <1>4, <1>6, <2>3 DEF Digits
  <2>5. stop \in i + 1 .. Read + 1 /\ Outside({"LF"}, stop, Read) /\ stop - 1 = Read
    BY <1>3, <1>4, <1>6, <2>3 DEF Outside
  <2>6. InExt(i, d)'
    <3>1. Digits(i, stop)' /\ Outside({"LF"}, stop, Read)'
      BY <2>1, <2>2, <2>4, <2>5, ReferenceSame DEF Digits
    <3>2. left' = Number(i, stop - 1)'
      BY <1>4, <2>1, <2>5, ReferenceSame
    <3>3. stop \in i + 1 .. Read' + 1 /\ Out' = d
      BY <1>4, <2>2, <2>5
    <3>4. QED  BY <3>1, <3>2, <3>3 DEF InExt
  <2>7. Decoding'
    BY <1>2, <1>3, <2>1, <2>2, <2>6, DecodingOn DEF InChunk
  <2>8. \A k \in src' + 1 .. Len(buf') : buf'[k] = source'[Len(body') - Len(buf') + k]
    BY <1>3, <2>1 DEF CutInv
  <2>9. RestHandedBack'
    BY <1>3, <2>1 DEF RestHandedBack, EXIT
  <2>10. QED  BY <1>3, <2>1, <2>7, <2>8, <2>9 DEF CutInv, States
<1>7. QED  BY <1>5, <1>6

(* The rest of the size line.                                                *)
LEMMA ExtSkipKeeps == ASSUME PInv, CutInv, ExtSkip PROVE CutInv'
<1>1. Ahead /\ state = "EXT" /\ Here # "LF" /\ Past /\ UNCHANGED <<state, left, hexes>>
  BY DEF ExtSkip
<1>2. PICK i \in 1 .. Read + 1, d \in Seq(Characters) : Reached(i, d) /\ InExt(i, d)
  BY <1>1, HereIs DEF Decoding, InChunk
<1>3. PICK stop \in i + 1 .. Read + 1 :
        /\ Digits(i, stop) /\ left = Number(i, stop - 1)
        /\ Outside({"LF"}, stop, Read) /\ Out = d
  BY <1>2 DEF InExt
<1>4. Here = source[Read + 1] /\ Read \in Nat
  BY <1>1, HereIs, Facts
<1>5. Read' = Read + 1 /\ Out' = Out /\ UNCHANGED <<source, body, trailer>>
  BY <1>1, PastRead DEF Past
<1>6. Outside({"LF"}, stop, Read + 1) /\ stop \in i + 1 .. Read + 1 + 1
  BY <1>1, <1>3, <1>4 DEF Outside
<1>7. InExt(i, d)'
  <2>1. Digits(i, stop)' /\ Outside({"LF"}, stop, Read)' /\ left' = Number(i, stop - 1)'
    BY <1>1, <1>3, <1>5, <1>6, ReferenceSame DEF Digits
  <2>2. QED  BY <1>3, <1>5, <1>6, <2>1 DEF InExt
<1>8. Decoding'
  BY <1>1, <1>2, <1>4, <1>5, <1>7, DecodingOn DEF InChunk
<1>9. QED  BY <1>1, <1>8, PastKeeps DEF States

(* The end of the size line: of the body, of trailers, or of data.           *)
LEMMA ExtEndKeeps == ASSUME PInv, CutInv, ExtEnd PROVE CutInv'
<1>1. Ahead /\ state = "EXT" /\ Here = "LF"
  BY DEF ExtEnd
<1>2. PICK i \in 1 .. Read + 1, d \in Seq(Characters) : Reached(i, d) /\ InExt(i, d)
  BY <1>1, HereIs DEF Decoding, InChunk
<1>3. PICK stop \in i + 1 .. Read + 1 :
        /\ Digits(i, stop) /\ left = Number(i, stop - 1)
        /\ Outside({"LF"}, stop, Read) /\ Out = d
  BY <1>2 DEF InExt
<1>4. PICK eol : eol = Read + 1
  OBVIOUS
<1>5. /\ source[eol] = "LF" /\ eol \in 1 .. Len(body) /\ running /\ Read \in Nat /\ left \in Nat
      /\ source \in Seq(Characters) /\ Len(body) \in Nat /\ Len(body) <= Len(source)
      /\ Len(source) \in Nat /\ Len(body) - Read = Len(buf) - src /\ Len(buf) \in Nat
      /\ src \in Nat /\ dst \in Nat /\ dst <= src /\ src < Len(buf) /\ buf \in Seq(Characters)
  BY <1>1, <1>4, HereIs, Facts DEF Ahead
<1>6. /\ eol \in stop .. Read + 1 /\ Outside({"LF"}, stop, eol - 1) /\ stop \in i + 1 .. eol
      /\ eol - 1 = Read
  BY <1>3, <1>4, <1>5
<1>7. CASE left = 0 /\ ~trailer
  <2> DEFINE n == Len(body)
             a == Len(buf) - src - 1
  <2>1. Leave(a, buf, dst, src + 1) /\ UNCHANGED decoder
    BY <1>7 DEF ExtEnd
  <2>2. /\ n \in 0 .. Len(source) /\ n \in Nat /\ i \in 1 .. n + 1 /\ i \in Nat /\ eol <= n
        /\ eol \in Nat
    BY <1>5, <1>6
  <2>3. /\ stop \in i + 1 .. n /\ stop - i <= HexMax /\ Outside(Others, i, stop - 1)
        /\ source[stop] \in Others /\ eol \in stop .. n
    BY <1>3, <1>6, <2>2 DEF Digits
  <2>4. Size(i, n) = 0 /\ ~HasNoSize(i, n) /\ HasSize(i, n) /\ LineEnd(i, n) = eol
    BY <1>3, <1>5, <1>6, <1>7, <2>2, <2>3, SizeOf, LineOf
  <2>5. d \o ChunkData(i, n) = d /\ ~IsFollowed(i, n)
    BY <1>5, <2>2, <2>4, NoData
  <2>6. LastAnswer(i, n) = a
    <3>1. LastAnswer(i, n) = n - eol
      BY <1>7, <2>4 DEF LastAnswer
    <3>2. QED  BY <1>4, <1>5, <3>1
  <2>7. Unchunked(n) = <<a, d>>
    <3>1. Unchunked(n) = <<LastAnswer(i, n), d \o ChunkData(i, n)>>
      BY <1>2, <1>5, <2>2, <2>5, LastOne
    <3>2. QED  BY <2>5, <2>6, <3>1
  <2>8. Out = decoded \o SubSeq(buf, 1, dst)
    BY <1>5 DEF Out
  <2>9. /\ a \in Int /\ a >= 0 /\ src + 1 \in Nat /\ dst <= src + 1 /\ src <= src + 1
        /\ src + 1 <= Len(buf)
        /\ a = Len(buf) - (src + 1)
    BY <1>5
  <2>10. a # EXIT
    BY <2>9 DEF EXIT
  <2>11. \A k \in src + 1 + 1 .. Len(buf) : buf[k] = source[Len(body) - Len(buf) + k]
    BY <1>5 DEF CutInv
  <2>12. <<a, decoded \o SubSeq(buf, 1, dst)>> = Unchunked(Len(body))
    BY <1>3, <2>7, <2>8
  <2>13. trailer' = trailer /\ state' \in States
    BY <2>1 DEF decoder, CutInv
  <2> HIDE DEF EXIT, a
  <2>14. QED  BY <1>5, <2>1, <2>9, <2>10, <2>11, <2>12, <2>13, LeaveKeeps
<1>8. CASE ~(left = 0 /\ ~trailer)
  <2>1. state' = (IF left = 0 THEN "LINE_HEAD" ELSE "DATA") /\ Past /\ UNCHANGED <<left, hexes>>
    BY <1>8 DEF ExtEnd
  <2>2. Read' = eol /\ Read' = Read + 1 /\ Out' = Out /\ UNCHANGED <<source, body, trailer>>
    BY <1>1, <1>4, <2>1, PastRead DEF Past
  <2>3. SizeRead(i, stop, eol)'
    BY <1>3, <1>4, <1>5, <1>6, <2>2, ReferenceSame DEF SizeRead, Digits
  <2>4. stop \in i + 1 .. Read' /\ eol \in i + 1 .. Read' /\ i \in Nat
    BY <1>4, <1>5, <1>6, <2>2
  <2>5. left' = Number(i, stop - 1)' /\ Out' = d
    BY <1>3, <2>1, <2>2, ReferenceSame
  <2>6. CASE left = 0
    <3>1. \A m \in eol + 1 .. eol : FALSE
      BY <1>5
    <3>2. \A m \in eol + 1 .. Read' : ~EmptyLine(eol + 1, m)'
      BY <2>2, <3>1
    <3>3. eol + 1 \in eol + 1 .. Read' + 1
      BY <1>5, <2>2
    <3>4. \A S : Outside(S, eol + 1, Read)'
      BY <2>2, <3>1 DEF Outside
    <3>5. Line(eol + 1, eol + 1)'
      BY <3>3, <3>4 DEF Line
    <3>6. trailer' /\ state' = "LINE_HEAD"
      BY <1>8, <2>1, <2>2, <2>6
    <3>7. Number(i, stop - 1)' = 0
      BY <2>1, <2>5, <2>6
    <3>8. InTrailer(i, d)'
      BY <2>3, <2>4, <2>5, <3>2, <3>3, <3>4, <3>5, <3>6, <3>7 DEF InTrailer
    <3>9. Decoding'
      BY <1>2, <1>5, <2>2, <3>6, <3>8, DecodingOn DEF InChunk
    <3>10. QED  BY <1>1, <2>1, <3>6, <3>9, PastKeeps DEF States
  <2>7. CASE left # 0
    <3>1. left' > 0 /\ eol + left' = eol + Number(i, stop - 1)' /\ state' = "DATA"
      BY <1>5, <2>1, <2>5, <2>7
    <3>2. SubSeq(source, eol + 1, eol) = <<>> /\ d \o <<>> = d
      BY <1>5
    <3>3. Out' = d \o SubSeq(source, eol + 1, Read)'
      BY <2>2, <2>5, <3>2
    <3>4. InData(i, d)'
      BY <2>2, <2>3, <2>4, <3>1, <3>3 DEF InData
    <3>5. Decoding'
      BY <1>2, <1>5, <2>2, <3>1, <3>4, DecodingOn DEF InChunk
    <3>6. QED  BY <1>1, <2>1, <3>1, <3>5, PastKeeps DEF States
  <2>8. QED  BY <2>6, <2>7
<1>9. QED  BY <1>7, <1>8

(* The octets of a chunk that a call moves follow those moved before.        *)
LEMMA TakenIs ==
  ASSUME PInv, CutInv, running, NEW m \in Nat, src + m <= Len(buf)
  PROVE  LET b == Moved(buf, dst, src, m)
         IN /\ b \in Seq(Characters) /\ Len(b) = Len(buf)
            /\ \A k \in src + m + 1 .. Len(b) : b[k] = source[Len(body) - Len(buf) + k]
            /\ decoded \o SubSeq(b, 1, dst + m) = Out \o SubSeq(source, Read + 1, Read + m)
<1> DEFINE b == Moved(buf, dst, src, m)
           l == Len(buf)
<1>1. /\ source \in Seq(Characters) /\ buf \in Seq(Characters) /\ l \in Nat /\ Len(source) \in Nat
      /\ src \in Nat /\ dst \in Nat /\ dst <= src /\ Len(body) \in Nat /\ Len(body) <= Len(source)
      /\ Read \in Nat /\ Read = Len(body) - l + src /\ Read + m <= Len(source)
  BY Facts DEF Read
<1>2. \A k \in src + 1 .. l : buf[k] = source[Len(body) - l + k]
  BY DEF CutInv
<1>3. b \in Seq(Characters) /\ Len(b) = l
  BY <1>1, MovedType
<1>4. ASSUME NEW k \in 1 .. l PROVE b[k] = IF k > dst /\ k <= dst + m THEN buf[k - dst + src] ELSE buf[k]
  BY DEF Moved
<1>5. ASSUME NEW k \in src + m + 1 .. l PROVE b[k] = source[Len(body) - l + k]
  <2>1. k \in 1 .. l /\ k > dst + m /\ k \in src + 1 .. l
    BY <1>1
  <2>2. b[k] = buf[k]
    BY <1>1, <1>4, <2>1
  <2>3. QED  BY <1>2, <2>1, <2>2
<1> DEFINE x == SubSeq(buf, 1, dst)
           y == SubSeq(source, Read + 1, Read + m)
           w == SubSeq(b, 1, dst + m)
<1>6. x \in Seq(Characters) /\ Len(x) = dst /\ \A k \in 1 .. dst : x[k] = buf[k]
  <2>1. SubSeq(buf, 0 + 1, dst) \in Seq(Characters) /\ Len(SubSeq(buf, 0 + 1, dst)) = dst - 0
        /\ \A k \in 1 .. dst - 0 : SubSeq(buf, 0 + 1, dst)[k] = buf[0 + k]
    <3>1. 0 \in Nat /\ 0 <= dst /\ dst <= Len(buf)
      BY <1>1
    <3>2. QED  BY <1>1, <3>1, SubSeqIs
  <2>2. QED  BY <1>1, <2>1
<1>7. y \in Seq(Characters) /\ Len(y) = m /\ \A k \in 1 .. m : y[k] = source[Read + k]
  <2> DEFINE r == Read
             z == Read + m
  <2>1. r \in Nat /\ z \in Nat /\ r <= z /\ z - r = m /\ z <= Len(source)
    BY <1>1
  <2> HIDE DEF r, z
  <2>2. SubSeq(source, r + 1, z) \in Seq(Characters) /\ Len(SubSeq(source, r + 1, z)) = z - r
        /\ \A k \in 1 .. z - r : SubSeq(source, r + 1, z)[k] = source[r + k]
    BY <1>1, <2>1, SubSeqIs
  <2>3. QED  BY <2>1, <2>2 DEF r, z
<1>8. w \in Seq(Characters) /\ Len(w) = dst + m /\ \A k \in 1 .. dst + m : w[k] = b[k]
  <2> HIDE DEF b
  <2>1. /\ SubSeq(b, 0 + 1, dst + m) \in Seq(Characters)
        /\ Len(SubSeq(b, 0 + 1, dst + m)) = dst + m - 0
        /\ \A k \in 1 .. dst + m - 0 : SubSeq(b, 0 + 1, dst + m)[k] = b[0 + k]
    <3>1. 0 \in Nat /\ dst + m \in Nat /\ 0 <= dst + m /\ dst + m <= Len(b)
      BY <1>1, <1>3
    <3>2. QED  BY <1>3, <3>1, SubSeqIs
  <2>2. dst + m - 0 = dst + m /\ \A k \in 1 .. dst + m : 0 + k = k
    BY <1>1
  <2>3. QED  BY <2>1, <2>2
<1>9. ASSUME NEW k \in 1 .. dst + m PROVE w[k] = IF k <= dst THEN x[k] ELSE y[k - dst]
  <2>1. k \in 1 .. l /\ w[k] = b[k]
    <3> HIDE DEF b, w, x, y
    <3>1. k \in 1 .. l
      BY <1>1
    <3>2. QED  BY <1>8, <3>1
  <2> HIDE DEF b, w, x, y
  <2>2. CASE k <= dst
    <3>1. b[k] = buf[k] /\ k \in 1 .. dst
      BY <1>1, <1>4, <2>1, <2>2
    <3>2. QED  BY <1>6, <2>1, <2>2, <3>1
  <2>3. CASE ~(k <= dst)
    <3>1. k - dst \in 1 .. m /\ k - dst + src \in src + 1 .. l /\ k > dst /\ k <= dst + m
          /\ Len(body) - l + (k - dst + src) = Read + (k - dst)
      BY <1>1, <2>3
    <3>2. b[k] = buf[k - dst + src]
      BY <1>4, <2>1, <3>1
    <3>3. buf[k - dst + src] = source[Read + (k - dst)]
      BY <1>2, <3>1
    <3>4. QED  BY <1>7, <2>1, <2>3, <3>1, <3>2, <3>3
  <2>4. QED  BY <2>2, <2>3
<1>10. w = x \o y
  <2> HIDE DEF w, x, y
  <2>1. x \o y \in Seq(Characters) /\ Len(x \o y) = dst + m
        /\ \A k \in 1 .. dst + m : (x \o y)[k] = IF k <= dst THEN x[k] ELSE y[k - dst]
    BY <1>6, <1>7, ConcatProperties
  <2>2. QED  BY <1>8, <1>9, <2>1, SeqEqual
<1>11. decoded \o w = Out \o y
  <2>1. decoded \in Seq(Characters) /\ Out = decoded \o x
    BY DEF CutInv, Out
  <2> HIDE DEF w, x, y
  <2>2. (decoded \o x) \o y = decoded \o (x \o y)
    BY <1>6, <1>7, <2>1, ConcatAssociative
  <2>3. QED  BY <1>10, <2>1, <2>2
<1>12. QED  BY <1>3, <1>5, <1>11

(* The data of a chunk, all of it or as much as is there.                    *)
LEMMA DataKeeps == ASSUME PInv, CutInv, Data PROVE CutInv'
<1>1. running /\ state = "DATA" /\ Take(Available, left - Available)
  BY DEF Data
<1>2. /\ source \in Seq(Characters) /\ buf \in Seq(Characters) /\ Len(buf) \in Nat
      /\ Len(source) \in Nat
      /\ src \in Nat /\ dst \in Nat /\ dst <= src /\ src <= Len(buf)
      /\ Len(body) \in Nat /\ Len(body) <= Len(source) /\ Read \in Nat /\ left \in Nat
      /\ Len(body) - Read = Len(buf) - src /\ Len(buf) <= Len(body)
  BY Facts
<1>3. ret = EXIT /\ Decoding
  BY <1>1 DEF CutInv
<1>4. PICK i \in 1 .. Read + 1, d \in Seq(Characters) : Reached(i, d) /\ InData(i, d)
  BY <1>1, <1>3 DEF Decoding, InChunk
<1>5. PICK stop \in i + 1 .. Read, eol \in i + 1 .. Read :
        /\ SizeRead(i, stop, eol) /\ left > 0 /\ Read + left = eol + Number(i, stop - 1)
        /\ Out = d \o SubSeq(source, eol + 1, Read)
  BY <1>4 DEF InData
<1>6. PICK m : m = Available
  OBVIOUS
<1>7. m \in Nat /\ m <= left /\ src + m <= Len(buf) /\ (m < left => src + m = Len(buf))
  BY <1>2, <1>6 DEF Available
<1>8. PICK b : b = Moved(buf, dst, src, m)
  OBVIOUS
<1>9. /\ b \in Seq(Characters) /\ Len(b) = Len(buf)
      /\ \A k \in src + m + 1 .. Len(b) : b[k] = source[Len(body) - Len(buf) + k]
      /\ decoded \o SubSeq(b, 1, dst + m) = Out \o SubSeq(source, Read + 1, Read + m)
  BY <1>1, <1>7, <1>8, TakenIs
<1>10. decoded \o SubSeq(b, 1, dst + m) = d \o SubSeq(source, eol + 1, Read + m)
  <2> DEFINE x == SubSeq(source, eol + 1, Read)
             y == SubSeq(source, Read + 1, Read + m)
  <2>1. /\ eol \in Nat /\ Read + m \in Nat /\ eol <= Read /\ Read <= Read + m
        /\ Read + m <= Len(source)
    BY <1>2, <1>7
  <2>2. x \in Seq(Characters) /\ y \in Seq(Characters)
    BY <1>2, <2>1, SubSeqIs
  <2>3. x \o y = SubSeq(source, eol + 1, Read + m)
    <3> DEFINE r == Read
               z == Read + m
    <3>1. eol \in Nat /\ r \in Nat /\ z \in Nat /\ eol <= r /\ r <= z /\ z <= Len(source)
      BY <1>2, <2>1
    <3> HIDE DEF r, z
    <3>2. SubSeq(source, eol + 1, r) \o SubSeq(source, r + 1, z) = SubSeq(source, eol + 1, z)
      BY <1>2, <3>1, SubSeqJoin
    <3>3. QED  BY <3>2 DEF r, z
  <2> HIDE DEF x, y
  <2>4. (d \o x) \o y = d \o (x \o y)
    BY <2>2, ConcatAssociative
  <2>5. QED  BY <1>5, <1>9, <2>3, <2>4 DEF x, y
<1>11. left' = left - m /\ UNCHANGED <<trailer, hexes>>
  BY <1>1, <1>6 DEF Take
<1>12. /\ i \in Nat /\ stop \in i + 1 .. Read + m /\ eol \in i + 1 .. Read + m /\ eol <= Read
       /\ i \in 1 .. Read + m + 1
  BY <1>2, <1>7
<1>13. CASE m < left
  <2>1. Leave(EXIT, b, dst + m, src + m) /\ state' = state
    BY <1>1, <1>6, <1>8, <1>13 DEF Take
  <2>2. UNCHANGED <<source, body, trailer>> /\ ~running' /\ Len(buf') = Len(buf) /\ src' = src + m
        /\ decoded' = decoded \o SubSeq(b, 1, dst + m)
    <3>1. Len(Moved(b, dst + m, src + m, Len(b) - (src + m))) = Len(b)
      <4>1. Len(b) - (src + m) \in Nat /\ dst + m \in Nat /\ src + m \in Nat /\ dst + m <= src + m
            /\ src + m + (Len(b) - (src + m)) <= Len(b)
        BY <1>2, <1>7, <1>9
      <4>2. QED  BY <1>9, <4>1, MovedType
    <3>2. QED  BY <1>9, <1>11, <2>1, <3>1 DEF Leave
  <2>3. Read' = Read + m
    <3>1. Read' = Len(body) - Len(buf) + (src + m)
      BY <2>2 DEF Read
    <3>2. Read = Len(body) - Len(buf) + src
      BY DEF Read
    <3>3. Len(body) - Len(buf) + (src + m) = Len(body) - Len(buf) + src + m
      BY <1>2, <1>7
    <3>4. QED  BY <3>1, <3>2, <3>3
  <2>4. Out' = d \o SubSeq(source, eol + 1, Read)'
    BY <1>10, <2>2, <2>3 DEF Out
  <2>5. SizeRead(i, stop, eol)'
    BY <1>2, <1>5, <1>7, <1>12, <2>2, <2>3, ReferenceSame DEF SizeRead, Digits
  <2>6. left' > 0 /\ Read' + left' = eol + Number(i, stop - 1)'
    <3>1. Number(i, stop - 1)' = Number(i, stop - 1)
      BY <2>2, ReferenceSame
    <3>2. left' > 0 /\ Read + m + (left - m) = Read + left
      BY <1>2, <1>7, <1>11, <1>13
    <3>3. QED  BY <1>5, <1>11, <2>3, <3>1, <3>2
  <2>7. InData(i, d)'
    BY <1>12, <2>3, <2>4, <2>5, <2>6 DEF InData
  <2>8. Decoding'
    <3>1. Read' \in Nat /\ Read <= Read'
      BY <1>2, <1>7, <2>3
    <3>2. InChunk(i, d)'
      BY <1>1, <2>1, <2>7 DEF InChunk
    <3>3. QED  BY <1>2, <1>4, <2>2, <3>1, <3>2, DecodingOn
  <2>9. /\ EXIT \in Int /\ ~(EXIT >= 0) /\ dst + m \in Nat /\ src + m \in Nat /\ dst + m <= src + m
        /\ src <= src + m /\ src + m <= Len(b) /\ src + m = Len(b)
    BY <1>2, <1>7, <1>9, <1>13 DEF EXIT
  <2>10. state' \in States
    BY <1>1, <2>1 DEF States
  <2> HIDE DEF EXIT
  <2>11. QED  BY <1>1, <1>9, <2>1, <2>2, <2>8, <2>9, <2>10, LeaveKeeps
<1>14. CASE ~(m < left)
  <2>1. /\ state' = "CRLF" /\ buf' = b /\ src' = src + m /\ dst' = dst + m
        /\ UNCHANGED <<running, ret, source, body, decoded>>
    BY <1>1, <1>6, <1>8, <1>14 DEF Take, history
  <2>2. Read' = Read + m /\ m = left
    <3>1. Read' = Len(body) - Len(buf) + (src + m)
      BY <1>9, <2>1 DEF Read
    <3>2. Read = Len(body) - Len(buf) + src
      BY DEF Read
    <3>3. Len(body) - Len(buf) + (src + m) = Len(body) - Len(buf) + src + m
      BY <1>2, <1>7
    <3>4. Read' = Read + m
      BY <3>1, <3>2, <3>3
    <3>5. m = left
      BY <1>2, <1>7, <1>14
    <3>6. QED  BY <3>4, <3>5
  <2>3. Out' = d \o SubSeq(source, eol + 1, Read + m)
    BY <1>1, <1>10, <2>1 DEF Out
  <2>4. SizeRead(i, stop, eol)'
    BY <1>2, <1>5, <1>7, <1>11, <1>12, <2>1, <2>2, ReferenceSame DEF SizeRead, Digits
  <2>5. eol + Number(i, stop - 1)' = Read + m
    <3>1. Number(i, stop - 1)' = Number(i, stop - 1)
      BY <2>1, <1>11, ReferenceSame
    <3>2. QED  BY <1>5, <2>2, <3>1
  <2>6. eol < Read + m /\ Read + m <= Read + m /\ \A k \in Read + m + 1 .. Read + m : FALSE
    BY <1>2, <1>5, <1>7, <1>12, <2>2
  <2>7. PICK z : z = eol + Number(i, stop - 1)'
    OBVIOUS
  <2>8. InCRLF(i, d)'
    <3>1. z = Read' /\ eol < z /\ z <= Read' /\ Out' = (d \o SubSeq(source, eol + 1, z))'
      BY <1>2, <2>1, <2>2, <2>3, <2>5, <2>6, <2>7
    <3>2. \A k \in z + 1 .. Read' : source'[k] \notin Characters \ {"CR"}
      BY <2>2, <2>6, <3>1
    <3>3. Outside(Characters \ {"CR"}, z + 1, Read)'
      BY <3>2 DEF Outside
    <3>4. stop \in i + 1 .. Read' /\ eol \in i + 1 .. Read'
      BY <1>12, <2>2
    <3>5. QED  BY <2>4, <2>7, <3>1, <3>3, <3>4 DEF InCRLF
  <2>9. Decoding'
    <3>1. Read' \in Nat /\ Read <= Read'
      BY <1>2, <1>7, <2>2
    <3>2. InChunk(i, d)'
      BY <2>1, <2>8 DEF InChunk
    <3>3. QED  BY <1>2, <1>4, <1>11, <2>1, <3>1, <3>2, DecodingOn
  <2>10. \A k \in src' + 1 .. Len(buf') : buf'[k] = source'[Len(body') - Len(buf') + k]
    BY <1>9, <2>1
  <2>11. RestHandedBack'
    BY <1>3, <2>1 DEF RestHandedBack, EXIT
  <2>12. QED  BY <1>1, <1>3, <1>9, <1>11, <2>1, <2>9, <2>10, <2>11 DEF CutInv, States
<1>15. QED  BY <1>13, <1>14

(* A size line that was read stays read.                                     *)
LEMMA SizeReadOn ==
  ASSUME UNCHANGED <<source, body, trailer>>, Read \in Nat, Read' \in Nat, Read <= Read',
         NEW i \in Nat, NEW stop \in Nat, NEW eol \in i + 1 .. Read, SizeRead(i, stop, eol)
  PROVE  SizeRead(i, stop, eol)'
<1>1. Digits(i, stop)'
  BY ReferenceSame DEF SizeRead, Digits
<1>2. Outside({"LF"}, stop, eol - 1)' /\ source'[eol] = "LF"
  BY ReferenceSame DEF SizeRead
<1>3. eol \in stop .. Read'
  BY DEF SizeRead
<1>4. QED  BY <1>1, <1>2, <1>3 DEF SizeRead

(* A CR behind a chunk or at the beginning of a trailing line.               *)
LEMMA SkipCRKeeps == ASSUME PInv, CutInv, SkipCR PROVE CutInv'
<1>1. /\ Ahead /\ state \in {"CRLF", "LINE_HEAD"} /\ Here = "CR" /\ Past
      /\ UNCHANGED <<state, left, hexes>>
  BY DEF SkipCR
<1>2. PICK i \in 1 .. Read + 1, d \in Seq(Characters) : Reached(i, d) /\ InChunk(i, d)
  BY <1>1, HereIs DEF Decoding
<1>3. source[Read + 1] = "CR" /\ Read \in Nat /\ i \in Nat
  BY <1>1, HereIs, Facts
<1>4. Read' = Read + 1 /\ Out' = Out /\ UNCHANGED <<source, body, trailer>>
  BY <1>1, PastRead DEF Past
<1>5. CASE state = "CRLF"
  <2>1. InCRLF(i, d)
    BY <1>2, <1>5 DEF InChunk
  <2>2. PICK stop \in i + 1 .. Read, eol \in i + 1 .. Read :
          \E z : /\ z = eol + Number(i, stop - 1) /\ SizeRead(i, stop, eol) /\ eol < z /\ z <= Read
                 /\ Outside(Characters \ {"CR"}, z + 1, Read)
                 /\ Out = d \o SubSeq(source, eol + 1, z)
    BY <2>1 DEF InCRLF
  <2>3. PICK z : /\ z = eol + Number(i, stop - 1) /\ SizeRead(i, stop, eol) /\ eol < z /\ z <= Read
                 /\ Outside(Characters \ {"CR"}, z + 1, Read)
                 /\ Out = d \o SubSeq(source, eol + 1, z)
    BY <2>2
  <2>4. SizeRead(i, stop, eol)' /\ z = eol + Number(i, stop - 1)'
    BY <1>3, <1>4, <2>3, SizeReadOn, ReferenceSame
  <2>5. Outside(Characters \ {"CR"}, z + 1, Read)'
    <3>1. \A k \in z + 1 .. Read + 1 : k \in z + 1 .. Read \/ k = Read + 1
      BY <1>3
    <3>2. QED  BY <1>3, <1>4, <2>3, <3>1 DEF Outside
  <2>6. z <= Read' /\ stop \in i + 1 .. Read' /\ eol \in i + 1 .. Read'
    <3>1. z \in Int
      <4>1. i \in 1 .. Read + 1 /\ stop \in Int /\ eol \in Int /\ Read \in Read .. Len(source)
        BY <1>3, <2>3, Facts
      <4>2. Number(i, stop - 1) \in Nat
        BY <2>3, <4>1, SizeReadIs
      <4>3. QED  BY <2>3, <4>1, <4>2
    <3>2. QED  BY <1>3, <1>4, <2>3, <3>1
  <2>7. InCRLF(i, d)'
    BY <1>4, <2>3, <2>4, <2>5, <2>6 DEF InCRLF
  <2>8. InChunk(i, d)'
    BY <1>1, <1>5, <2>7 DEF InChunk
  <2>9. QED  BY <1>1, <1>2, <1>3, <1>4, <1>5, <2>8, DecodingOn, PastKeeps DEF States
<1>6. CASE state = "LINE_HEAD"
  <2>1. InTrailer(i, d)
    BY <1>2, <1>6 DEF InChunk
  <2>2. PICK stop \in i + 1 .. Read, eol \in i + 1 .. Read :
          /\ trailer /\ SizeRead(i, stop, eol) /\ Number(i, stop - 1) = 0 /\ Out = d
          /\ \A m \in eol + 1 .. Read : ~EmptyLine(eol + 1, m)
          /\ \E b \in eol + 1 .. Read + 1 :
               Line(eol + 1, b) /\ (state = "LINE_HEAD" <=> Outside(Characters \ {"CR"}, b, Read))
    BY <2>1 DEF InTrailer
  <2>3. PICK b \in eol + 1 .. Read + 1 : Line(eol + 1, b) /\ Outside(Characters \ {"CR"}, b, Read)
    BY <1>6, <2>2
  <2>4. SizeRead(i, stop, eol)' /\ Number(i, stop - 1)' = 0
    BY <1>3, <1>4, <2>2, SizeReadOn, ReferenceSame
  <2>5. \A m \in eol + 1 .. Read + 1 : ~EmptyLine(eol + 1, m)
    <3>1. ~EmptyLine(eol + 1, Read + 1)
      BY <1>3 DEF EmptyLine
    <3>2. \A m \in eol + 1 .. Read + 1 : m \in eol + 1 .. Read \/ m = Read + 1
      BY <1>3
    <3>3. QED  BY <2>2, <3>1, <3>2
  <2>6. \A k \in b .. Read + 1 : k \in b .. Read \/ k = Read + 1
    BY <1>3
  <2>7. Outside(Characters \ {"CR"}, b, Read)' /\ Outside({"LF"}, b, Read)'
    <3>1. Outside({"LF"}, b, Read)
      BY <2>3 DEF Line
    <3>2. QED  BY <1>3, <1>4, <2>3, <2>6, <3>1 DEF Outside
  <2>8. b \in eol + 1 .. Read' + 1 /\ stop \in i + 1 .. Read' /\ eol \in i + 1 .. Read'
    BY <1>3, <1>4
  <2>9. Line(eol + 1, b)'
    BY <1>4, <2>3, <2>7, <2>8 DEF Line
  <2>10. \A m \in eol + 1 .. Read' : ~EmptyLine(eol + 1, m)'
    BY <1>4, <2>5, ReferenceSame
  <2>11. InTrailer(i, d)'
    BY <1>1, <1>4, <1>6, <2>2, <2>4, <2>7, <2>8, <2>9, <2>10 DEF InTrailer
  <2>12. InChunk(i, d)'
    BY <1>1, <1>6, <2>11 DEF InChunk
  <2>13. QED  BY <1>1, <1>2, <1>3, <1>4, <1>6, <2>12, DecodingOn, PastKeeps DEF States
<1>7. QED  BY <1>1, <1>5, <1>6

(* What follows a chunk is data too.                                         *)
LEMMA RestIsData ==
  ASSUME source \in Seq(Characters), NEW n \in 0 .. Len(source), NEW k \in 1 .. n + 1
  PROVE  /\ Chunks(n)[k] = <<Chunks(n)[k][1], Chunks(n)[k][2]>>
         /\ Chunks(n)[k][2] \in Seq(Characters)
<1> DEFINE Good(i) == /\ Chunks(n)[i] = <<Chunks(n)[i][1], Chunks(n)[i][2]>>
                      /\ Chunks(n)[i][2] \in Seq(Characters)
           S == {m \in 0 .. n + 1 : \A i \in n + 2 - m .. n + 1 : Good(i)}
<1>1. n \in Nat /\ Len(source) \in Nat
  OBVIOUS
<1>2. ASSUME NEW i \in 1 .. n + 1 PROVE ChunkData(i, n) \in Seq(Characters)
  <2>1. LineEnd(i, n) \in Nat /\ Size(i, n) \in Nat
    BY <1>1, LayoutType
  <2>2. CASE HasSize(i, n)
    <3> DEFINE p == LineEnd(i, n) + Size(i, n)
    <3>1. p \in Int /\ n \in Int
      BY <1>1, <2>1
    <3> HIDE DEF p
    <3>2. Min({p, n}) = p \/ Min({p, n}) = n
      <4>1. CASE p <= n
        BY <3>1, <4>1, MinOfTwo
      <4>2. CASE n <= p
        BY <3>1, <4>2, MinOfTwo
      <4>3. QED  BY <3>1, <4>1, <4>2
    <3>3. Min({p, n}) \in Int /\ Min({p, n}) <= n
      <4>1. CASE p <= n
        BY <3>1, <4>1, MinOfTwo
      <4>2. CASE n <= p
        BY <3>1, <4>2, MinOfTwo
      <4>3. QED  BY <3>1, <4>1, <4>2
    <3> DEFINE q == Min({p, n})
    <3>4. q \in Int /\ q <= Len(source)
      BY <1>1, <3>3
    <3> HIDE DEF q
    <3>5. SubSeq(source, LineEnd(i, n) + 1, q) \in Seq(Characters)
      BY <1>1, <2>1, <3>4
    <3>6. QED  BY <2>2, <3>5 DEF ChunkData, p, q
  <2>3. CASE ~HasSize(i, n)
    BY <2>3 DEF ChunkData
  <2>4. QED  BY <2>2, <2>3
<1>3. 0 \in S
  BY <1>1
<1>4. ASSUME NEW m \in 0 .. n + 1 - 1, m \in S PROVE m + 1 \in S
  <2>1. m \in Nat /\ n + 1 - m \in 1 .. n + 1 /\ m + 1 \in 0 .. n + 1
    BY <1>1
  <2>2. PICK i : i = n + 1 - m
    OBVIOUS
  <2>3. \A j \in n + 2 - m .. n + 1 : Good(j)
    BY <1>4
  <2> HIDE DEF Good
  <2>4. Good(i)
    <3>1. i \in 1 .. n + 1 /\ i \in Nat
      BY <2>1, <2>2
    <3>2. Chunks(n)[i] = ChunkOf(Chunks(n), i, n) /\ ChunkData(i, n) \in Seq(Characters)
      BY <1>1, <1>2, <3>1, ChunksAre
    <3>3. CASE IsFollowed(i, n)
      <4>1. ChunkStop(i, n) + 1 \in i + 1 .. n + 1
        BY <1>1, <3>1, <3>3, LayoutType
      <4>2. ChunkStop(i, n) + 1 \in n + 2 - m .. n + 1
        BY <1>1, <2>1, <2>2, <3>1, <4>1
      <4>3. Chunks(n)[ChunkStop(i, n) + 1][2] \in Seq(Characters)
        BY <2>3, <4>2 DEF Good
      <4>4. ChunkData(i, n) \o Chunks(n)[ChunkStop(i, n) + 1][2] \in Seq(Characters)
        BY <3>2, <4>3, ConcatProperties
      <4>5. QED  BY <3>2, <3>3, <4>4 DEF Good, ChunkOf
    <3>4. CASE ~IsFollowed(i, n)
      BY <3>2, <3>4 DEF Good, ChunkOf
    <3>5. QED  BY <3>3, <3>4
  <2>5. \A j \in n + 2 - (m + 1) .. n + 1 : j = i \/ j \in n + 2 - m .. n + 1
    BY <1>1, <2>1, <2>2
  <2>6. QED  BY <2>1, <2>3, <2>4, <2>5
<1> HIDE DEF S
<1>5. n + 1 \in Nat /\ \A m \in 0 .. n + 1 - 1 : m \in S => m + 1 \in S
  BY <1>1, <1>4
<1>6. \A m \in 0 .. n + 1 : m \in S
  BY <1>3, <1>5, SetInduction
<1>7. n + 1 \in S /\ k \in n + 2 - (n + 1) .. n + 1
  BY <1>1, <1>6
<1>8. QED  BY <1>7 DEF S

(* Between two chunks: where the next one begins.                            *)
LEMMA NextReached ==
  ASSUME source \in Seq(Characters), NEW i \in Nat \ {0}, NEW e \in Nat, i < e, e <= Len(source),
         NEW d \in Seq(Characters), NEW c \in Seq(Characters), Reached(i, d),
         \A n \in e .. Len(source) :
           IsFollowed(i, n) /\ ChunkStop(i, n) = e /\ ChunkData(i, n) = c
  PROVE  Reached(e + 1, d \o c)
<1> DEFINE At(n) == Unchunked(n) = <<Chunks(n)[e + 1][1], (d \o c) \o Chunks(n)[e + 1][2]>>
<1>1. ASSUME NEW n \in (e + 1) - 1 .. Len(source) PROVE At(n)
  <2>1. n \in e .. Len(source) /\ n \in 0 .. Len(source) /\ i \in 1 .. n + 1 /\ e + 1 \in 1 .. n + 1
        /\ n \in i - 1 .. Len(source)
    OBVIOUS
  <2>2. IsFollowed(i, n) /\ ChunkStop(i, n) = e /\ ChunkData(i, n) = c
    BY <2>1
  <2>3. Chunks(n)[i] = <<Chunks(n)[e + 1][1], c \o Chunks(n)[e + 1][2]>>
    <3>1. Chunks(n)[i] = ChunkOf(Chunks(n), i, n)
      BY <2>1, ChunksAre
    <3>2. QED  BY <2>2, <3>1 DEF ChunkOf
  <2>4. Unchunked(n) = <<Chunks(n)[i][1], d \o Chunks(n)[i][2]>>
    BY <2>1 DEF Reached
  <2>5. Chunks(n)[i][1] = Chunks(n)[e + 1][1] /\ Chunks(n)[i][2] = c \o Chunks(n)[e + 1][2]
    BY <2>3
  <2>6. Chunks(n)[e + 1][2] \in Seq(Characters)
    BY <2>1, RestIsData
  <2>7. d \o (c \o Chunks(n)[e + 1][2]) = (d \o c) \o Chunks(n)[e + 1][2]
    <3>1. \A r \in Seq(Characters) : (d \o c) \o r = d \o (c \o r)
      BY ConcatAssociative
    <3>2. QED  BY <2>6, <3>1
  <2>8. QED  BY <2>4, <2>5, <2>7
<1> HIDE DEF At
<1>2. \A n \in (e + 1) - 1 .. Len(source) : At(n)
  BY <1>1
<1>3. QED  BY <1>2 DEF Reached, At

(* The newline behind a chunk, or what should have been one.                 *)
LEMMA ChunkEndKeeps == ASSUME PInv, CutInv, ChunkEnd PROVE CutInv'
<1>1. Ahead /\ state = "CRLF" /\ Here # "CR"
  BY DEF ChunkEnd
<1>2. PICK i \in 1 .. Read + 1, d \in Seq(Characters) : Reached(i, d) /\ InCRLF(i, d)
  BY <1>1, HereIs DEF Decoding, InChunk
<1>3. PICK stop \in i + 1 .. Read, eol \in i + 1 .. Read :
        \E z : /\ z = eol + Number(i, stop - 1) /\ SizeRead(i, stop, eol) /\ eol < z /\ z <= Read
               /\ Outside(Characters \ {"CR"}, z + 1, Read)
               /\ Out = d \o SubSeq(source, eol + 1, z)
  BY <1>2 DEF InCRLF
<1>4. PICK z : /\ z = eol + Number(i, stop - 1) /\ SizeRead(i, stop, eol) /\ eol < z /\ z <= Read
               /\ Outside(Characters \ {"CR"}, z + 1, Read)
               /\ Out = d \o SubSeq(source, eol + 1, z)
  BY <1>3
<1>5. PICK e : e = Read + 1
  OBVIOUS
<1>6. /\ Here = source[e] /\ e \in 1 .. Len(body) /\ running /\ Read \in Nat /\ ret = EXIT
      /\ source \in Seq(Characters) /\ Len(body) \in Nat /\ Len(body) <= Len(source)
      /\ Len(source) \in Nat /\ Here \in Characters \ {"CR"} /\ Out \in Seq(Characters)
  BY <1>1, <1>5, HereIs, Facts
<1>7. /\ i \in Nat \ {0} /\ eol \in Nat /\ stop \in Nat /\ e \in Nat /\ i < e /\ e <= Len(source)
      /\ eol <= Read
  BY <1>5, <1>6
<1>8. ASSUME NEW n \in e .. Len(source)
      PROVE  /\ HasSize(i, n) /\ LineEnd(i, n) = eol /\ Size(i, n) = Number(i, stop - 1)
             /\ ~HasNoSize(i, n) /\ Number(i, stop - 1) \in Nat
  <2>1. n \in Read .. Len(source) /\ stop \in Int /\ eol \in Int
    BY <1>5, <1>6, <1>7
  <2>2. QED  BY <1>4, <2>1, SizeReadIs
<1>9. z \in Nat /\ Number(i, stop - 1) > 0
  <2>1. e \in e .. Len(source)
    BY <1>7
  <2>2. Number(i, stop - 1) \in Nat
    BY <1>8, <2>1
  <2>3. QED  BY <1>4, <1>7, <2>2
<1>10. ASSUME NEW n \in e .. Len(source)
       PROVE  ChunkStop(i, n) = e /\ Size(i, n) > 0 /\ ChunkData(i, n) = SubSeq(source, eol + 1, z)
  <2>1. n \in Nat /\ z + 1 \in Nat /\ e \in z + 1 .. n /\ z <= n /\ n \in Int /\ z \in Int
    BY <1>4, <1>5, <1>6, <1>7, <1>9
  <2>2. \A k \in z + 1 .. e - 1 : source[k] \notin Characters \ {"CR"}
    BY <1>4, <1>5, <1>6 DEF Outside
  <2>3. source[e] \in Characters \ {"CR"}
    BY <1>6
  <2>4. First(Characters \ {"CR"}, z + 1, n) = e
    BY <2>1, <2>2, <2>3, FirstIs
  <2>5. LineEnd(i, n) + Size(i, n) = z /\ Size(i, n) > 0
    BY <1>4, <1>8, <1>9
  <2>6. Min({z, n}) = z
    BY <2>1, MinOfTwo
  <2>7. ChunkStop(i, n) = e
    BY <2>4, <2>5 DEF ChunkStop
  <2>8. ChunkData(i, n) = SubSeq(source, eol + 1, z)
    BY <1>8, <2>5, <2>6 DEF ChunkData
  <2>9. QED  BY <2>5, <2>7, <2>8
<1>11. CASE Here = "LF"
  <2>1. state' = "SIZE" /\ Past /\ UNCHANGED <<left, hexes>>
    BY <1>11 DEF ChunkEnd
  <2>2. Read' = e /\ Out' = Out /\ UNCHANGED <<source, body, trailer>>
    BY <1>1, <1>5, <2>1, PastRead DEF Past
  <2>3. SubSeq(source, eol + 1, z) \in Seq(Characters)
    <3>1. eol <= z /\ z <= Len(source)
      BY <1>4, <1>5, <1>6, <1>7, <1>9
    <3>2. QED  BY <1>6, <1>7, <1>9, <3>1, SubSeqIs
  <2>4. ASSUME NEW n \in e .. Len(source) PROVE IsFollowed(i, n)
    <3>1. ChunkStop(i, n) = e /\ e <= n /\ source[e] = "LF"
      BY <1>6, <1>7, <1>10, <1>11
    <3>2. QED  BY <1>8, <1>10, <3>1 DEF IsFollowed
  <2>5. Reached(e + 1, Out)
    BY <1>2, <1>4, <1>6, <1>7, <1>10, <2>3, <2>4, NextReached
  <2>6. left = 0 /\ hexes = 0
    BY <1>1 DEF PInv, SizeInv
  <2>7. Number(e + 1, e)' = 0
    <3>1. e + 1 \in Nat \ {0} /\ e + 1 <= Len(source) + 1 /\ e + 1 - 1 = e
      BY <1>7
    <3>2. Number(e + 1, e + 1 - 1) = 0
      BY <1>6, <3>1, NumberIs
    <3>3. QED  BY <2>2, <3>1, <3>2, ReferenceSame
  <2>8. Outside(Others, e + 1, Read)'
    <3>1. \A k \in e + 1 .. e : FALSE
      BY <1>7
    <3>2. QED  BY <2>2, <3>1 DEF Outside
  <2>9. InSize(e + 1, Out)'
    <3>1. hexes' = Read' + 1 - (e + 1) /\ left' = Number(e + 1, Read)'
      BY <1>7, <2>1, <2>2, <2>6, <2>7
    <3>2. PICK o : o = Out
      OBVIOUS
    <3>3. InSize(e + 1, o)'
      BY <2>2, <2>8, <3>1, <3>2 DEF InSize
    <3>4. QED  BY <2>2, <3>2, <3>3
  <2>10. Decoding'
    <3>1. PICK o : o = Out
      OBVIOUS
    <3>2. InSize(e + 1, o)'
      BY <2>2, <2>9, <3>1
    <3>3. Reached(e + 1, o)'
      BY <2>2, <2>5, <3>1, ReferenceSame
    <3>4. e + 1 \in 1 .. Read' + 1 /\ o \in Seq(Characters)
      BY <1>6, <1>7, <2>2, <3>1
    <3>5. QED  BY <2>1, <3>2, <3>3, <3>4 DEF Decoding, InChunk
  <2>11. QED  BY <1>1, <2>1, <2>10, PastKeeps DEF States
<1>12. CASE Here # "LF"
  <2> DEFINE n == Len(body)
  <2>1. Leave(-1, buf, dst, src) /\ UNCHANGED decoder
    BY <1>12 DEF ChunkEnd
  <2>2. n \in e .. Len(source) /\ n \in 0 .. Len(source) /\ i \in 1 .. n + 1
    BY <1>6, <1>7
  <2>3. /\ ChunkStop(i, n) = e /\ Size(i, n) > 0 /\ HasSize(i, n) /\ ~HasNoSize(i, n) /\ ~(e > n)
        /\ source[e] # "LF"
    BY <1>6, <1>8, <1>10, <1>12, <2>2
  <2>4. ~IsFollowed(i, n) /\ LastAnswer(i, n) = -1
    BY <2>3 DEF IsFollowed, LastAnswer
  <2>5. Unchunked(n) = <<-1, Out>>
    <3>1. Unchunked(n) = <<LastAnswer(i, n), d \o ChunkData(i, n)>>
      BY <1>2, <1>6, <2>2, <2>4, LastOne
    <3>2. d \o ChunkData(i, n) = Out
      BY <1>4, <1>10, <2>2
    <3>3. QED  BY <2>4, <3>1, <3>2
  <2>6. -1 # EXIT
    BY DEF EXIT
  <2> HIDE DEF EXIT
  <2>7. QED  BY <1>6, <2>1, <2>5, <2>6, StopKeeps
<1>13. QED  BY <1>11, <1>12

(* Among trailing lines.                                                     *)
LEMMA LineHeadKeeps == ASSUME PInv, CutInv, LineHead PROVE CutInv'
<1>1. Ahead /\ state = "LINE_HEAD" /\ Here # "CR"
  BY DEF LineHead
<1>2. PICK i \in 1 .. Read + 1, d \in Seq(Characters) : Reached(i, d) /\ InTrailer(i, d)
  BY <1>1, HereIs DEF Decoding, InChunk
<1>3. PICK stop \in i + 1 .. Read, eol \in i + 1 .. Read :
        /\ trailer /\ SizeRead(i, stop, eol) /\ Number(i, stop - 1) = 0 /\ Out = d
        /\ \A m \in eol + 1 .. Read : ~EmptyLine(eol + 1, m)
        /\ \E b \in eol + 1 .. Read + 1 :
             Line(eol + 1, b) /\ (state = "LINE_HEAD" <=> Outside(Characters \ {"CR"}, b, Read))
  BY <1>2 DEF InTrailer
<1>4. PICK b \in eol + 1 .. Read + 1 : Line(eol + 1, b) /\ Outside(Characters \ {"CR"}, b, Read)
  BY <1>1, <1>3
<1>5. PICK e : e = Read + 1
  OBVIOUS
<1>6. /\ Here = source[e] /\ e \in 1 .. Len(body) /\ running /\ Read \in Nat
      /\ source \in Seq(Characters) /\ Len(body) \in Nat /\ Len(body) <= Len(source)
      /\ Len(source) \in Nat /\ source[e] \in Characters \ {"CR"}
      /\ Len(body) - Read = Len(buf) - src /\ Len(buf) \in Nat
      /\ src \in Nat /\ dst \in Nat /\ dst <= src /\ src < Len(buf) /\ buf \in Seq(Characters)
      /\ \A k \in 1 .. Len(source) : source[k] \in Characters
  BY <1>1, <1>5, HereIs, Facts DEF Ahead
<1>7. /\ i \in Nat /\ eol \in Nat /\ stop \in Nat /\ e \in Nat /\ i < e /\ e <= Len(source)
      /\ eol <= Read
  BY <1>5, <1>6
<1>8. CASE Here = "LF"
  <2> DEFINE n == Len(body)
             a == Len(buf) - src - 1
  <2>1. Leave(a, buf, dst, src + 1) /\ UNCHANGED decoder
    BY <1>8 DEF LineHead
  <2>2. /\ n \in Read .. Len(source) /\ n \in 0 .. Len(source) /\ i \in 1 .. n + 1 /\ n \in Nat
        /\ eol <= n
    BY <1>5, <1>6, <1>7
  <2>3. HasSize(i, n) /\ LineEnd(i, n) = eol /\ Size(i, n) = 0 /\ ~HasNoSize(i, n)
    <3>1. stop \in Int /\ eol \in Int
      BY <1>7
    <3>2. QED  BY <1>3, <2>2, <3>1, SizeReadIs
  <2>4. EmptyLine(eol + 1, e)
    <3>1. b \in eol + 1 .. e /\ (b = eol + 1 \/ source[b - 1] = "LF")
      BY <1>4, <1>5 DEF Line
    <3>2. \A k \in b .. e - 1 : k \in b .. Read /\ k \in 1 .. Len(source)
      BY <1>5, <1>6, <1>7
    <3>3. \A k \in b .. e - 1 : source[k] = "CR"
      BY <1>4, <1>6, <3>2 DEF Outside
    <3>4. source[e] = "LF"
      BY <1>6, <1>8
    <3>5. QED  BY <3>1, <3>3, <3>4 DEF EmptyLine
  <2>5. TrailerEnd(eol + 1, n) = n - e
    <3> DEFINE T == {m \in eol + 1 .. n : EmptyLine(eol + 1, m)}
    <3>1. e \in T /\ T \subseteq Int
      BY <1>5, <1>6, <1>7, <2>4
    <3>2. \A m \in T : e <= m
      <4>1. \A m \in eol + 1 .. n : e <= m \/ m \in eol + 1 .. Read
        BY <1>5, <1>6, <1>7
      <4>2. QED  BY <1>3, <4>1
    <3>3. Min(T) = e
      <4> HIDE DEF T
      <4>1. QED  BY <3>1, <3>2, MinIs
    <3>4. ~(\A m \in eol + 1 .. n : ~EmptyLine(eol + 1, m))
      BY <3>1
    <3>5. QED  BY <3>3, <3>4 DEF TrailerEnd
  <2>6. LastAnswer(i, n) = a
    <3>1. LastAnswer(i, n) = n - e
      BY <1>3, <2>3, <2>5 DEF LastAnswer
    <3>2. QED  BY <1>5, <1>6, <3>1
  <2>7. Unchunked(n) = <<a, d>>
    <3>1. d \o ChunkData(i, n) = d /\ ~IsFollowed(i, n)
      BY <1>6, <1>7, <2>2, <2>3, NoData
    <3>2. Unchunked(n) = <<LastAnswer(i, n), d \o ChunkData(i, n)>>
      BY <1>2, <1>6, <2>2, <3>1, LastOne
    <3>3. QED  BY <2>6, <3>1, <3>2
  <2>8. Out = decoded \o SubSeq(buf, 1, dst)
    BY <1>6 DEF Out
  <2>9. /\ a \in Int /\ a >= 0 /\ src + 1 \in Nat /\ dst <= src + 1 /\ src <= src + 1
        /\ src + 1 <= Len(buf)
        /\ a = Len(buf) - (src + 1)
    BY <1>6
  <2>10. a # EXIT
    BY <2>9 DEF EXIT
  <2>11. \A k \in src + 1 + 1 .. Len(buf) : buf[k] = source[Len(body) - Len(buf) + k]
    BY <1>6 DEF CutInv
  <2>12. <<a, decoded \o SubSeq(buf, 1, dst)>> = Unchunked(Len(body))
    BY <1>3, <2>7, <2>8
  <2>13. trailer' = trailer /\ state' \in States
    BY <2>1 DEF decoder, CutInv
  <2> HIDE DEF EXIT, a
  <2>14. QED  BY <1>6, <2>1, <2>9, <2>10, <2>11, <2>12, <2>13, LeaveKeeps
<1>9. CASE Here # "LF"
  <2>1. state' = "LINE_MIDDLE" /\ Past /\ UNCHANGED <<left, hexes>>
    BY <1>9 DEF LineHead
  <2>2. Read' = e /\ Read' = Read + 1 /\ Out' = Out /\ UNCHANGED <<source, body, trailer>>
    BY <1>1, <1>5, <2>1, PastRead DEF Past
  <2>3. SizeRead(i, stop, eol)' /\ Number(i, stop - 1)' = 0
    <3>1. Read' \in Nat /\ Read <= Read'
      BY <1>6, <2>2
    <3>2. QED  BY <1>3, <1>6, <1>7, <2>2, <3>1, SizeReadOn, ReferenceSame
  <2>4. \A m \in eol + 1 .. Read' : ~EmptyLine(eol + 1, m)'
    <3>1. ~EmptyLine(eol + 1, e)
      BY <1>6, <1>9 DEF EmptyLine
    <3>2. \A m \in eol + 1 .. e : m \in eol + 1 .. Read \/ m = e
      BY <1>5, <1>6
    <3>3. QED  BY <1>3, <2>2, <3>1, <3>2, ReferenceSame
  <2>5. b \in eol + 1 .. Read' + 1 /\ stop \in i + 1 .. Read' /\ eol \in i + 1 .. Read'
    BY <1>6, <2>2
  <2>6. Line(eol + 1, b)'
    <3>1. \A k \in b .. e : k \in b .. Read \/ k = e
      BY <1>5, <1>6
    <3>2. Outside({"LF"}, b, Read)'
      BY <1>4, <1>6, <1>9, <2>2, <3>1 DEF Outside, Line
    <3>3. QED  BY <1>4, <2>2, <2>5, <3>2 DEF Line
  <2>7. ~Outside(Characters \ {"CR"}, b, Read)'
    <3>1. e \in b .. e
      BY <1>5, <1>6
    <3>2. QED  BY <1>6, <2>2, <3>1 DEF Outside
  <2>8. InTrailer(i, d)'
    BY <1>3, <2>1, <2>2, <2>3, <2>4, <2>5, <2>6, <2>7 DEF InTrailer
  <2>9. InChunk(i, d)'
    BY <2>1, <2>8 DEF InChunk
  <2>10. Read' \in Nat /\ Read <= Read'
    BY <1>6, <2>2
  <2>11. QED  BY <1>1, <1>2, <1>6, <2>1, <2>2, <2>9, <2>10, DecodingOn, PastKeeps DEF States
<1>10. QED  BY <1>8, <1>9

(* Inside a trailing line, or at its end.                                    *)
LEMMA LineMiddleKeeps == ASSUME PInv, CutInv, LineMiddle PROVE CutInv'
<1>1. Ahead /\ state = "LINE_MIDDLE" /\ Past /\ UNCHANGED <<left, hexes>>
  BY DEF LineMiddle
<1>2. PICK i \in 1 .. Read + 1, d \in Seq(Characters) : Reached(i, d) /\ InTrailer(i, d)
  BY <1>1, HereIs DEF Decoding, InChunk
<1>3. PICK stop \in i + 1 .. Read, eol \in i + 1 .. Read :
        /\ trailer /\ SizeRead(i, stop, eol) /\ Number(i, stop - 1) = 0 /\ Out = d
        /\ \A m \in eol + 1 .. Read : ~EmptyLine(eol + 1, m)
        /\ \E b \in eol + 1 .. Read + 1 :
             Line(eol + 1, b) /\ (state = "LINE_HEAD" <=> Outside(Characters \ {"CR"}, b, Read))
  BY <1>2 DEF InTrailer
<1>4. PICK b \in eol + 1 .. Read + 1 : Line(eol + 1, b) /\ ~Outside(Characters \ {"CR"}, b, Read)
  BY <1>1, <1>3
<1>5. PICK j \in b .. Read : source[j] \in Characters \ {"CR"}
  BY <1>4 DEF Outside
<1>6. PICK e : e = Read + 1
  OBVIOUS
<1>7. /\ Here = source[e] /\ e \in 1 .. Len(body) /\ Read \in Nat /\ Len(body) \in Nat
      /\ Len(body) <= Len(source) /\ Len(source) \in Nat
  BY <1>1, <1>6, HereIs, Facts
<1>8. /\ i \in Nat /\ eol \in Nat /\ stop \in Nat /\ e \in Nat /\ i < e /\ e <= Len(source)
      /\ eol <= Read
  BY <1>6, <1>7
<1>9. Read' = e /\ Read' = Read + 1 /\ Out' = Out /\ UNCHANGED <<source, body, trailer>>
  BY <1>1, <1>6, PastRead DEF Past
<1>10. Read' \in Nat /\ Read <= Read'
  BY <1>7, <1>9
<1>11. SizeRead(i, stop, eol)' /\ Number(i, stop - 1)' = 0
  BY <1>3, <1>7, <1>8, <1>9, <1>10, SizeReadOn, ReferenceSame
<1>12. ~EmptyLine(eol + 1, e)
  <2>1. SUFFICES ASSUME NEW f \in eol + 1 .. e, f = eol + 1 \/ source[f - 1] = "LF",
                        \A k \in f .. e - 1 : source[k] = "CR"
                 PROVE  FALSE
    BY DEF EmptyLine
  <2>2. CASE f <= j
    <3>1. j \in f .. e - 1
      BY <1>6, <1>7, <2>2
    <3>2. QED  BY <1>5, <2>1, <3>1
  <2>3. CASE f > j
    <3>1. f # eol + 1 /\ f - 1 \in b .. Read
      BY <1>6, <1>7, <2>3
    <3>2. Outside({"LF"}, b, Read)
      BY <1>4 DEF Line
    <3>3. QED  BY <2>1, <3>1, <3>2 DEF Outside
  <2>4. QED  BY <2>2, <2>3
<1>13. \A m \in eol + 1 .. Read' : ~EmptyLine(eol + 1, m)'
  <2>1. \A m \in eol + 1 .. e : m \in eol + 1 .. Read \/ m = e
    BY <1>6, <1>7
  <2>2. QED  BY <1>3, <1>9, <1>12, <2>1, ReferenceSame
<1>14. stop \in i + 1 .. Read' /\ eol \in i + 1 .. Read'
  BY <1>7, <1>9
<1>15. CASE Here = "LF"
  <2>1. state' = "LINE_HEAD"
    BY <1>15 DEF LineMiddle
  <2>2. \A k \in e + 1 .. e : FALSE
    BY <1>8
  <2>3. \A S : Outside(S, e + 1, Read)'
    BY <1>9, <2>2 DEF Outside
  <2>4. e + 1 \in eol + 1 .. Read' + 1
    BY <1>6, <1>7, <1>8, <1>9
  <2>5. Line(eol + 1, e + 1)'
    <3>1. (e + 1) - 1 = e
      BY <1>8
    <3>2. source'[(e + 1) - 1] = "LF"
      BY <1>7, <1>9, <1>15, <3>1
    <3>3. QED  BY <2>3, <2>4, <3>2 DEF Line
  <2>6. InTrailer(i, d)'
    BY <1>3, <1>9, <1>11, <1>13, <1>14, <2>1, <2>3, <2>4, <2>5 DEF InTrailer
  <2>7. InChunk(i, d)'
    BY <2>1, <2>6 DEF InChunk
  <2>8. QED  BY <1>1, <1>2, <1>7, <1>9, <1>10, <2>1, <2>7, DecodingOn, PastKeeps DEF States
<1>16. CASE Here # "LF"
  <2>1. state' = "LINE_MIDDLE"
    BY <1>1, <1>16 DEF LineMiddle
  <2>2. b \in eol + 1 .. Read' + 1
    BY <1>7, <1>9
  <2>3. Line(eol + 1, b)'
    <3>1. \A k \in b .. e : k \in b .. Read \/ k = e
      BY <1>6, <1>7
    <3>2. Outside({"LF"}, b, Read)'
      BY <1>4, <1>7, <1>9, <1>16, <3>1 DEF Outside, Line
    <3>3. QED  BY <1>4, <1>9, <2>2, <3>2 DEF Line
  <2>4. ~Outside(Characters \ {"CR"}, b, Read)'
    <3>1. j \in b .. e
      BY <1>6, <1>7
    <3>2. QED  BY <1>5, <1>9, <3>1 DEF Outside
  <2>5. InTrailer(i, d)'
    BY <1>3, <1>9, <1>11, <1>13, <1>14, <2>1, <2>2, <2>3, <2>4 DEF InTrailer
  <2>6. InChunk(i, d)'
    BY <2>1, <2>5 DEF InChunk
  <2>7. QED  BY <1>1, <1>2, <1>7, <1>9, <1>10, <2>1, <2>6, DecodingOn, PastKeeps DEF States
<1>17. QED  BY <1>15, <1>16

(* Before anything has arrived, the first chunk begins.                      *)
LEMMA CutInit == PInv /\ Init => CutInv
<1> SUFFICES ASSUME PInv, Init PROVE CutInv
  OBVIOUS
<1>1. /\ trailer \in BOOLEAN /\ state = "SIZE" /\ left = 0 /\ hexes = 0
      /\ buf = <<>> /\ src = 0 /\ dst = 0 /\ running = FALSE /\ ret = EXIT
      /\ body = <<>> /\ decoded = <<>> /\ source \in Seq(Characters)
  BY DEF Init, PInv, BufferInv
<1>2. Read = 0 /\ Out = <<>> /\ Len(source) \in Nat /\ Len(body) = 0
  BY <1>1 DEF Read, Out
<1>3. Reached(1, <<>>)
  <2>1. ASSUME NEW n \in 1 - 1 .. Len(source)
        PROVE  Unchunked(n) = <<Chunks(n)[1][1], <<>> \o Chunks(n)[1][2]>>
    <3>1. n \in 0 .. Len(source) /\ 1 \in 1 .. n + 1
      OBVIOUS
    <3>2. Chunks(n)[1] = <<Chunks(n)[1][1], Chunks(n)[1][2]>> /\ Chunks(n)[1][2] \in Seq(Characters)
      BY <1>1, <3>1, RestIsData
    <3>3. <<>> \o Chunks(n)[1][2] = Chunks(n)[1][2]
      BY <3>2, ConcatEmptySeq
    <3>4. QED  BY <3>2, <3>3 DEF Unchunked
  <2>2. QED  BY <2>1 DEF Reached
<1>4. InSize(1, <<>>)
  <2>1. 1 \in Nat \ {0} /\ 1 <= Len(source) + 1 /\ 1 - 1 = 0
    BY <1>2
  <2>2. Number(1, 1 - 1) = 0
    BY <1>2, <2>1, NumberIs
  <2>3. Number(1, Read) = 0
    BY <1>2, <2>1, <2>2
  <2>4. Outside(Others, 1, Read)
    BY <1>2 DEF Outside
  <2>5. QED  BY <1>1, <1>2, <2>3, <2>4 DEF InSize
<1>5. Decoding
  <2>1. 1 \in 1 .. Read + 1 /\ <<>> \in Seq(Characters)
    BY <1>2
  <2>2. InChunk(1, <<>>)
    BY <1>1, <1>4 DEF InChunk
  <2>3. QED  BY <1>3, <2>1, <2>2 DEF Decoding
<1>6. body = SubSeq(source, 1, Len(body)) /\ Len(body) <= Len(source) /\ Len(buf) = 0
  BY <1>1, <1>2
<1>7. RestHandedBack
  BY <1>1 DEF RestHandedBack, EXIT
<1>8. decoded \in Seq(Characters)
  BY <1>1
<1>9. QED  BY <1>1, <1>2, <1>5, <1>6, <1>7, <1>8 DEF CutInv, States

(* A step that changes nothing.                                              *)
LEMMA CutKept == PInv /\ CutInv /\ UNCHANGED vars => CutInv'
<1> SUFFICES ASSUME PInv, CutInv, UNCHANGED vars PROVE CutInv'
  OBVIOUS
<1>1. /\ UNCHANGED <<trailer, state, left, hexes, buf, src, dst, running, ret>>
      /\ UNCHANGED <<source, body, decoded>>
  BY DEF vars, decoder, history
<1>2. Read' = Read /\ Out' = Out /\ Read \in Nat /\ Len(body) \in Nat
  BY <1>1, Facts DEF Read, Out
<1>3. Decoding => Decoding'
  BY <1>1, <1>2, DecodingKept
<1>4. RestHandedBack'
  BY <1>1 DEF CutInv, RestHandedBack
<1>5. ret' # EXIT => <<ret', decoded'>> = Unchunked(Len(body))'
  BY <1>1, ReferenceSame DEF CutInv, Unchunked
<1>6. QED  BY <1>1, <1>3, <1>4, <1>5 DEF CutInv

(* Every step keeps what was read and answered that of one call.             *)
LEMMA CutStep == PInv /\ CutInv /\ [Next]_vars => CutInv'
<1> SUFFICES ASSUME PInv, CutInv, [Next]_vars PROVE CutInv'
  OBVIOUS
<1>1. ASSUME NEW n \in 1 .. Len(source) - Len(body), Call(n) PROVE CutInv'
  BY <1>1, CallKeeps
<1>2. CASE Decode
  BY <1>2, StarveKeeps, SizeDigitKeeps, SizeEndKeeps, ExtSkipKeeps, ExtEndKeeps, DataKeeps,
     SkipCRKeeps, ChunkEndKeeps, LineHeadKeeps, LineMiddleKeeps DEF Decode
<1>3. CASE UNCHANGED vars
  BY <1>3, CutKept
<1>4. QED  BY <1>1, <1>2, <1>3 DEF Next

(* In both cases the call has answered as one call would.                    *)
LEMMA CutMeans == PInv /\ CutInv => CutIndependent
<1> SUFFICES ASSUME PInv, CutInv PROVE CutIndependent
  OBVIOUS
<1>1. ASSUME ~running, ret = EXIT PROVE <<ret, decoded>> = Unchunked(Len(body))
  <2>1. src = Len(buf) /\ Decoding /\ Out = decoded
    BY <1>1 DEF CutInv, Out
  <2>2. Read = Len(body)
    BY <2>1, Facts
  <2>3. Unchunked(Read) = <<EXIT, Out>>
    BY <2>1, <2>2, Waiting
  <2>4. QED  BY <1>1, <2>1, <2>2, <2>3
<1>2. ASSUME ret # EXIT PROVE <<ret, decoded>> = Unchunked(Len(body))
  BY <1>2 DEF CutInv
<1>3. RestHandedBack
  BY DEF CutInv
<1>4. QED  BY <1>1, <1>2, <1>3 DEF CutIndependent

(* However a body is cut into pieces, all that the calls of                  *)
(* phr_decode_chunked give is what one call gives.                           *)
THEOREM CutsAreInvisible == Spec => []CutIndependent
<1>1. Init => PInv /\ CutInv
  BY InitPInv, CutInit
<1>2. (PInv /\ CutInv) /\ [Next]_vars => (PInv /\ CutInv)'
  BY NextPInv, CutStep
<1>3. PInv /\ CutInv => CutIndependent
  BY CutMeans
<1>4. QED  BY <1>1, <1>2, <1>3, PTL DEF Spec

-----------------------------------------------------------------------------
(* A text and one that begins with it.                                       *)
Pre(b, c) == /\ Len(b) \in Nat /\ Len(c) \in Nat /\ Len(b) <= Len(c)
             /\ \A k \in 1 .. Len(b) : c[k] = b[k]

(* What Max returns.                                                         *)
LEMMA MaxIs ==
  ASSUME NEW T, T \subseteq Int, NEW m \in T, \A x \in T : x <= m PROVE Max(T) = m
<1>1. \A y \in T : (\A x \in T : y >= x) => y = m
  OBVIOUS
<1>2. m \in T /\ \A x \in T : m >= x
  OBVIOUS
<1>3. QED  BY <1>1, <1>2 DEF Max

(* The first element of a set, or behind the end. *)
LEMMA FirstIn ==
  ASSUME NEW i \in Nat, NEW n \in Nat, i <= n + 1, NEW T, T \subseteq i .. n
  PROVE  LET m == Min(T \cup {n + 1})
         IN m \in i .. n + 1 /\ (m <= n => m \in T) /\ \A x \in T : m <= x
<1> DEFINE U == T \cup {n + 1}
<1>1. U \subseteq Nat /\ U # {} /\ U \subseteq Int /\ U \subseteq i .. n + 1
  OBVIOUS
<1>2. PICK m \in U : \A x \in U : m <= x
  <2> HIDE DEF U
  <2>1. QED  BY <1>1, LeastOf
<1>3. Min(U) = m
  <2> HIDE DEF U
  <2>1. QED  BY <1>1, <1>2, MinIs
<1>4. QED  BY <1>1, <1>2, <1>3

(* The loop that looks for a character of S ends at the first, or at the end.*)
LEMMA FindType ==
  ASSUME NEW b, Len(b) \in Nat, NEW i \in Nat, i <= Len(b) + 1, NEW S
  PROVE  LET f == Find(b, i, S)
         IN /\ f \in i .. Len(b) + 1 /\ (f <= Len(b) => b[f] \in S)
            /\ \A k \in i .. f - 1 : b[k] \notin S
<1> DEFINE T == {j \in i .. Len(b) : b[j] \in S}
           f == Min(T \cup {Len(b) + 1})
<1>1. T \subseteq i .. Len(b)
  OBVIOUS
<1>2. f \in i .. Len(b) + 1 /\ (f <= Len(b) => f \in T) /\ \A x \in T : f <= x
  <2> HIDE DEF T
  <2>1. QED  BY <1>1, FirstIn
<1>3. \A k \in i .. f - 1 : b[k] \notin S
  <2> SUFFICES ASSUME NEW k \in i .. f - 1, b[k] \in S PROVE FALSE
    OBVIOUS
  <2> HIDE DEF f
  <2>1. k \in i .. Len(b) /\ ~(f <= k)
    BY <1>2
  <2>2. QED  BY <1>2, <2>1
<1>4. QED  BY <1>2, <1>3 DEF Find

(* Such a position is the only one.                                          *)
LEMMA FindIs ==
  ASSUME NEW b, Len(b) \in Nat, NEW i \in Nat, NEW S, NEW j \in i .. Len(b) + 1,
         j <= Len(b) => b[j] \in S, \A k \in i .. j - 1 : b[k] \notin S
  PROVE  Find(b, i, S) = j
<1>1. i <= Len(b) + 1
  OBVIOUS
<1> DEFINE f == Find(b, i, S)
<1>2. /\ f \in i .. Len(b) + 1 /\ (f <= Len(b) => b[f] \in S)
      /\ \A k \in i .. f - 1 : b[k] \notin S
  BY <1>1, FindType
<1> HIDE DEF f
<1>3. ~(f < j)
  <2> SUFFICES ASSUME f < j PROVE FALSE
    OBVIOUS
  <2>1. f \in i .. j - 1 /\ f <= Len(b)
    BY <1>2
  <2>2. QED  BY <1>2, <2>1
<1>4. ~(j < f)
  <2> SUFFICES ASSUME j < f PROVE FALSE
    OBVIOUS
  <2>1. j \in i .. f - 1 /\ j <= Len(b)
    BY <1>2
  <2>2. QED  BY <1>2, <2>1
<1>5. QED  BY <1>2, <1>3, <1>4 DEF f

(* The loop that skips the characters of S ends behind them.                 *)
LEMMA SkipType ==
  ASSUME NEW b, Len(b) \in Nat, NEW i \in Nat, i <= Len(b) + 1, NEW S
  PROVE  LET f == Skip(b, i, S)
         IN /\ f \in i .. Len(b) + 1 /\ (f <= Len(b) => b[f] \notin S)
            /\ \A k \in i .. f - 1 : b[k] \in S
<1> DEFINE T == {j \in i .. Len(b) : b[j] \notin S}
           f == Min(T \cup {Len(b) + 1})
<1>1. T \subseteq i .. Len(b)
  OBVIOUS
<1>2. f \in i .. Len(b) + 1 /\ (f <= Len(b) => f \in T) /\ \A x \in T : f <= x
  <2> HIDE DEF T
  <2>1. QED  BY <1>1, FirstIn
<1>3. \A k \in i .. f - 1 : b[k] \in S
  <2> SUFFICES ASSUME NEW k \in i .. f - 1, b[k] \notin S PROVE FALSE
    OBVIOUS
  <2> HIDE DEF f
  <2>1. k \in i .. Len(b) /\ ~(f <= k)
    BY <1>2
  <2>2. QED  BY <1>2, <2>1
<1>4. QED  BY <1>2, <1>3 DEF Skip

(* Such a position is the only one.                                          *)
LEMMA SkipIs ==
  ASSUME NEW b, Len(b) \in Nat, NEW i \in Nat, NEW S, NEW j \in i .. Len(b) + 1,
         j <= Len(b) => b[j] \notin S, \A k \in i .. j - 1 : b[k] \in S
  PROVE  Skip(b, i, S) = j
<1>1. i <= Len(b) + 1
  OBVIOUS
<1> DEFINE f == Skip(b, i, S)
<1>2. /\ f \in i .. Len(b) + 1 /\ (f <= Len(b) => b[f] \notin S)
      /\ \A k \in i .. f - 1 : b[k] \in S
  BY <1>1, SkipType
<1> HIDE DEF f
<1>3. ~(f < j)
  <2> SUFFICES ASSUME f < j PROVE FALSE
    OBVIOUS
  <2>1. f \in i .. j - 1 /\ f <= Len(b)
    BY <1>2
  <2>2. QED  BY <1>2, <2>1
<1>4. ~(j < f)
  <2> SUFFICES ASSUME j < f PROVE FALSE
    OBVIOUS
  <2>1. j \in i .. f - 1 /\ j <= Len(b)
    BY <1>2
  <2>2. QED  BY <1>2, <2>1
<1>5. QED  BY <1>2, <1>3, <1>4 DEF f

(* What is found in either text is found in both. *)
LEMMA FindPre ==
  ASSUME NEW b, NEW c, Pre(b, c), NEW i \in Nat \ {0}, i <= Len(b) + 1, NEW S,
         Find(b, i, S) <= Len(b) \/ Find(c, i, S) <= Len(b)
  PROVE  Find(c, i, S) = Find(b, i, S) /\ Find(b, i, S) \in i .. Len(b)
<1> DEFINE f == Find(b, i, S)
           g == Find(c, i, S)
<1>1. /\ Len(b) \in Nat /\ Len(c) \in Nat /\ Len(b) <= Len(c) /\ i <= Len(c) + 1 /\ i \in Nat
      /\ \A k \in 1 .. Len(b) : c[k] = b[k]
  BY DEF Pre
<1>2. /\ f \in i .. Len(b) + 1 /\ (f <= Len(b) => b[f] \in S)
      /\ \A k \in i .. f - 1 : b[k] \notin S
  BY <1>1, FindType
<1>3. /\ g \in i .. Len(c) + 1 /\ (g <= Len(c) => c[g] \in S)
      /\ \A k \in i .. g - 1 : c[k] \notin S
  BY <1>1, FindType
<1> HIDE DEF f, g
<1>4. ~(f < g)
  <2> SUFFICES ASSUME f < g PROVE FALSE
    OBVIOUS
  <2>1. f <= Len(b) /\ f \in i .. g - 1 /\ f \in 1 .. Len(b)
    BY <1>1, <1>2, <1>3 DEF f, g
  <2>2. QED  BY <1>1, <1>2, <1>3, <2>1
<1>5. ~(g < f)
  <2> SUFFICES ASSUME g < f PROVE FALSE
    OBVIOUS
  <2>1. g <= Len(b) /\ g <= Len(c) /\ g \in i .. f - 1 /\ g \in 1 .. Len(b)
    BY <1>1, <1>2, <1>3
  <2>2. QED  BY <1>1, <1>2, <1>3, <2>1
<1>6. QED  BY <1>1, <1>2, <1>3, <1>4, <1>5 DEF f, g

(* What is skipped stays the same when more arrives, unless all was skipped. *)
LEMMA SkipPre ==
  ASSUME NEW b, NEW c, Pre(b, c), NEW i \in Nat \ {0}, i <= Len(b) + 1, NEW S,
         Skip(b, i, S) <= Len(b) \/ Skip(c, i, S) <= Len(b)
  PROVE  Skip(c, i, S) = Skip(b, i, S) /\ Skip(b, i, S) \in i .. Len(b)
<1> DEFINE f == Skip(b, i, S)
           g == Skip(c, i, S)
<1>1. /\ Len(b) \in Nat /\ Len(c) \in Nat /\ Len(b) <= Len(c) /\ i <= Len(c) + 1 /\ i \in Nat
      /\ \A k \in 1 .. Len(b) : c[k] = b[k]
  BY DEF Pre
<1>2. /\ f \in i .. Len(b) + 1 /\ (f <= Len(b) => b[f] \notin S)
      /\ \A k \in i .. f - 1 : b[k] \in S
  BY <1>1, SkipType
<1>3. /\ g \in i .. Len(c) + 1 /\ (g <= Len(c) => c[g] \notin S)
      /\ \A k \in i .. g - 1 : c[k] \in S
  BY <1>1, SkipType
<1> HIDE DEF f, g
<1>4. ~(f < g)
  <2> SUFFICES ASSUME f < g PROVE FALSE
    OBVIOUS
  <2>1. f <= Len(b) /\ f \in i .. g - 1 /\ f \in 1 .. Len(b)
    BY <1>1, <1>2, <1>3 DEF f, g
  <2>2. QED  BY <1>1, <1>2, <1>3, <2>1
<1>5. ~(g < f)
  <2> SUFFICES ASSUME g < f PROVE FALSE
    OBVIOUS
  <2>1. g <= Len(b) /\ g <= Len(c) /\ g \in i .. f - 1 /\ g \in 1 .. Len(b)
    BY <1>1, <1>2, <1>3
  <2>2. QED  BY <1>1, <1>2, <1>3, <2>1
<1>6. QED  BY <1>1, <1>2, <1>3, <1>4, <1>5 DEF f, g
-----------------------------------------------------------------------------
(* The result p on a text and q on one that begins with it: what is decided  *)
(* stays, and a result that lies inside the first was its result too.        *)
Agree(p, q, end) == (p # EOF => q = p) /\ (0 <= q /\ q <= end => p = q)
Failed(p) == p \in {EOF, BAD}
(* From i to p there are whole newlines only. *)
Clean(b, i, p) == \A k \in i .. p - 1 : b[k] = "CR" => k + 1 <= p - 1 /\ b[k + 1] = "LF"

(* The two results that are no position.                                     *)
LEMMA Negative == EOF \in Int /\ EOF < 0 /\ BAD \in Int /\ BAD < 0 /\ EOF # BAD
  BY DEF EOF, BAD

(* Stretches in which no CR stands alone join.                               *)
LEMMA CleanJoin ==
  ASSUME NEW b, NEW i \in Int, NEW j \in Int, NEW p \in Int, j <= p, Clean(b, i, j), Clean(b, j, p)
  PROVE  Clean(b, i, p)
  BY DEF Clean

(* A token ends at the delimiter, with nothing but token characters before it.*)
LEMMA ParseTokenType ==
  ASSUME NEW b, Len(b) \in Nat, NEW i \in Nat \ {0}, i <= Len(b) + 1, NEW next, next \notin Token
  PROVE  LET p == ParseToken(b, i, next)
         IN /\ Failed(p) \/ p \in i .. Len(b)
            /\ p >= 0 => b[p] = next /\ \A k \in i .. p - 1 : b[k] \in Token
<1> DEFINE j == Skip(b, i, Token \ {next})
<1>1. Token \ {next} = Token
  OBVIOUS
<1>2. /\ j \in i .. Len(b) + 1 /\ \A k \in i .. j - 1 : b[k] \in Token
  BY <1>1, SkipType
<1>3. ParseToken(b, i, next) = IF j > Len(b) THEN EOF ELSE IF b[j] = next THEN j ELSE BAD
  BY DEF ParseToken
<1> HIDE DEF j
<1>4. QED  BY <1>2, <1>3, Negative DEF Failed

(* A token that has ended, or was an error, is the same when more arrives.   *)
LEMMA ParseTokenPre ==
  ASSUME NEW b, NEW c, Pre(b, c), NEW i \in Nat \ {0}, i <= Len(b) + 1, NEW next
  PROVE  Agree(ParseToken(b, i, next), ParseToken(c, i, next), Len(b))
<1> DEFINE j == Skip(b, i, Token \ {next})
           k == Skip(c, i, Token \ {next})
<1>1. /\ Len(b) \in Nat /\ Len(c) \in Nat /\ Len(b) <= Len(c) /\ i <= Len(c) + 1 /\ i \in Nat
      /\ \A x \in 1 .. Len(b) : c[x] = b[x]
  BY DEF Pre
<1>2. j \in i .. Len(b) + 1 /\ k \in i .. Len(c) + 1
  BY <1>1, SkipType
<1>3. j <= Len(b) \/ k <= Len(b) => k = j /\ j \in i .. Len(b)
  BY SkipPre
<1>4. ParseToken(b, i, next) = IF j > Len(b) THEN EOF ELSE IF b[j] = next THEN j ELSE BAD
  BY DEF ParseToken
<1>5. ParseToken(c, i, next) = IF k > Len(c) THEN EOF ELSE IF c[k] = next THEN k ELSE BAD
  BY DEF ParseToken
<1> HIDE DEF j, k
<1>6. CASE j <= Len(b)
  BY <1>1, <1>2, <1>3, <1>4, <1>5, <1>6, Negative DEF Agree
<1>7. CASE j > Len(b)
  BY <1>1, <1>2, <1>3, <1>4, <1>5, <1>7, Negative DEF Agree
<1>8. QED  BY <1>1, <1>2, <1>6, <1>7

(* A path ends at the space, with no control character before it.            *)
LEMMA AdvanceTokenType ==
  ASSUME NEW b, Len(b) \in Nat, NEW i \in Nat \ {0}, i <= Len(b) + 1
  PROVE  LET p == AdvanceToken(b, i)
         IN /\ Failed(p) \/ p \in i .. Len(b)
            /\ p >= 0 => b[p] = "SP" /\ \A k \in i .. p - 1 : b[k] \notin Control
<1> DEFINE j == Find(b, i, {"SP"} \cup Control)
<1>1. /\ j \in i .. Len(b) + 1 /\ \A k \in i .. j - 1 : b[k] \notin {"SP"} \cup Control
  BY FindType
<1>2. AdvanceToken(b, i) = IF j > Len(b) THEN EOF ELSE IF b[j] = "SP" THEN j ELSE BAD
  BY DEF AdvanceToken
<1> HIDE DEF j
<1>3. QED  BY <1>1, <1>2, Negative DEF Failed

(* A path that has ended, or was an error, is the same when more arrives.    *)
LEMMA AdvanceTokenPre ==
  ASSUME NEW b, NEW c, Pre(b, c), NEW i \in Nat \ {0}, i <= Len(b) + 1
  PROVE  Agree(AdvanceToken(b, i), AdvanceToken(c, i), Len(b))
<1> DEFINE j == Find(b, i, {"SP"} \cup Control)
           k == Find(c, i, {"SP"} \cup Control)
<1>1. /\ Len(b) \in Nat /\ Len(c) \in Nat /\ Len(b) <= Len(c) /\ i <= Len(c) + 1 /\ i \in Nat
      /\ \A x \in 1 .. Len(b) : c[x] = b[x]
  BY DEF Pre
<1>2. j \in i .. Len(b) + 1 /\ k \in i .. Len(c) + 1
  BY <1>1, FindType
<1>3. j <= Len(b) \/ k <= Len(b) => k = j /\ j \in i .. Len(b)
  BY FindPre
<1>4. AdvanceToken(b, i) = IF j > Len(b) THEN EOF ELSE IF b[j] = "SP" THEN j ELSE BAD
  BY DEF AdvanceToken
<1>5. AdvanceToken(c, i) = IF k > Len(c) THEN EOF ELSE IF c[k] = "SP" THEN k ELSE BAD
  BY DEF AdvanceToken
<1> HIDE DEF j, k
<1>6. CASE j <= Len(b)
  BY <1>1, <1>2, <1>3, <1>4, <1>5, <1>6, Negative DEF Agree
<1>7. CASE j > Len(b)
  BY <1>1, <1>2, <1>3, <1>4, <1>5, <1>7, Negative DEF Agree
<1>8. QED  BY <1>1, <1>2, <1>6, <1>7

(* A newline is LF or CR LF, and a CR with nothing behind it is incomplete.  *)
LEMMA EndOfLineType ==
  ASSUME NEW b, Len(b) \in Nat, NEW i \in 1 .. Len(b), b[i] \in Newline
  PROVE  LET p == EndOfLine(b, i)
         IN /\ Failed(p) \/ p \in i + 1 .. Len(b) + 1
            /\ p >= 0 => /\ b[p - 1] = "LF" /\ Clean(b, i, p)
                         /\ IF b[i] = "LF" THEN p = i + 1 ELSE p = i + 2
<1> DEFINE p == EndOfLine(b, i)
<1>1. CASE b[i] = "LF"
  <2>1. p = i + 1 /\ p - 1 = i
    BY <1>1 DEF EndOfLine
  <2>2. \A k \in i .. i : b[k] # "CR"
    BY <1>1
  <2>3. QED  BY <1>1, <2>1, <2>2 DEF Clean
<1>2. CASE b[i] # "LF" /\ i < Len(b) /\ b[i + 1] = "LF"
  <2>1. p = i + 2 /\ p - 1 = i + 1
    BY <1>2 DEF EndOfLine
  <2>2. \A k \in i .. i + 1 : b[k] = "CR" => k = i
    BY <1>2
  <2>3. Clean(b, i, p)
    BY <1>2, <2>1, <2>2 DEF Clean
  <2>4. QED  BY <1>2, <2>1, <2>3
<1>3. CASE b[i] # "LF" /\ ~(i < Len(b) /\ b[i + 1] = "LF")
  <2>1. Failed(p)
    BY <1>3 DEF EndOfLine, Failed
  <2>2. QED  BY <2>1, Negative DEF Failed
<1>4. QED  BY <1>1, <1>2, <1>3

(* A newline that was read is the same when more arrives.                    *)
LEMMA EndOfLinePre ==
  ASSUME NEW b, NEW c, Pre(b, c), NEW i \in 1 .. Len(b)
  PROVE  Agree(EndOfLine(b, i), EndOfLine(c, i), Len(b) + 1)
<1>1. /\ Len(b) \in Nat /\ Len(c) \in Nat /\ Len(b) <= Len(c) /\ c[i] = b[i] /\ i <= Len(c)
      /\ \A x \in 1 .. Len(b) : c[x] = b[x]
  BY DEF Pre
<1>2. CASE i = Len(b)
  BY <1>1, <1>2, Negative DEF Agree, EndOfLine
<1>3. CASE i < Len(b)
  <2>1. c[i + 1] = b[i + 1] /\ i # Len(c) /\ i # Len(b)
    BY <1>1, <1>3
  <2>2. EndOfLine(b, i) = EndOfLine(c, i)
    BY <1>1, <2>1 DEF EndOfLine
  <2>3. QED  BY <2>2 DEF Agree
<1>4. QED  BY <1>1, <1>2, <1>3

(* The rest of a line ends at the first newline, behind it.                  *)
LEMMA TokenToEolType ==
  ASSUME NEW b, Len(b) \in Nat, NEW i \in Nat \ {0}, i <= Len(b) + 1
  PROVE  LET p == TokenToEol(b, i)
             j == Find(b, i, Control \ {"HT"})
         IN /\ Failed(p) \/ p \in i + 1 .. Len(b) + 1
            /\ p >= 0 => /\ j \in i .. Len(b) /\ b[j] \in Newline /\ p = EndOfLine(b, j)
                         /\ \A k \in i .. j - 1 : b[k] \notin Newline
                         /\ b[p - 1] = "LF" /\ Clean(b, i, p)
<1> DEFINE p == TokenToEol(b, i)
           j == Find(b, i, Control \ {"HT"})
<1>1. /\ j \in i .. Len(b) + 1 /\ \A k \in i .. j - 1 : b[k] \notin Control \ {"HT"}
  BY FindType
<1>2. p = IF j > Len(b) THEN EOF ELSE IF b[j] \in Newline THEN EndOfLine(b, j) ELSE BAD
  BY DEF TokenToEol
<1>3. \A k \in i .. j - 1 : b[k] \notin Newline /\ b[k] # "CR"
  BY <1>1 DEF Control, Newline
<1> HIDE DEF j, p
<1>4. CASE j > Len(b) \/ b[j] \notin Newline
  BY <1>1, <1>2, <1>4, Negative DEF Failed, p, j
<1>5. CASE j <= Len(b) /\ b[j] \in Newline
  <2>1. j \in 1 .. Len(b) /\ p = EndOfLine(b, j)
    BY <1>1, <1>2, <1>5
  <2>2. /\ Failed(p) \/ p \in j + 1 .. Len(b) + 1
        /\ p >= 0 => b[p - 1] = "LF" /\ Clean(b, j, p)
    BY <1>5, <2>1, EndOfLineType
  <2>3. Clean(b, i, j)
    BY <1>3 DEF Clean
  <2>4. ASSUME p >= 0 PROVE Clean(b, i, p) /\ p \in j + 1 .. Len(b) + 1
    <3>1. p \in j + 1 .. Len(b) + 1
      BY <2>2, <2>4, Negative DEF Failed
    <3>2. QED  BY <1>1, <2>1, <2>2, <2>3, <2>4, <3>1, CleanJoin
  <2>5. Failed(p) \/ p \in i + 1 .. Len(b) + 1
    BY <1>1, <2>1, <2>2
  <2>6. p >= 0 => /\ j \in i .. Len(b) /\ b[j] \in Newline /\ p = EndOfLine(b, j)
                  /\ \A k \in i .. j - 1 : b[k] \notin Newline
                  /\ b[p - 1] = "LF" /\ Clean(b, i, p)
    <3>1. j \in i .. Len(b)
      BY <1>1, <1>5
    <3>2. QED  BY <1>3, <1>5, <2>1, <2>2, <2>4, <3>1
  <2>7. QED  BY <2>5, <2>6 DEF p, j
<1>6. j > Len(b) \/ b[j] \notin Newline \/ (j <= Len(b) /\ b[j] \in Newline)
  BY <1>1
<1>7. QED  BY <1>4, <1>5, <1>6

(* The rest of a line that was read is the same when more arrives.           *)
LEMMA TokenToEolPre ==
  ASSUME NEW b, NEW c, Pre(b, c), NEW i \in Nat \ {0}, i <= Len(b) + 1
  PROVE  Agree(TokenToEol(b, i), TokenToEol(c, i), Len(b) + 1)
<1> DEFINE j == Find(b, i, Control \ {"HT"})
           k == Find(c, i, Control \ {"HT"})
<1>1. /\ Len(b) \in Nat /\ Len(c) \in Nat /\ Len(b) <= Len(c) /\ i <= Len(c) + 1 /\ i \in Nat
      /\ \A x \in 1 .. Len(b) : c[x] = b[x]
  BY DEF Pre
<1>2. j \in i .. Len(b) + 1 /\ k \in i .. Len(c) + 1
  BY <1>1, FindType
<1>3. j <= Len(b) \/ k <= Len(b) => k = j /\ j \in i .. Len(b)
  BY FindPre
<1>4. TokenToEol(b, i) = IF j > Len(b) THEN EOF ELSE IF b[j] \in Newline THEN EndOfLine(b, j) ELSE BAD
  BY DEF TokenToEol
<1>5. TokenToEol(c, i) = IF k > Len(c) THEN EOF ELSE IF c[k] \in Newline THEN EndOfLine(c, k) ELSE BAD
  BY DEF TokenToEol
<1> HIDE DEF j, k
<1>6. CASE j <= Len(b)
  <2>1. k = j /\ j \in 1 .. Len(b) /\ c[j] = b[j] /\ ~(j > Len(b)) /\ ~(j > Len(c))
    BY <1>1, <1>2, <1>3, <1>6
  <2>2. Agree(EndOfLine(b, j), EndOfLine(c, j), Len(b) + 1)
    BY <2>1, EndOfLinePre
  <2>3. QED  BY <1>4, <1>5, <2>1, <2>2, Negative DEF Agree
<1>7. CASE j > Len(b)
  <2>1. k > Len(b) /\ TokenToEol(b, i) = EOF
    BY <1>1, <1>2, <1>3, <1>4, <1>7
  <2>2. CASE k <= Len(c) /\ c[k] \in Newline
    <3>1. Failed(EndOfLine(c, k)) \/ EndOfLine(c, k) \in k + 1 .. Len(c) + 1
      BY <1>1, <1>2, <2>2, EndOfLineType
    <3>2. QED  BY <1>1, <1>2, <1>5, <2>1, <2>2, <3>1, Negative DEF Agree, Failed
  <2>3. CASE ~(k <= Len(c) /\ c[k] \in Newline)
    BY <1>1, <1>2, <1>5, <2>1, <2>3, Negative DEF Agree
  <2>4. QED  BY <2>2, <2>3
<1>8. QED  BY <1>1, <1>2, <1>6, <1>7

(* The characters left, the seven of a version counted one by one. *)
LEMMA LeftBounds ==
  ASSUME NEW b, Len(b) \in Nat, NEW i \in Nat \ {0}, i <= Len(b) + 1
  PROVE  /\ Left(b, i) \in Int
         /\ i >= Len(b) => Left(b, i) <= 7
         /\ i + 2 > Len(b) /\ b[i + 1] = "1" => Left(b, i) <= 8
         /\ i + 2 <= Len(b) /\ b[i] = "HTTP/1." => Left(b, i) >= 9
<1> DEFINE V == {j \in i .. Len(b) : b[j] = "HTTP/1."}
           n == Cardinality(V)
<1>1. i \in Int /\ Len(b) \in Int
  OBVIOUS
<1>2. IsFiniteSet(V) /\ n \in Nat
  <2>1. IsFiniteSet(i .. Len(b))
    BY <1>1, FS_Interval
  <2>2. V \subseteq i .. Len(b)
    OBVIOUS
  <2>3. IsFiniteSet(V)
    BY <2>1, <2>2, FS_Subset
  <2>4. QED  BY <2>3, FS_CardinalityType
<1>3. Left(b, i) = Len(b) - i + 1 + 6 * n
  BY DEF Left
<1>4. IsFiniteSet({i}) /\ Cardinality({i}) = 1
  BY FS_Singleton
<1>5. V \subseteq {i} => n <= 1
  BY <1>4, FS_Subset
<1>6. {i} \subseteq V => n >= 1
  BY <1>2, <1>4, FS_Subset
<1>7. i >= Len(b) => V \subseteq {i}
  OBVIOUS
<1>8. i + 2 > Len(b) /\ b[i + 1] = "1" => V \subseteq {i}
  <2> SUFFICES ASSUME i + 2 > Len(b), b[i + 1] = "1", NEW j \in V PROVE j = i
    OBVIOUS
  <2>1. j \in i .. Len(b) /\ b[j] = "HTTP/1."
    OBVIOUS
  <2>2. j # i + 1
    BY <2>1
  <2>3. QED  BY <2>1, <2>2
<1>9. i + 2 <= Len(b) /\ b[i] = "HTTP/1." => {i} \subseteq V
  OBVIOUS
<1> HIDE DEF V, n
<1>10. QED  BY <1>2, <1>3, <1>5, <1>6, <1>7, <1>8, <1>9

(* More that arrives is more that is left.                                   *)
LEMMA LeftPre ==
  ASSUME NEW b, NEW c, Pre(b, c), NEW i \in Nat \ {0}, i <= Len(b) + 1
  PROVE  Left(b, i) <= Left(c, i)
<1> DEFINE V == {j \in i .. Len(b) : b[j] = "HTTP/1."}
           W == {j \in i .. Len(c) : c[j] = "HTTP/1."}
<1>1. /\ Len(b) \in Nat /\ Len(c) \in Nat /\ Len(b) <= Len(c)
      /\ \A x \in 1 .. Len(b) : c[x] = b[x]
  BY DEF Pre
<1>2. IsFiniteSet(W)
  <2>1. IsFiniteSet(i .. Len(c))
    BY <1>1, FS_Interval
  <2>2. W \subseteq i .. Len(c)
    OBVIOUS
  <2>3. QED  BY <2>1, <2>2, FS_Subset
<1>3. V \subseteq W
  BY <1>1
<1> HIDE DEF V, W
<1>4. IsFiniteSet(V) /\ Cardinality(V) <= Cardinality(W)
  BY <1>2, <1>3, FS_Subset
<1>5. Cardinality(V) \in Nat /\ Cardinality(W) \in Nat
  BY <1>2, <1>4, FS_CardinalityType
<1>6. Left(b, i) = Len(b) - i + 1 + 6 * Cardinality(V)
  BY DEF Left, V
<1>7. Left(c, i) = Len(c) - i + 1 + 6 * Cardinality(W)
  BY DEF Left, W
<1>8. QED  BY <1>1, <1>4, <1>5, <1>6, <1>7

(* A version takes its two positions.                                        *)
LEMMA HttpVersionType ==
  ASSUME NEW b, Len(b) \in Nat, NEW i \in Nat \ {0}, i <= Len(b) + 1
  PROVE  LET p == HttpVersion(b, i)
         IN /\ Failed(p) \/ (p = i + 2 /\ i + 2 <= Len(b))
            /\ p >= 0 => b[i] = "HTTP/1." /\ b[i + 1] = "1"
<1>1. /\ Left(b, i) \in Int
      /\ i + 2 > Len(b) /\ b[i + 1] = "1" => Left(b, i) <= 8
  BY LeftBounds
<1>2. QED  BY <1>1, Negative DEF HttpVersion, Failed

(* A version that was read is the same when more arrives.                    *)
LEMMA HttpVersionPre ==
  ASSUME NEW b, NEW c, Pre(b, c), NEW i \in Nat \ {0}, i <= Len(b) + 1
  PROVE  Agree(HttpVersion(b, i), HttpVersion(c, i), Len(b))
<1>1. /\ Len(b) \in Nat /\ Len(c) \in Nat /\ Len(b) <= Len(c) /\ i <= Len(c) + 1 /\ i \in Nat
      /\ \A x \in 1 .. Len(b) : c[x] = b[x]
  BY DEF Pre
<1>2. /\ Left(b, i) \in Int
      /\ i >= Len(b) => Left(b, i) <= 7
      /\ i + 2 <= Len(b) /\ b[i] = "HTTP/1." => Left(b, i) >= 9
  BY <1>1, LeftBounds
<1>3. Left(c, i) \in Int /\ Left(b, i) <= Left(c, i)
  BY <1>1, LeftBounds, LeftPre
<1>4. CASE Left(b, i) < 9
  <2>1. HttpVersion(b, i) = EOF
    BY <1>4 DEF HttpVersion
  <2>2. SUFFICES ASSUME 0 <= HttpVersion(c, i), HttpVersion(c, i) <= Len(b) PROVE FALSE
    BY <2>1 DEF Agree
  <2>3. c[i] = "HTTP/1." /\ i + 2 <= Len(b)
    BY <1>1, <2>2, Negative DEF HttpVersion
  <2>4. b[i] = "HTTP/1."
    BY <1>1, <2>3
  <2>5. QED  BY <1>2, <1>4, <2>3, <2>4
<1>5. CASE Left(b, i) >= 9
  <2>1. i + 1 <= Len(b) /\ i <= Len(b) /\ c[i] = b[i] /\ c[i + 1] = b[i + 1]
    BY <1>1, <1>2, <1>5
  <2>2. HttpVersion(b, i) = HttpVersion(c, i)
    BY <1>2, <1>3, <1>5, <2>1 DEF HttpVersion
  <2>3. QED  BY <2>2 DEF Agree
<1>6. QED  BY <1>2, <1>4, <1>5

(* From i on there is no newline before j. *)
Plain(b, i, j) == \A k \in i .. j - 1 : b[k] \notin Newline
(* One line from i on, its newline the last thing before p. *)
WholeLine(b, i, p) == /\ p \in i + 1 .. Len(b) + 1 /\ b[p - 1] = "LF" /\ Clean(b, i, p)
                 /\ \A k \in i .. p - 2 : b[k] # "LF"

(* Stretches without a newline join.                                         *)
LEMMA PlainJoin ==
  ASSUME NEW b, NEW i \in Int, NEW j \in Int, NEW p \in Int, Plain(b, i, j), Plain(b, j, p)
  PROVE  Plain(b, i, p)
  BY DEF Plain

(* A stretch without a newline and the rest of the line are the line.        *)
LEMMA LineJoin ==
  ASSUME NEW b, Len(b) \in Nat, NEW i \in Int, NEW j \in Int, NEW p, i <= j,
         Plain(b, i, j), WholeLine(b, j, p)
  PROVE  WholeLine(b, i, p)
<1>1. p \in j + 1 .. Len(b) + 1 /\ b[p - 1] = "LF" /\ \A k \in j .. p - 2 : b[k] # "LF"
  BY DEF WholeLine
<1>2. \A k \in i .. j - 1 : b[k] # "LF" /\ b[k] # "CR"
  BY DEF Plain, Newline
<1>3. \A k \in i .. p - 2 : b[k] # "LF"
  <2> SUFFICES ASSUME NEW k \in i .. p - 2 PROVE b[k] # "LF"
    OBVIOUS
  <2>1. k \in i .. j - 1 \/ k \in j .. p - 2
    BY <1>1
  <2>2. QED  BY <1>1, <1>2, <2>1
<1>4. Clean(b, i, p)
  <2>1. Clean(b, i, j)
    BY <1>2 DEF Clean
  <2>2. QED  BY <1>1, <2>1, CleanJoin DEF WholeLine
<1>5. QED  BY <1>1, <1>3, <1>4 DEF WholeLine

(* A newline is an empty line.                                               *)
LEMMA EndOfLineLine ==
  ASSUME NEW b, Len(b) \in Nat, NEW i \in 1 .. Len(b), b[i] \in Newline, EndOfLine(b, i) >= 0
  PROVE  WholeLine(b, i, EndOfLine(b, i))
<1> DEFINE p == EndOfLine(b, i)
<1>1. /\ Failed(p) \/ p \in i + 1 .. Len(b) + 1
      /\ b[p - 1] = "LF" /\ Clean(b, i, p) /\ IF b[i] = "LF" THEN p = i + 1 ELSE p = i + 2
  BY EndOfLineType
<1> HIDE DEF p
<1>2. p \in i + 1 .. Len(b) + 1
  BY <1>1, Negative DEF Failed, p
<1>3. \A k \in i .. p - 2 : b[k] # "LF"
  BY <1>1, <1>2
<1>4. QED  BY <1>1, <1>2, <1>3 DEF WholeLine, p

(* What is read up to the newline is one line.                               *)
LEMMA TokenToEolLine ==
  ASSUME NEW b, Len(b) \in Nat, NEW i \in Nat \ {0}, i <= Len(b) + 1, TokenToEol(b, i) >= 0
  PROVE  WholeLine(b, i, TokenToEol(b, i))
<1> DEFINE p == TokenToEol(b, i)
           j == Find(b, i, Control \ {"HT"})
<1>1. /\ j \in i .. Len(b) /\ b[j] \in Newline /\ p = EndOfLine(b, j)
      /\ \A k \in i .. j - 1 : b[k] \notin Newline
  BY TokenToEolType
<1> HIDE DEF j
<1>2. j \in 1 .. Len(b) /\ i <= j /\ j \in Int /\ i \in Int /\ p >= 0
  BY <1>1
<1>3. WholeLine(b, j, p)
  BY <1>1, <1>2, EndOfLineLine
<1>4. Plain(b, i, j)
  BY <1>1 DEF Plain
<1> HIDE DEF p
<1>5. WholeLine(b, i, p)
  BY <1>2, <1>3, <1>4, LineJoin
<1>6. QED  BY <1>5 DEF p

(* Where the value of a header begins. *)
LEMMA ValueStartType ==
  ASSUME NEW b, Len(b) \in Nat, NEW i \in 1 .. Len(b), NEW k,
         Folded(b, i, k) \/ ParseToken(b, i, ":") >= 0
  PROVE  LET s == ValueStart(b, i, k)
         IN s \in i .. Len(b) + 1 /\ Plain(b, i, s)
<1>1. CASE Folded(b, i, k)
  BY <1>1 DEF ValueStart, Plain
<1>2. CASE ~Folded(b, i, k)
  <2> DEFINE j == ParseToken(b, i, ":")
             s == Skip(b, j + 1, Blank)
  <2>1. /\ Failed(j) \/ j \in i .. Len(b)
        /\ b[j] = ":" /\ \A x \in i .. j - 1 : b[x] \in Token
    <3>1. i \in Nat \ {0} /\ i <= Len(b) + 1 /\ ":" \notin Token
      BY DEF Token
    <3>2. QED  BY <1>2, <3>1, ParseTokenType
  <2>2. j \in i .. Len(b)
    BY <1>2, <2>1, Negative DEF Failed
  <2> HIDE DEF j
  <2>3. s \in j + 1 .. Len(b) + 1 /\ \A x \in j + 1 .. s - 1 : b[x] \in Blank
    BY <2>2, SkipType
  <2>4. ValueStart(b, i, k) = s
    BY <1>2 DEF ValueStart, j
  <2> HIDE DEF s
  <2>5. Plain(b, i, j)
    BY <2>1 DEF Plain, Newline, Token
  <2>6. Plain(b, j, s)
    <3> SUFFICES ASSUME NEW x \in j .. s - 1 PROVE b[x] \notin Newline
      BY DEF Plain
    <3>1. x = j \/ x \in j + 1 .. s - 1
      BY <2>2, <2>3
    <3>2. QED  BY <2>1, <2>3, <3>1 DEF Newline, Blank
  <2>7. Plain(b, i, s)
    BY <2>2, <2>3, <2>5, <2>6, PlainJoin
  <2>8. QED  BY <2>2, <2>3, <2>4, <2>7
<1>3. QED  BY <1>1, <1>2

(* A header, or the line it goes on with, is one line.                       *)
LEMMA HeaderLineType ==
  ASSUME NEW b, Len(b) \in Nat, NEW i \in 1 .. Len(b), NEW k
  PROVE  LET p == HeaderLine(b, i, k)
         IN Failed(p) \/ WholeLine(b, i, p)
<1> DEFINE p == HeaderLine(b, i, k)
           s == ValueStart(b, i, k)
           colon == ParseToken(b, i, ":")
<1>1. i \in Nat \ {0} /\ i <= Len(b) + 1 /\ i \in Int
  OBVIOUS
<1>2. CASE Folded(b, i, k)
  <2>1. p = TokenToEol(b, i)
    BY <1>2 DEF HeaderLine
  <2> HIDE DEF p
  <2>2. Failed(p) \/ p \in i + 1 .. Len(b) + 1
    BY <1>1, <2>1, TokenToEolType
  <2>3. CASE p >= 0
    <3>1. WholeLine(b, i, p)
      BY <1>1, <2>1, <2>3, TokenToEolLine
    <3>2. QED  BY <3>1 DEF p
  <2>4. CASE ~(p >= 0)
    <3>1. Failed(p)
      BY <2>2, <2>4
    <3>2. QED  BY <3>1 DEF p
  <2>5. QED  BY <2>3, <2>4
<1>3. CASE ~Folded(b, i, k)
  <2>1. Failed(colon) \/ colon \in i .. Len(b)
    <3>1. ":" \notin Token
      BY DEF Token
    <3>2. QED  BY <1>1, <3>1, ParseTokenType
  <2>2. CASE colon < 0 \/ colon = i \/ s > Len(b)
    <3>1. Failed(p)
      BY <1>3, <2>1, <2>2 DEF HeaderLine, Failed
    <3>2. QED  BY <3>1
  <2>3. CASE ~(colon < 0 \/ colon = i \/ s > Len(b))
    <3>1. p = TokenToEol(b, s)
      BY <1>3, <2>3 DEF HeaderLine
    <3>2. colon >= 0
      BY <2>1, <2>3, Negative DEF Failed
    <3>3. s \in i .. Len(b) + 1 /\ Plain(b, i, s)
      BY <3>2, ValueStartType
    <3> HIDE DEF p, s
    <3>4. s \in Nat \ {0} /\ s <= Len(b) + 1 /\ s \in Int /\ i <= s
      BY <3>3
    <3>5. Failed(p) \/ p \in s + 1 .. Len(b) + 1
      BY <3>1, <3>4, TokenToEolType
    <3>6. CASE p >= 0
      <4>1. WholeLine(b, s, p)
        BY <3>1, <3>4, <3>6, TokenToEolLine
      <4>2. WholeLine(b, i, p)
        BY <1>1, <3>3, <3>4, <4>1, LineJoin
      <4>3. QED  BY <4>2 DEF p
    <3>7. CASE ~(p >= 0)
      <4>1. Failed(p)
        BY <3>4, <3>5, <3>7
      <4>2. QED  BY <4>1 DEF p
    <3>8. QED  BY <3>6, <3>7
  <2>4. QED  BY <2>2, <2>3
<1>4. QED  BY <1>2, <1>3

(* Of a line that is one, the parts lie where HeaderLine found them. *)
LEMMA HeaderLineParts ==
  ASSUME NEW b, Len(b) \in Nat, NEW i \in 1 .. Len(b), NEW k, HeaderLine(b, i, k) >= 0
  PROVE  LET s == ValueStart(b, i, k)
         IN /\ s \in i .. Len(b) /\ Plain(b, i, s) /\ HeaderLine(b, i, k) = TokenToEol(b, s)
            /\ Folded(b, i, k) \/ ParseToken(b, i, ":") \in i + 1 .. Len(b)
<1> DEFINE s == ValueStart(b, i, k)
           colon == ParseToken(b, i, ":")
<1>1. i \in Nat \ {0} /\ i <= Len(b) + 1 /\ i \in Int
  OBVIOUS
<1>2. CASE Folded(b, i, k)
  BY <1>1, <1>2 DEF HeaderLine, ValueStart, Plain
<1>3. CASE ~Folded(b, i, k)
  <2>1. Failed(colon) \/ colon \in i .. Len(b)
    <3>1. ":" \notin Token
      BY DEF Token
    <3>2. QED  BY <1>1, <3>1, ParseTokenType
  <2>2. /\ ~(colon < 0 \/ colon = i \/ s > Len(b))
        /\ HeaderLine(b, i, k) = TokenToEol(b, s)
    BY <1>3, <2>1, Negative DEF HeaderLine, Failed
  <2>3. colon >= 0 /\ colon \in i + 1 .. Len(b)
    BY <2>1, <2>2, Negative DEF Failed
  <2>4. s \in i .. Len(b) + 1 /\ Plain(b, i, s)
    BY <2>3, ValueStartType
  <2>5. QED  BY <2>2, <2>3, <2>4
<1>4. QED  BY <1>2, <1>3

(* A header line that was read, or refused, is the same when more arrives.   *)
LEMMA HeaderLinePre ==
  ASSUME NEW b, NEW c, Pre(b, c), NEW i \in 1 .. Len(b), NEW k
  PROVE  Agree(HeaderLine(b, i, k), HeaderLine(c, i, k), Len(b) + 1)
<1> DEFINE p == HeaderLine(b, i, k)
           q == HeaderLine(c, i, k)
           colonB == ParseToken(b, i, ":")
           colonC == ParseToken(c, i, ":")
           startB == ValueStart(b, i, k)
           startC == ValueStart(c, i, k)
<1>1. /\ Len(b) \in Nat /\ Len(c) \in Nat /\ Len(b) <= Len(c) /\ i \in 1 .. Len(c)
      /\ i \in Nat \ {0} /\ i <= Len(b) + 1 /\ i <= Len(c) + 1 /\ c[i] = b[i]
      /\ \A x \in 1 .. Len(b) : c[x] = b[x]
  BY DEF Pre
<1>2. CASE Folded(b, i, k)
  <2>1. p = TokenToEol(b, i) /\ q = TokenToEol(c, i)
    BY <1>1, <1>2 DEF HeaderLine, Folded
  <2>2. QED  BY <1>1, <2>1, TokenToEolPre
<1>3. CASE ~Folded(b, i, k)
  <2>1. /\ p = IF colonB < 0 THEN colonB ELSE IF colonB = i THEN BAD
               ELSE IF startB > Len(b) THEN EOF ELSE TokenToEol(b, startB)
        /\ startB = Skip(b, colonB + 1, Blank)
    BY <1>3 DEF HeaderLine, ValueStart
  <2>2. /\ q = IF colonC < 0 THEN colonC ELSE IF colonC = i THEN BAD
               ELSE IF startC > Len(c) THEN EOF ELSE TokenToEol(c, startC)
        /\ startC = Skip(c, colonC + 1, Blank)
    BY <1>1, <1>3 DEF HeaderLine, ValueStart, Folded
  <2>3. /\ Failed(colonB) \/ colonB \in i .. Len(b)
        /\ Failed(colonC) \/ colonC \in i .. Len(c)
    <3>1. ":" \notin Token
      BY DEF Token
    <3>2. QED  BY <1>1, <3>1, ParseTokenType
  <2>4. Agree(colonB, colonC, Len(b))
    BY <1>1, ParseTokenPre
  <2> HIDE DEF p, q, colonB, colonC, startB, startC
  <2>5. ASSUME colonC > Len(b) \/ startC > Len(b), colonC >= 0
        PROVE  q \in Int /\ (q < 0 \/ q > Len(b) + 1)
    <3>1. colonC \in i .. Len(c) /\ colonC + 1 <= Len(c) + 1 /\ colonC + 1 \in Nat
      BY <2>3, <2>5, Negative DEF Failed
    <3>2. startC \in colonC + 1 .. Len(c) + 1
      BY <1>1, <2>2, <3>1, SkipType
    <3>3. startC \in Nat \ {0} /\ startC > Len(b)
      BY <1>1, <2>5, <3>1, <3>2
    <3>4. Failed(TokenToEol(c, startC)) \/ TokenToEol(c, startC) \in startC + 1 .. Len(c) + 1
      BY <1>1, <3>2, <3>3, TokenToEolType
    <3>5. Failed(q) \/ q = TokenToEol(c, startC)
      BY <2>2, <3>1 DEF Failed
    <3>6. Failed(q) \/ q \in startC + 1 .. Len(c) + 1
      BY <3>4, <3>5
    <3>7. QED  BY <1>1, <3>3, <3>6, Negative DEF Failed
  <2>6. CASE colonB = EOF
    <3>1. p = EOF /\ (colonC < 0 \/ colonC > Len(b))
      BY <2>1, <2>4, <2>6, <2>3, Negative DEF Agree, Failed
    <3>2. q \in Int /\ (q < 0 \/ q > Len(b) + 1)
      <4>1. CASE colonC < 0
        BY <2>2, <2>3, <4>1, Negative DEF Failed
      <4>2. CASE colonC >= 0 /\ colonC > Len(b)
        BY <2>5, <4>2
      <4>3. QED  BY <2>3, <3>1, <4>1, <4>2, Negative DEF Failed
    <3>3. QED  BY <3>1, <3>2, Negative, <1>1 DEF Agree, p, q
  <2>7. CASE colonB = BAD
    BY <2>1, <2>2, <2>4, <2>7, Negative DEF Agree, p, q
  <2>8. CASE colonB \in i .. Len(b)
    <3>1. colonC = colonB /\ colonB # EOF /\ colonB >= 0 /\ colonB + 1 \in Nat \ {0}
      BY <1>1, <2>4, <2>8, Negative DEF Agree
    <3>2. CASE colonB = i
      BY <2>1, <2>2, <3>1, <3>2, Negative DEF Agree, p, q
    <3>3. CASE colonB # i /\ (startB <= Len(b) \/ startC <= Len(b))
      <4>1. startC = startB /\ startB \in colonB + 1 .. Len(b)
        BY <2>1, <2>2, <2>8, <3>1, <3>3, SkipPre
      <4>2. p = TokenToEol(b, startB) /\ q = TokenToEol(c, startB)
        BY <1>1, <2>1, <2>2, <2>8, <3>1, <3>3, <4>1
      <4>3. startB \in Nat \ {0} /\ startB <= Len(b) + 1
        BY <2>8, <4>1
      <4>4. QED  BY <4>2, <4>3, TokenToEolPre DEF p, q
    <3>4. CASE colonB # i /\ ~(startB <= Len(b)) /\ ~(startC <= Len(b))
      <4>1. startB \in colonB + 1 .. Len(b) + 1
        BY <1>1, <2>1, <2>8, <3>1, SkipType
      <4>2. colonC + 1 <= Len(c) + 1 /\ startC \in colonC + 1 .. Len(c) + 1
        <5>1. colonC + 1 <= Len(c) + 1 /\ colonC + 1 \in Nat
          BY <1>1, <2>8, <3>1
        <5>2. QED  BY <1>1, <2>2, <5>1, SkipType
      <4>3. p = EOF
        BY <1>1, <2>1, <2>8, <3>1, <3>4, <4>1
      <4>4. q \in Int /\ (q < 0 \/ q > Len(b) + 1)
        BY <1>1, <2>5, <2>8, <3>1, <3>4, <4>2
      <4>5. QED  BY <1>1, <4>3, <4>4, Negative DEF Agree, p, q
    <3>5. QED  BY <3>2, <3>3, <3>4
  <2>9. QED  BY <2>3, <2>6, <2>7, <2>8 DEF Failed
<1>4. QED  BY <1>2, <1>3

(* Of a request line that is one, the parts lie behind each other. *)
LEMMA RequestLineParts ==
  ASSUME NEW b, Len(b) \in Nat, NEW i \in Nat \ {0}, i <= Len(b) + 1
  PROVE  LET method == ParseToken(b, i, "SP")
             path == Skip(b, method + 1, {"SP"})
             pathEnd == AdvanceToken(b, path)
             version == Skip(b, pathEnd + 1, {"SP"})
             end == HttpVersion(b, version)
             p == RequestLine(b, i)
         IN \/ Failed(p)
            \/ /\ method \in i + 1 .. Len(b) /\ path \in method + 1 .. Len(b)
               /\ pathEnd \in path + 1 .. Len(b) /\ version \in pathEnd + 1 .. Len(b)
               /\ end = version + 2 /\ end <= Len(b) /\ b[end] \in Newline
               /\ Plain(b, i, end) /\ p = EndOfLine(b, end)
<1> DEFINE method == ParseToken(b, i, "SP")
           path == Skip(b, method + 1, {"SP"})
           pathEnd == AdvanceToken(b, path)
           version == Skip(b, pathEnd + 1, {"SP"})
           end == HttpVersion(b, version)
           p == RequestLine(b, i)
<1>1. p = IF method < 0 THEN method
          ELSE IF path > Len(b) THEN EOF
          ELSE IF pathEnd < 0 THEN pathEnd
          ELSE IF version > Len(b) THEN EOF
          ELSE IF method = i \/ pathEnd = path THEN BAD
          ELSE IF end < 0 THEN end
          ELSE IF b[end] \in Newline THEN EndOfLine(b, end) ELSE BAD
  BY DEF RequestLine
<1>2. /\ Failed(method) \/ method \in i .. Len(b)
      /\ method >= 0 => b[method] = "SP" /\ \A k \in i .. method - 1 : b[k] \in Token
  <2>1. "SP" \notin Token
    BY DEF Token
  <2>2. QED  BY <2>1, ParseTokenType
<1> HIDE DEF method, p
<1> SUFFICES ASSUME ~Failed(p)
             PROVE  /\ method \in i + 1 .. Len(b) /\ path \in method + 1 .. Len(b)
                    /\ pathEnd \in path + 1 .. Len(b) /\ version \in pathEnd + 1 .. Len(b)
                    /\ end = version + 2 /\ end <= Len(b) /\ b[end] \in Newline
                    /\ Plain(b, i, end) /\ p = EndOfLine(b, end)
  BY DEF method, p
<1>3. method \in i .. Len(b) /\ ~(method < 0) /\ method + 1 \in Nat \ {0}
  BY <1>1, <1>2, Negative DEF Failed
<1>4. path \in method + 1 .. Len(b) + 1 /\ \A k \in method + 1 .. path - 1 : b[k] = "SP"
  BY <1>3, SkipType
<1> HIDE DEF path
<1>5. path \in method + 1 .. Len(b) /\ ~(path > Len(b)) /\ path \in Nat \ {0}
  BY <1>1, <1>3, <1>4 DEF Failed
<1>6. /\ Failed(pathEnd) \/ pathEnd \in path .. Len(b)
      /\ pathEnd >= 0 => b[pathEnd] = "SP" /\ \A k \in path .. pathEnd - 1 : b[k] \notin Control
  BY <1>5, AdvanceTokenType
<1> HIDE DEF pathEnd
<1>7. pathEnd \in path .. Len(b) /\ ~(pathEnd < 0) /\ pathEnd + 1 \in Nat \ {0}
  BY <1>1, <1>3, <1>5, <1>6, Negative DEF Failed
<1>8. version \in pathEnd + 1 .. Len(b) + 1 /\ \A k \in pathEnd + 1 .. version - 1 : b[k] = "SP"
  BY <1>7, SkipType
<1> HIDE DEF version
<1>9. version \in pathEnd + 1 .. Len(b) /\ ~(version > Len(b)) /\ version \in Nat \ {0}
  BY <1>1, <1>3, <1>5, <1>7, <1>8 DEF Failed
<1>10. method \in i + 1 .. Len(b) /\ pathEnd \in path + 1 .. Len(b)
  BY <1>1, <1>3, <1>5, <1>7, <1>9 DEF Failed
<1>11. /\ Failed(end) \/ (end = version + 2 /\ version + 2 <= Len(b))
       /\ end >= 0 => b[version] = "HTTP/1." /\ b[version + 1] = "1"
  BY <1>9, HttpVersionType
<1> HIDE DEF end
<1>12. p = IF end < 0 THEN end ELSE IF b[end] \in Newline THEN EndOfLine(b, end) ELSE BAD
  BY <1>1, <1>3, <1>5, <1>7, <1>9, <1>10
<1>13. end = version + 2 /\ end <= Len(b)
  BY <1>9, <1>11, <1>12, Negative DEF Failed
<1>14. b[end] \in Newline /\ p = EndOfLine(b, end)
  BY <1>9, <1>12, <1>13 DEF Failed
<1>15. Plain(b, i, end)
  <2>1. Plain(b, i, method)
    BY <1>2, <1>3 DEF Plain, Token, Newline
  <2>2. Plain(b, method, path)
    <3> SUFFICES ASSUME NEW k \in method .. path - 1 PROVE b[k] = "SP"
      BY DEF Plain, Newline
    <3>1. k = method \/ k \in method + 1 .. path - 1
      BY <1>3, <1>5
    <3>2. QED  BY <1>2, <1>3, <1>4, <3>1
  <2>3. Plain(b, path, pathEnd)
    BY <1>6, <1>7 DEF Plain, Control
  <2>4. Plain(b, pathEnd, version)
    <3> SUFFICES ASSUME NEW k \in pathEnd .. version - 1 PROVE b[k] = "SP"
      BY DEF Plain, Newline
    <3>1. k = pathEnd \/ k \in pathEnd + 1 .. version - 1
      BY <1>5, <1>7, <1>9
    <3>2. QED  BY <1>6, <1>5, <1>7, <1>8, <3>1
  <2>5. Plain(b, version, end)
    <3> SUFFICES ASSUME NEW k \in version .. end - 1 PROVE b[k] \in {"HTTP/1.", "1"}
      BY DEF Plain, Newline
    <3>1. k = version \/ k = version + 1
      BY <1>9, <1>13
    <3>2. QED  BY <1>9, <1>11, <1>13, <3>1
  <2>6. Plain(b, i, path)
    BY <1>3, <1>5, <2>1, <2>2, PlainJoin
  <2>7. Plain(b, i, pathEnd)
    BY <1>5, <1>7, <2>3, <2>6, PlainJoin
  <2>8. Plain(b, i, version)
    BY <1>5, <1>7, <1>9, <2>4, <2>7, PlainJoin
  <2>9. QED
    BY <1>9, <1>13, <2>5, <2>8, PlainJoin
<1>16. QED
  BY <1>5, <1>9, <1>10, <1>13, <1>14, <1>15

(* A request line is one line.                                               *)
LEMMA RequestLineType ==
  ASSUME NEW b, Len(b) \in Nat, NEW i \in Nat \ {0}, i <= Len(b) + 1
  PROVE  LET p == RequestLine(b, i)
         IN Failed(p) \/ WholeLine(b, i, p)
<1> DEFINE p == RequestLine(b, i)
<1>1. SUFFICES ASSUME ~Failed(p) PROVE Failed(p) \/ WholeLine(b, i, p)
  OBVIOUS
<1>2. PICK end \in i .. Len(b) :
             b[end] \in Newline /\ Plain(b, i, end) /\ p = EndOfLine(b, end)
  <2> DEFINE version == Skip(b, AdvanceToken(b, Skip(b, ParseToken(b, i, "SP") + 1, {"SP"})) + 1, {"SP"})
  <2> HIDE DEF p
  <2>1. PICK method, path, pathEnd, end :
               /\ method \in i + 1 .. Len(b) /\ path \in method + 1 .. Len(b)
               /\ pathEnd \in path + 1 .. Len(b) /\ version \in pathEnd + 1 .. Len(b)
               /\ end = version + 2 /\ end <= Len(b) /\ b[end] \in Newline
               /\ Plain(b, i, end) /\ p = EndOfLine(b, end)
    BY <1>1, RequestLineParts DEF p
  <2> HIDE DEF version
  <2>2. end \in i .. Len(b)
    BY <2>1
  <2>3. QED  BY <2>1, <2>2
<1> HIDE DEF p
<1>3. end \in 1 .. Len(b) /\ i \in Int /\ end \in Int /\ i <= end
  OBVIOUS
<1>4. Failed(p) \/ p \in end + 1 .. Len(b) + 1
  BY <1>2, <1>3, EndOfLineType
<1>5. p >= 0
  BY <1>1, <1>3, <1>4
<1>6. WholeLine(b, end, p)
  BY <1>2, <1>3, <1>5, EndOfLineLine
<1>7. WholeLine(b, i, p)
  BY <1>2, <1>3, <1>6, LineJoin
<1>8. QED  BY <1>7 DEF p

(* A request line that was read, or refused, is the same when more arrives.  *)
LEMMA RequestLinePre ==
  ASSUME NEW b, NEW c, Pre(b, c), NEW i \in Nat \ {0}, i <= Len(b) + 1
  PROVE  Agree(RequestLine(b, i), RequestLine(c, i), Len(b) + 1)
<1>1. /\ Len(b) \in Nat /\ Len(c) \in Nat /\ Len(b) <= Len(c) /\ i <= Len(c) + 1 /\ i \in Nat
      /\ \A x \in 1 .. Len(b) : c[x] = b[x]
  BY DEF Pre
<1> DEFINE methodB == ParseToken(b, i, "SP")
           pathB == Skip(b, methodB + 1, {"SP"})
           pathEndB == AdvanceToken(b, pathB)
           versionB == Skip(b, pathEndB + 1, {"SP"})
           endB == HttpVersion(b, versionB)
           p == RequestLine(b, i)
           methodC == ParseToken(c, i, "SP")
           pathC == Skip(c, methodC + 1, {"SP"})
           pathEndC == AdvanceToken(c, pathC)
           versionC == Skip(c, pathEndC + 1, {"SP"})
           endC == HttpVersion(c, versionC)
           q == RequestLine(c, i)
<1>2. p = IF methodB < 0 THEN methodB
          ELSE IF pathB > Len(b) THEN EOF
          ELSE IF pathEndB < 0 THEN pathEndB
          ELSE IF versionB > Len(b) THEN EOF
          ELSE IF methodB = i \/ pathEndB = pathB THEN BAD
          ELSE IF endB < 0 THEN endB
          ELSE IF b[endB] \in Newline THEN EndOfLine(b, endB) ELSE BAD
  BY DEF RequestLine
<1>3. q = IF methodC < 0 THEN methodC
          ELSE IF pathC > Len(c) THEN EOF
          ELSE IF pathEndC < 0 THEN pathEndC
          ELSE IF versionC > Len(c) THEN EOF
          ELSE IF methodC = i \/ pathEndC = pathC THEN BAD
          ELSE IF endC < 0 THEN endC
          ELSE IF c[endC] \in Newline THEN EndOfLine(c, endC) ELSE BAD
  BY DEF RequestLine
<1>4. \/ Failed(q)
      \/ /\ methodC \in i + 1 .. Len(c) /\ pathC \in methodC + 1 .. Len(c)
         /\ pathEndC \in pathC + 1 .. Len(c) /\ versionC \in pathEndC + 1 .. Len(c)
         /\ endC = versionC + 2 /\ endC <= Len(c) /\ c[endC] \in Newline
         /\ q = EndOfLine(c, endC)
  <2> HIDE DEF methodC, pathC, pathEndC, versionC, endC, q
  <2>1. QED  BY <1>1, RequestLineParts DEF methodC, pathC, pathEndC, versionC, endC, q
<1>5. /\ Failed(methodB) \/ methodB \in i .. Len(b)
      /\ Agree(methodB, methodC, Len(b))
  <2>1. "SP" \notin Token
    BY DEF Token
  <2>2. QED  BY <1>1, <2>1, ParseTokenType, ParseTokenPre
<1> HIDE DEF methodB, methodC, p, q
<1>6. ASSUME methodB \in i .. Len(b)
      PROVE  /\ methodC = methodB /\ pathB \in methodB + 1 .. Len(b) + 1
             /\ pathB <= Len(b) \/ pathC <= Len(b) => pathC = pathB
  <2>1. methodC = methodB
    BY <1>1, <1>5, <1>6, Negative DEF Agree
  <2>2. methodB + 1 \in Nat \ {0} /\ methodB + 1 <= Len(b) + 1
    BY <1>1, <1>6
  <2>3. QED  BY <1>1, <2>1, <2>2, SkipType, SkipPre
<1> HIDE DEF pathB, pathC
<1>7. ASSUME pathC = pathB, pathB \in i .. Len(b)
      PROVE  /\ Failed(pathEndB) \/ pathEndB \in pathB .. Len(b)
             /\ Agree(pathEndB, pathEndC, Len(b))
  <2>1. pathB \in Nat \ {0} /\ pathB <= Len(b) + 1
    BY <1>1, <1>7
  <2>2. QED  BY <1>1, <1>7, <2>1, AdvanceTokenType, AdvanceTokenPre
<1> HIDE DEF pathEndB, pathEndC
<1>8. ASSUME pathEndB \in i .. Len(b), pathEndC = pathEndB
      PROVE  /\ versionB \in pathEndB + 1 .. Len(b) + 1
             /\ versionB <= Len(b) \/ versionC <= Len(b) => versionC = versionB
  <2>1. pathEndB + 1 \in Nat \ {0} /\ pathEndB + 1 <= Len(b) + 1
    BY <1>1, <1>8
  <2>2. QED  BY <1>1, <1>8, <2>1, SkipType, SkipPre
<1> HIDE DEF versionB, versionC
<1>9. ASSUME versionC = versionB, versionB \in i .. Len(b)
      PROVE  /\ Failed(endB) \/ (endB = versionB + 2 /\ versionB + 2 <= Len(b))
             /\ Agree(endB, endC, Len(b))
  <2>1. versionB \in Nat \ {0} /\ versionB <= Len(b) + 1
    BY <1>1, <1>9
  <2>2. QED  BY <1>1, <1>9, <2>1, HttpVersionType, HttpVersionPre
<1> HIDE DEF endB, endC
<1>10. ASSUME endC = endB, endB \in 1 .. Len(b)
       PROVE  c[endC] = b[endB] /\ Agree(EndOfLine(b, endB), EndOfLine(c, endC), Len(b) + 1)
  BY <1>1, <1>10, EndOfLinePre
<1>11. ASSUME p # EOF PROVE q = p
  <2>1. CASE methodB = BAD
    BY <1>2, <1>3, <1>5, <2>1, Negative DEF Agree
  <2>2. CASE methodB \in i .. Len(b)
    <3>1. methodB >= 0 /\ ~(pathB > Len(b)) /\ ~(methodB < 0)
      BY <1>1, <1>2, <1>11, <2>2
    <3>2. pathC = pathB /\ pathB \in methodB + 1 .. Len(b) /\ methodC = methodB
      BY <1>1, <1>6, <2>2, <3>1
    <3>3. pathB \in i .. Len(b) /\ pathB \in Int
      BY <1>1, <2>2, <3>2
    <3>4. /\ Failed(pathEndB) \/ pathEndB \in pathB .. Len(b)
          /\ Agree(pathEndB, pathEndC, Len(b))
      BY <1>7, <3>2, <3>3
    <3>5. pathEndB # EOF
      BY <1>2, <1>11, <3>1, Negative
    <3>6. CASE pathEndB = BAD
      <4>1. pathEndC = BAD
        BY <3>4, <3>6, Negative DEF Agree
      <4>2. ~(methodC < 0) /\ ~(pathC > Len(c)) /\ pathEndC < 0
        BY <1>1, <3>1, <3>2, <3>3, <4>1, Negative
      <4>3. QED  BY <1>2, <1>3, <3>1, <3>6, <4>1, <4>2, Negative
    <3>7. CASE pathEndB \in pathB .. Len(b)
      <4>1. pathEndC = pathEndB /\ ~(pathEndB < 0) /\ pathEndB \in i .. Len(b)
        BY <1>1, <3>3, <3>4, <3>5, <3>7 DEF Agree
      <4>2. ~(versionB > Len(b))
        BY <1>2, <1>11, <3>1, <4>1
      <4>3. versionC = versionB /\ versionB \in pathEndB + 1 .. Len(b)
        BY <1>1, <1>8, <4>1, <4>2
      <4>4. versionB \in i .. Len(b) /\ ~(versionC > Len(c)) /\ ~(pathC > Len(c)) /\ ~(methodC < 0)
        BY <1>1, <3>1, <3>2, <3>3, <4>1, <4>3
      <4>5. CASE methodB = i \/ pathEndB = pathB
        <5>1. p = BAD
          BY <1>2, <3>1, <4>1, <4>2, <4>5
        <5>2. q = BAD
          BY <1>3, <3>2, <4>1, <4>4, <4>5
        <5>3. QED  BY <5>1, <5>2
      <4>6. CASE ~(methodB = i \/ pathEndB = pathB)
        <5>1. /\ Failed(endB) \/ (endB = versionB + 2 /\ versionB + 2 <= Len(b))
              /\ Agree(endB, endC, Len(b))
          BY <1>9, <4>3, <4>4
        <5>2. p = IF endB < 0 THEN endB
                  ELSE IF b[endB] \in Newline THEN EndOfLine(b, endB) ELSE BAD
          BY <1>2, <3>1, <4>1, <4>2, <4>6
        <5>3. q = IF endC < 0 THEN endC
                  ELSE IF c[endC] \in Newline THEN EndOfLine(c, endC) ELSE BAD
          BY <1>3, <3>2, <4>1, <4>4, <4>6
        <5>4. endB # EOF
          BY <1>11, <5>2, Negative
        <5>5. endC = endB
          BY <5>1, <5>4 DEF Agree
        <5>6. CASE endB = BAD
          BY <5>2, <5>3, <5>5, <5>6, Negative
        <5>7. CASE endB = versionB + 2 /\ versionB + 2 <= Len(b)
          <6>1. endB \in 1 .. Len(b) /\ ~(endB < 0)
            BY <1>1, <4>4, <5>7
          <6>2. c[endC] = b[endB] /\ Agree(EndOfLine(b, endB), EndOfLine(c, endC), Len(b) + 1)
            BY <1>10, <5>5, <6>1
          <6>3. QED  BY <1>11, <5>2, <5>3, <5>5, <6>1, <6>2 DEF Agree
        <5>8. QED  BY <5>1, <5>4, <5>6, <5>7 DEF Failed
      <4>7. QED  BY <4>5, <4>6
    <3>8. QED  BY <3>4, <3>5, <3>6, <3>7 DEF Failed
  <2>3. methodB # EOF
    BY <1>2, <1>11, Negative
  <2>4. QED  BY <1>5, <2>1, <2>2, <2>3 DEF Failed
<1>12. ASSUME 0 <= q, q <= Len(b) + 1 PROVE p = q
  <2>1. /\ methodC \in i + 1 .. Len(c) /\ pathC \in methodC + 1 .. Len(c)
        /\ pathEndC \in pathC + 1 .. Len(c) /\ versionC \in pathEndC + 1 .. Len(c)
        /\ endC = versionC + 2 /\ endC <= Len(c) /\ c[endC] \in Newline
        /\ q = EndOfLine(c, endC)
    BY <1>4, <1>12, Negative DEF Failed
  <2>2. endC \in 1 .. Len(c)
    BY <1>1, <2>1
  <2>3. q \in endC + 1 .. Len(c) + 1
    BY <1>1, <1>12, <2>1, <2>2, EndOfLineType, Negative DEF Failed
  <2>4. /\ methodC \in i + 1 .. Len(b) /\ pathC \in i + 1 .. Len(b) /\ pathEndC \in i + 1 .. Len(b)
        /\ versionC \in i + 1 .. Len(b) /\ endC \in 1 .. Len(b)
    BY <1>1, <1>12, <2>1, <2>2, <2>3
  <2>5. methodB = methodC /\ methodB \in i .. Len(b)
    BY <1>1, <1>5, <2>4 DEF Agree
  <2>6. pathB = pathC /\ pathB \in i .. Len(b)
    BY <1>1, <1>6, <2>4, <2>5
  <2>7. pathEndB = pathEndC /\ pathEndB \in i .. Len(b)
    BY <1>1, <1>7, <2>4, <2>6 DEF Agree
  <2>8. versionB = versionC /\ versionB \in i .. Len(b)
    BY <1>1, <1>8, <2>4, <2>7
  <2>9. endB = endC
    BY <1>1, <1>9, <2>4, <2>8 DEF Agree
  <2>10. c[endC] = b[endB] /\ Agree(EndOfLine(b, endB), EndOfLine(c, endC), Len(b) + 1)
    BY <1>10, <2>4, <2>9
  <2>11. EndOfLine(b, endB) = q
    BY <1>12, <2>1, <2>10 DEF Agree
  <2>12. /\ ~(methodB < 0) /\ ~(pathB > Len(b)) /\ ~(pathEndB < 0) /\ ~(versionB > Len(b))
         /\ ~(methodB = i \/ pathEndB = pathB) /\ ~(endB < 0) /\ b[endB] \in Newline
    BY <1>1, <2>1, <2>4, <2>5, <2>6, <2>7, <2>8, <2>9, <2>10
  <2>13. QED  BY <1>2, <2>11, <2>12
<1>13. QED  BY <1>11, <1>12 DEF Agree, p, q

(* Where the request line begins. *)
LineStart(b) == IF b[1] \in Newline THEN EndOfLine(b, 1) ELSE 1

(* A request line begins at the start or behind one empty line.              *)
LEMMA LineStartType ==
  ASSUME NEW b, Len(b) \in Nat \ {0}
  PROVE  LET i == LineStart(b)
         IN Failed(i) \/ (i \in 1 .. Len(b) + 1 /\ (i = 1 \/ WholeLine(b, 1, i)))
<1>1. CASE b[1] \in Newline
  <2>1. 1 \in 1 .. Len(b) /\ Len(b) \in Nat
    OBVIOUS
  <2> DEFINE i == EndOfLine(b, 1)
  <2>2. Failed(i) \/ i \in 2 .. Len(b) + 1
    <3>1. Failed(i) \/ i \in 1 + 1 .. Len(b) + 1
      BY <1>1, <2>1, EndOfLineType
    <3>2. QED  BY <3>1
  <2>3. i >= 0 => WholeLine(b, 1, i)
    BY <1>1, <2>1, EndOfLineLine
  <2>4. LineStart(b) = i
    BY <1>1 DEF LineStart
  <2> HIDE DEF i
  <2>5. QED  BY <2>2, <2>3, <2>4
<1>2. CASE b[1] \notin Newline
  BY <1>2 DEF LineStart
<1>3. QED  BY <1>1, <1>2

(* Where it begins is the same when more arrives.                            *)
LEMMA LineStartPre ==
  ASSUME NEW b, NEW c, Pre(b, c), Len(b) # 0
  PROVE  Agree(LineStart(b), LineStart(c), Len(b) + 1)
<1>1. 1 \in 1 .. Len(b) /\ c[1] = b[1]
  BY DEF Pre
<1>2. CASE b[1] \in Newline
  BY <1>1, <1>2, EndOfLinePre DEF LineStart
<1>3. CASE b[1] \notin Newline
  BY <1>1, <1>3 DEF LineStart, Agree
<1>4. QED  BY <1>2, <1>3

(* What is before the headers of a request: its line, behind at most one empty one.*)
LEMMA RequestType ==
  ASSUME NEW S, NEW b \in Seq(S)
  PROVE  LET i == LineStart(b)
             p == Request(b)
         IN \/ Failed(p)
            \/ /\ b # <<>> /\ i \in 1 .. Len(b) + 1 /\ (i = 1 \/ WholeLine(b, 1, i))
               /\ WholeLine(b, i, p)
<1> DEFINE i == LineStart(b)
<1>1. Request(b) = IF b = <<>> THEN EOF ELSE IF i < 0 THEN i ELSE RequestLine(b, i)
  BY DEF Request, LineStart
<1>2. CASE b = <<>>
  BY <1>1, <1>2 DEF Failed
<1>3. CASE b # <<>>
  <2>1. Len(b) \in Nat \ {0}
    BY <1>3
  <2>2. Failed(i) \/ (i \in 1 .. Len(b) + 1 /\ (i = 1 \/ WholeLine(b, 1, i)))
    BY <2>1, LineStartType
  <2> HIDE DEF i
  <2>3. CASE Failed(i)
    <3>1. Failed(Request(b))
      BY <1>1, <1>3, <2>3, Negative DEF Failed
    <3>2. QED  BY <3>1
  <2>4. CASE i \in 1 .. Len(b) + 1 /\ (i = 1 \/ WholeLine(b, 1, i))
    <3>1. i \in Nat \ {0} /\ i <= Len(b) + 1 /\ Len(b) \in Nat /\ ~(i < 0)
      BY <2>1, <2>4
    <3>2. Failed(RequestLine(b, i)) \/ WholeLine(b, i, RequestLine(b, i))
      BY <3>1, RequestLineType
    <3>3. Request(b) = RequestLine(b, i)
      BY <1>1, <1>3, <3>1
    <3>4. QED  BY <1>3, <2>4, <3>2, <3>3 DEF i
  <2>5. QED  BY <2>2, <2>3, <2>4
<1>4. QED  BY <1>2, <1>3

(* Where the headers of a request begin is the same when more arrives.       *)
LEMMA RequestPre ==
  ASSUME NEW S, NEW b \in Seq(S), NEW c \in Seq(S), Pre(b, c)
  PROVE  Agree(Request(b), Request(c), Len(b) + 1)
<1> DEFINE i == LineStart(b)
           j == LineStart(c)
<1>1. Request(b) = IF b = <<>> THEN EOF ELSE IF i < 0 THEN i ELSE RequestLine(b, i)
  BY DEF Request, LineStart
<1>2. Request(c) = IF c = <<>> THEN EOF ELSE IF j < 0 THEN j ELSE RequestLine(c, j)
  BY DEF Request, LineStart
<1>3. \/ Failed(Request(c))
      \/ j \in 1 .. Len(c) + 1 /\ Request(c) \in j + 1 .. Len(c) + 1 /\ Len(c) # 0
  <2>1. \/ Failed(Request(c))
        \/ c # <<>> /\ j \in 1 .. Len(c) + 1 /\ WholeLine(c, j, Request(c))
    BY RequestType
  <2> HIDE DEF j
  <2>2. QED  BY <2>1 DEF WholeLine
<1>4. Len(b) \in Nat /\ Len(c) \in Nat /\ Len(b) <= Len(c) /\ (b = <<>> <=> Len(b) = 0)
  BY DEF Pre
<1>5. CASE b = <<>>
  <2> HIDE DEF j
  <2>1. QED  BY <1>1, <1>3, <1>4, <1>5, Negative DEF Agree, Failed
<1>6. CASE b # <<>>
  <2>1. Len(b) \in Nat \ {0} /\ c # <<>>
    BY <1>4, <1>6
  <2>2. Failed(i) \/ i \in 1 .. Len(b) + 1
    BY <2>1, LineStartType
  <2>3. Agree(i, j, Len(b) + 1)
    BY <2>1, LineStartPre
  <2> HIDE DEF i, j
  <2>4. CASE i = EOF
    <3>1. Request(b) = EOF
      BY <1>1, <1>6, <2>4, Negative
    <3>2. SUFFICES ASSUME 0 <= Request(c), Request(c) <= Len(b) + 1 PROVE FALSE
      BY <3>1 DEF Agree
    <3>3. j \in 1 .. Len(c) + 1 /\ Request(c) \in j + 1 .. Len(c) + 1
      BY <1>3, <3>2, Negative DEF Failed
    <3>4. 0 <= j /\ j <= Len(b) + 1
      BY <1>4, <3>2, <3>3
    <3>5. QED  BY <2>3, <2>4, <3>4, Negative DEF Agree
  <2>5. CASE i = BAD
    BY <1>1, <1>2, <1>6, <2>1, <2>3, <2>5, Negative DEF Agree
  <2>6. CASE i \in 1 .. Len(b) + 1
    <3>1. j = i /\ ~(i < 0) /\ i \in Nat \ {0} /\ i <= Len(b) + 1
      BY <1>4, <2>3, <2>6, Negative DEF Agree
    <3>2. Request(b) = RequestLine(b, i) /\ Request(c) = RequestLine(c, i)
      BY <1>1, <1>2, <1>6, <2>1, <3>1
    <3>3. QED  BY <3>1, <3>2, RequestLinePre
  <2>7. QED  BY <2>2, <2>4, <2>5, <2>6 DEF Failed
<1>7. QED  BY <1>5, <1>6

(* The octets that are left are at least the characters that are left.       *)
LEMMA LeftIsLength ==
  ASSUME NEW b, Len(b) \in Nat, NEW i \in Nat \ {0}, i <= Len(b) + 1
  PROVE  /\ Left(b, i) \in Int /\ Left(b, i) >= Len(b) - i + 1
         /\ (\A k \in i .. Len(b) : b[k] # "HTTP/1.") => Left(b, i) = Len(b) - i + 1
<1> DEFINE V == {j \in i .. Len(b) : b[j] = "HTTP/1."}
           n == Cardinality(V)
<1>1. i \in Int /\ Len(b) \in Int
  OBVIOUS
<1>2. IsFiniteSet(V) /\ n \in Nat
  <2>1. IsFiniteSet(i .. Len(b))
    BY <1>1, FS_Interval
  <2>2. V \subseteq i .. Len(b)
    OBVIOUS
  <2>3. IsFiniteSet(V)
    BY <2>1, <2>2, FS_Subset
  <2>4. QED  BY <2>3, FS_CardinalityType
<1>3. Left(b, i) = Len(b) - i + 1 + 6 * n
  BY DEF Left
<1>4. (\A k \in i .. Len(b) : b[k] # "HTTP/1.") => V = {}
  OBVIOUS
<1>5. V = {} => n = 0
  BY FS_EmptySet
<1> HIDE DEF V, n
<1>6. QED  BY <1>1, <1>2, <1>3, <1>4, <1>5

(* Of a status line that is one, the parts lie behind each other. *)
LEMMA ResponseParts ==
  ASSUME NEW b, Len(b) \in Nat
  PROVE  LET version == HttpVersion(b, 1)
             status == Skip(b, version + 1, {"SP"})
             p == Response(b)
         IN \/ Failed(p)
            \/ /\ version = 3 /\ version <= Len(b) /\ b[version] = "SP"
               /\ status \in 4 .. Len(b) /\ status + 3 <= Len(b) /\ Left(b, status) >= 4
               /\ \A k \in status .. status + 2 : b[k] = "1"
               /\ p \in status + 4 .. Len(b) + 1 /\ p = TokenToEol(b, status + 3)
               /\ b[status + 3] \in Newline \cup {"SP"}
               /\ WholeLine(b, 1, p)
<1> DEFINE version == HttpVersion(b, 1)
           status == Skip(b, version + 1, {"SP"})
           end == TokenToEol(b, status + 3)
           p == Response(b)
<1>1. p = IF version < 0 THEN version
          ELSE IF b[version] # "SP" THEN BAD
          ELSE IF status > Len(b) \/ Left(b, status) < 4 THEN EOF
          ELSE IF \E k \in status .. status + 2 : k > Len(b) \/ b[k] # "1" THEN BAD
          ELSE IF end < 0 THEN end
          ELSE IF b[status + 3] \in Newline \cup {"SP"} THEN end ELSE BAD
  BY DEF Response
<1>2. /\ Failed(version) \/ (version = 1 + 2 /\ 1 + 2 <= Len(b))
      /\ version >= 0 => b[1] = "HTTP/1." /\ b[1 + 1] = "1"
  BY HttpVersionType
<1> HIDE DEF version, p
<1> SUFFICES ASSUME ~Failed(p)
             PROVE  /\ version = 3 /\ version <= Len(b) /\ b[version] = "SP"
                    /\ status \in 4 .. Len(b) /\ status + 3 <= Len(b) /\ Left(b, status) >= 4
                    /\ \A k \in status .. status + 2 : b[k] = "1"
                    /\ p \in status + 4 .. Len(b) + 1 /\ p = end
                    /\ b[status + 3] \in Newline \cup {"SP"}
                    /\ WholeLine(b, 1, p)
  BY DEF version, p
<1>3. version = 3 /\ 3 <= Len(b) /\ b[1] = "HTTP/1." /\ b[2] = "1" /\ version + 1 = 4
  BY <1>1, <1>2, Negative DEF Failed
<1>4. b[3] = "SP" /\ b[version] = "SP"
  BY <1>1, <1>3 DEF Failed
<1>5. status \in 4 .. Len(b) + 1 /\ \A k \in 4 .. status - 1 : b[k] = "SP"
  <2>1. 4 <= Len(b) + 1 /\ 4 \in Nat
    BY <1>3
  <2>2. /\ Skip(b, 4, {"SP"}) \in 4 .. Len(b) + 1
        /\ \A k \in 4 .. Skip(b, 4, {"SP"}) - 1 : b[k] \in {"SP"}
    BY <2>1, SkipType
  <2>3. status = Skip(b, 4, {"SP"})
    BY <1>3
  <2> HIDE DEF status
  <2>4. QED  BY <2>2, <2>3
<1> HIDE DEF status
<1>6. ~(status > Len(b) \/ Left(b, status) < 4)
  BY <1>1, <1>3, <1>4 DEF Failed
<1>7. \A k \in status .. status + 2 : ~(k > Len(b)) /\ b[k] = "1"
  BY <1>1, <1>3, <1>4, <1>6 DEF Failed
<1>8. status \in 4 .. Len(b) /\ status + 2 <= Len(b) /\ Left(b, status) \in Int
  <2>1. status \in 4 .. Len(b)
    BY <1>5, <1>6
  <2>2. status + 2 \in status .. status + 2
    BY <2>1
  <2>3. status \in Nat \ {0} /\ status <= Len(b) + 1
    BY <2>1
  <2>4. Left(b, status) \in Int
    BY <2>3, LeftIsLength
  <2>5. QED  BY <1>7, <2>1, <2>2, <2>4
<1>9. p = IF end < 0 THEN end ELSE IF b[status + 3] \in Newline \cup {"SP"} THEN end ELSE BAD
  <2> HIDE DEF end
  <2>1. QED  BY <1>1, <1>3, <1>4, <1>6, <1>7, <1>8
<1>10. Failed(end) \/ end \in status + 4 .. Len(b) + 1
  <2>1. status + 3 \in Nat \ {0} /\ status + 3 <= Len(b) + 1
    BY <1>8
  <2>2. Failed(end) \/ end \in (status + 3) + 1 .. Len(b) + 1
    BY <2>1, TokenToEolType
  <2> HIDE DEF end
  <2>3. (status + 3) + 1 = status + 4
    BY <1>8
  <2>4. QED  BY <2>2, <2>3
<1>11. /\ p \in status + 4 .. Len(b) + 1 /\ p = end /\ end >= 0
       /\ b[status + 3] \in Newline \cup {"SP"}
  <2> HIDE DEF end
  <2>1. QED  BY <1>8, <1>9, <1>10, Negative DEF Failed
<1>12. WholeLine(b, 1, p)
  <2>1. status + 3 \in Nat \ {0} /\ status + 3 <= Len(b) + 1 /\ status + 3 \in Int /\ 1 <= status + 3
    BY <1>8
  <2>2. WholeLine(b, status + 3, end)
    BY <1>11, <2>1, TokenToEolLine
  <2>3. Plain(b, 1, status + 3)
    <3> SUFFICES ASSUME NEW k \in 1 .. (status + 3) - 1 PROVE b[k] \in {"HTTP/1.", "1", "SP"}
      BY DEF Plain, Newline
    <3>1. k = 1 \/ k = 2 \/ k = 3 \/ k \in 4 .. status - 1 \/ k \in status .. status + 2
      BY <1>8
    <3>2. QED  BY <1>3, <1>4, <1>5, <1>7, <3>1
  <2> HIDE DEF end
  <2>4. WholeLine(b, 1, end)
    BY <2>1, <2>2, <2>3, LineJoin
  <2>5. QED  BY <1>11, <2>4
<1>13. status + 3 <= Len(b) /\ Left(b, status) >= 4
  BY <1>6, <1>8, <1>11
<1>14. QED
  BY <1>3, <1>4, <1>7, <1>8, <1>11, <1>12, <1>13

(* Where the headers of a response begin is the same when more arrives.      *)
LEMMA ResponsePre ==
  ASSUME NEW b, NEW c, Pre(b, c)
  PROVE  Agree(Response(b), Response(c), Len(b) + 1)
<1>1. /\ Len(b) \in Nat /\ Len(c) \in Nat /\ Len(b) <= Len(c)
      /\ \A x \in 1 .. Len(b) : c[x] = b[x]
  BY DEF Pre
<1> DEFINE versionB == HttpVersion(b, 1)
           statusB == Skip(b, versionB + 1, {"SP"})
           endB == TokenToEol(b, statusB + 3)
           p == Response(b)
           versionC == HttpVersion(c, 1)
           statusC == Skip(c, versionC + 1, {"SP"})
           endC == TokenToEol(c, statusC + 3)
           q == Response(c)
<1>2. p = IF versionB < 0 THEN versionB
          ELSE IF b[versionB] # "SP" THEN BAD
          ELSE IF statusB > Len(b) \/ Left(b, statusB) < 4 THEN EOF
          ELSE IF \E k \in statusB .. statusB + 2 : k > Len(b) \/ b[k] # "1" THEN BAD
          ELSE IF endB < 0 THEN endB
          ELSE IF b[statusB + 3] \in Newline \cup {"SP"} THEN endB ELSE BAD
  BY DEF Response
<1>3. q = IF versionC < 0 THEN versionC
          ELSE IF c[versionC] # "SP" THEN BAD
          ELSE IF statusC > Len(c) \/ Left(c, statusC) < 4 THEN EOF
          ELSE IF \E k \in statusC .. statusC + 2 : k > Len(c) \/ c[k] # "1" THEN BAD
          ELSE IF endC < 0 THEN endC
          ELSE IF c[statusC + 3] \in Newline \cup {"SP"} THEN endC ELSE BAD
  BY DEF Response
<1>4. /\ Failed(versionB) \/ (versionB = 1 + 2 /\ 1 + 2 <= Len(b))
      /\ Agree(versionB, versionC, Len(b))
  BY <1>1, HttpVersionType, HttpVersionPre
<1>5. \/ Failed(q)
      \/ /\ versionC = 3 /\ c[versionC] = "SP"
         /\ statusC \in 4 .. Len(c) /\ statusC + 3 <= Len(c)
         /\ \A k \in statusC .. statusC + 2 : c[k] = "1"
         /\ q \in statusC + 4 .. Len(c) + 1 /\ q = endC
         /\ c[statusC + 3] \in Newline \cup {"SP"}
  <2> HIDE DEF versionC, statusC, q
  <2>1. QED  BY <1>1, ResponseParts DEF versionC, statusC, q
<1> HIDE DEF versionB, versionC, p, q
<1>6. ASSUME versionB = 3, 3 <= Len(b), versionC = versionB
      PROVE  /\ statusB \in 4 .. Len(b) + 1
             /\ statusB <= Len(b) \/ statusC <= Len(b) => statusC = statusB
  <2>1. versionB + 1 \in Nat \ {0} /\ versionB + 1 <= Len(b) + 1 /\ versionB + 1 = 4
    BY <1>6
  <2>2. statusB \in versionB + 1 .. Len(b) + 1
    BY <1>1, <2>1, SkipType
  <2>3. statusB <= Len(b) \/ statusC <= Len(b) => statusC = statusB
    BY <1>6, <2>1, SkipPre
  <2> HIDE DEF statusB, statusC
  <2>4. QED  BY <2>1, <2>2, <2>3
<1> HIDE DEF statusB, statusC
<1>7. ASSUME statusB \in 4 .. Len(b), statusC = statusB
      PROVE  /\ Left(b, statusB) \in Int /\ Left(b, statusB) >= Len(b) - statusB + 1
             /\ (\A k \in statusB .. Len(b) : b[k] # "HTTP/1.") =>
                  Left(b, statusB) = Len(b) - statusB + 1
             /\ Left(c, statusC) \in Int /\ Left(b, statusB) <= Left(c, statusC)
             /\ statusB + 3 <= Len(b) + 1 => Agree(endB, endC, Len(b) + 1)
  <2>1. statusB \in Nat \ {0} /\ statusB <= Len(b) + 1 /\ statusB <= Len(c) + 1
    BY <1>1, <1>7
  <2>2. statusB + 3 \in Nat \ {0}
    BY <2>1
  <2>3. QED  BY <1>1, <1>7, <2>1, <2>2, LeftIsLength, LeftPre, TokenToEolPre
<1>8. ASSUME statusB \in 4 .. Len(b), statusB + 2 <= Len(b)
      PROVE  Failed(endB) \/ endB \in statusB + 4 .. Len(b) + 1
  <2>1. statusB + 3 \in Nat \ {0} /\ statusB + 3 <= Len(b) + 1
    BY <1>1, <1>8
  <2>2. Failed(endB) \/ endB \in (statusB + 3) + 1 .. Len(b) + 1
    BY <1>1, <2>1, TokenToEolType
  <2> HIDE DEF endB
  <2>3. (statusB + 3) + 1 = statusB + 4
    BY <1>8
  <2>4. QED  BY <2>2, <2>3
<1> HIDE DEF endB, endC
<1>9. ASSUME p # EOF PROVE q = p
  <2>1. CASE versionB = BAD
    BY <1>2, <1>3, <1>4, <2>1, Negative DEF Agree
  <2>2. CASE versionB = 3 /\ 3 <= Len(b)
    <3>1. versionC = 3 /\ ~(versionB < 0) /\ c[3] = b[3]
      BY <1>1, <1>4, <2>2, Negative DEF Agree
    <3>2. CASE b[3] # "SP"
      BY <1>2, <1>3, <2>2, <3>1, <3>2
    <3>3. CASE b[3] = "SP"
      <4>1. ~(statusB > Len(b)) /\ ~(Left(b, statusB) < 4)
        BY <1>2, <1>9, <2>2, <3>1, <3>3
      <4>2. statusC = statusB /\ statusB \in 4 .. Len(b)
        BY <1>1, <1>6, <2>2, <3>1, <4>1
      <4>3. ~(statusC > Len(c)) /\ ~(Left(c, statusC) < 4) /\ Left(b, statusB) >= 4
        BY <1>1, <1>7, <4>1, <4>2
      <4>4. q = IF \E k \in statusC .. statusC + 2 : k > Len(c) \/ c[k] # "1" THEN BAD
                ELSE IF endC < 0 THEN endC
                ELSE IF c[statusC + 3] \in Newline \cup {"SP"} THEN endC ELSE BAD
        BY <1>3, <3>1, <3>3, <4>3
      <4>5. p = IF \E k \in statusB .. statusB + 2 : k > Len(b) \/ b[k] # "1" THEN BAD
                ELSE IF endB < 0 THEN endB
                ELSE IF b[statusB + 3] \in Newline \cup {"SP"} THEN endB ELSE BAD
        BY <1>2, <2>2, <3>1, <3>3, <4>1
      <4>6. CASE \E k \in statusB .. statusB + 2 : k > Len(b) \/ b[k] # "1"
        <5>1. PICK k \in statusB .. statusB + 2 : k <= Len(b) /\ b[k] # "1"
          <6>1. CASE \E k \in statusB .. statusB + 2 : ~(k > Len(b)) /\ b[k] # "1"
            BY <1>1, <4>2, <6>1
          <6>2. CASE ~ \E k \in statusB .. statusB + 2 : ~(k > Len(b)) /\ b[k] # "1"
            <7>1. PICK k \in statusB .. statusB + 2 : k > Len(b)
              BY <4>6, <6>2
            <7>2. \A j \in statusB .. Len(b) : j \in statusB .. statusB + 2 /\ ~(j > Len(b))
              BY <1>1, <4>2, <7>1
            <7>3. \A j \in statusB .. Len(b) : b[j] # "HTTP/1."
              BY <6>2, <7>2
            <7>4. Left(b, statusB) = Len(b) - statusB + 1
              BY <1>7, <4>2, <7>3
            <7>5. FALSE
              BY <1>1, <4>2, <4>3, <7>1, <7>4
            <7>6. QED  BY <7>5
          <6>3. QED  BY <6>1, <6>2
        <5>2. k \in statusC .. statusC + 2 /\ c[k] # "1"
          BY <1>1, <4>2, <5>1
        <5>3. QED  BY <4>4, <4>5, <4>6, <5>2
      <4>7. CASE ~ \E k \in statusB .. statusB + 2 : k > Len(b) \/ b[k] # "1"
        <5>1. \A k \in statusB .. statusB + 2 : k <= Len(b) /\ c[k] = "1" /\ ~(k > Len(c))
          BY <1>1, <4>2, <4>7
        <5>2. statusB + 2 <= Len(b)
          BY <4>2, <5>1
        <5>3. Agree(endB, endC, Len(b) + 1)
          BY <1>1, <1>7, <4>2, <5>2
        <5>4. Failed(endB) \/ endB \in statusB + 4 .. Len(b) + 1
          BY <1>8, <4>2, <5>2
        <5>5. p = IF endB < 0 THEN endB
                  ELSE IF b[statusB + 3] \in Newline \cup {"SP"} THEN endB ELSE BAD
          BY <4>5, <4>7
        <5>6. q = IF endC < 0 THEN endC
                  ELSE IF c[statusC + 3] \in Newline \cup {"SP"} THEN endC ELSE BAD
          BY <4>2, <4>4, <5>1
        <5>7. endB # EOF /\ endC = endB
          BY <1>9, <5>3, <5>5, Negative DEF Agree
        <5>8. CASE endB = BAD
          BY <5>5, <5>6, <5>7, <5>8, Negative
        <5>9. CASE endB \in statusB + 4 .. Len(b) + 1
          <6>1. c[statusC + 3] = b[statusB + 3]
            BY <1>1, <4>2, <5>9
          <6>2. QED  BY <5>5, <5>6, <5>7, <6>1
        <5>10. QED  BY <5>4, <5>7, <5>8, <5>9 DEF Failed
      <4>8. QED  BY <4>6, <4>7
    <3>4. QED  BY <3>2, <3>3
  <2>3. versionB # EOF
    BY <1>2, <1>9, Negative
  <2>4. QED  BY <1>4, <2>1, <2>2, <2>3 DEF Failed
<1>10. ASSUME 0 <= q, q <= Len(b) + 1 PROVE p = q
  <2>1. /\ versionC = 3 /\ c[versionC] = "SP"
        /\ statusC \in 4 .. Len(c) /\ statusC + 3 <= Len(c)
        /\ \A k \in statusC .. statusC + 2 : c[k] = "1"
        /\ q \in statusC + 4 .. Len(c) + 1 /\ q = endC
        /\ c[statusC + 3] \in Newline \cup {"SP"}
    BY <1>5, <1>10, Negative DEF Failed
  <2>2. statusC \in 4 .. Len(b) /\ statusC + 3 <= Len(b)
    BY <1>1, <1>10, <2>1
  <2>3. versionB = 3 /\ 3 <= Len(b) /\ b[3] = "SP"
    BY <1>1, <1>4, <2>1, <2>2 DEF Agree
  <2>4. statusB = statusC
    BY <1>1, <1>6, <2>1, <2>2, <2>3
  <2>5. Left(b, statusB) \in Int /\ Left(b, statusB) >= Len(b) - statusB + 1 /\ Agree(endB, endC, Len(b) + 1)
    BY <1>1, <1>7, <2>2, <2>4
  <2>6. endB = q
    BY <1>10, <2>1, <2>5 DEF Agree
  <2>7. \A k \in statusB .. statusB + 2 : ~(k > Len(b)) /\ b[k] = "1"
    BY <1>1, <2>1, <2>2, <2>4
  <2>8. b[statusB + 3] \in Newline \cup {"SP"} /\ ~(statusB > Len(b)) /\ ~(Left(b, statusB) < 4)
    BY <1>1, <2>1, <2>2, <2>4, <2>5
  <2>9. QED  BY <1>2, <1>10, <2>3, <2>6, <2>7, <2>8
<1>11. QED  BY <1>9, <1>10 DEF Agree, p, q
-----------------------------------------------------------------------------
(* Whole lines from i on, the last of which ends before p. *)
Lines(b, i, p) == /\ p \in i .. Len(b) + 1 /\ Clean(b, i, p)
                  /\ p = i \/ b[p - 1] = "LF"

(* Lines and one more.                                                       *)
LEMMA LinesAdd ==
  ASSUME NEW b, Len(b) \in Nat, NEW i \in Int, NEW j, NEW p, Lines(b, i, j), WholeLine(b, j, p)
  PROVE  Lines(b, i, p) /\ p > j /\ p \in Int /\ b[p - 1] = "LF"
<1>1. j \in i .. Len(b) + 1 /\ p \in j + 1 .. Len(b) + 1 /\ b[p - 1] = "LF"
  BY DEF WholeLine, Lines
<1>2. Clean(b, i, p)
  BY <1>1, CleanJoin DEF WholeLine, Lines
<1>3. QED  BY <1>1, <1>2 DEF Lines

(* No lines.                                                                 *)
LEMMA LinesBegun == ASSUME NEW b, Len(b) \in Nat, NEW i \in 1 .. Len(b) + 1 PROVE Lines(b, i, i)
  BY DEF Lines, Clean

Kinds == {"request", "response", "headers"}

(* What is before the headers are whole lines.                               *)
LEMMA HeadersBeginType ==
  ASSUME NEW S, NEW b \in Seq(S), NEW w \in Kinds
  PROVE  Failed(HeadersBegin(w, b)) \/ Lines(b, 1, HeadersBegin(w, b))
<1>1. Len(b) \in Nat /\ 1 \in Int
  OBVIOUS
<1>2. Lines(b, 1, 1)
  BY <1>1, LinesBegun
<1>3. CASE w = "request"
  <2> DEFINE i == LineStart(b)
             p == Request(b)
  <2>1. \/ Failed(p)
        \/ b # <<>> /\ i \in 1 .. Len(b) + 1 /\ (i = 1 \/ WholeLine(b, 1, i)) /\ WholeLine(b, i, p)
    BY RequestType
  <2>2. HeadersBegin(w, b) = p
    BY <1>3 DEF HeadersBegin
  <2> HIDE DEF i, p
  <2>3. ASSUME ~Failed(p) PROVE Lines(b, 1, p)
    <3>1. Lines(b, 1, i)
      BY <1>1, <1>2, <2>1, <2>3, LinesAdd
    <3>2. QED  BY <1>1, <2>1, <2>3, <3>1, LinesAdd
  <2>4. QED  BY <2>2, <2>3
<1>4. CASE w = "response"
  <2> DEFINE p == Response(b)
  <2>1. Failed(p) \/ WholeLine(b, 1, p)
    BY <1>1, ResponseParts
  <2>2. HeadersBegin(w, b) = p
    BY <1>4 DEF HeadersBegin
  <2> HIDE DEF p
  <2>3. QED  BY <1>1, <1>2, <2>1, <2>2, LinesAdd
<1>5. CASE w = "headers"
  BY <1>2, <1>5 DEF HeadersBegin
<1>6. QED  BY <1>3, <1>4, <1>5 DEF Kinds

(* Where the headers begin is the same when more arrives.                    *)
LEMMA HeadersBeginPre ==
  ASSUME NEW S, NEW b \in Seq(S), NEW c \in Seq(S), Pre(b, c), NEW w \in Kinds
  PROVE  Agree(HeadersBegin(w, b), HeadersBegin(w, c), Len(b) + 1)
<1>1. CASE w = "request"
  <2>1. HeadersBegin(w, b) = Request(b) /\ HeadersBegin(w, c) = Request(c)
    BY <1>1 DEF HeadersBegin
  <2>2. QED  BY <2>1, RequestPre
<1>2. CASE w = "response"
  <2>1. HeadersBegin(w, b) = Response(b) /\ HeadersBegin(w, c) = Response(c)
    BY <1>2 DEF HeadersBegin
  <2>2. QED  BY <2>1, ResponsePre
<1>3. CASE w = "headers"
  BY <1>3 DEF HeadersBegin, Agree
<1>4. QED  BY <1>1, <1>2, <1>3 DEF Kinds

-----------------------------------------------------------------------------
(* The loop over the headers: the step it takes from i,                      *)
Rests(b, i) == i < 0 \/ i > Len(b) \/ b[i] \in Newline
Behind(b, i, k) == IF Rests(b, i) THEN i ELSE HeaderLine(b, i, k)
AtHeaderOf(b, start, at, k) == IF k = 0 THEN start ELSE Behind(b, at[k - 1], k - 1)

(* The loop over the headers is a function that is defined for every header. *)
LEMMA AtHeaderExists ==
  ASSUME NEW b, NEW start
  PROVE  \E f : f = [k \in 0 .. MaxHeaders |-> AtHeaderOf(b, start, f, k)]
<1> DEFINE Is(f, m) == f = [k \in 0 .. m |-> AtHeaderOf(b, start, f, k)]
           S == {m \in 0 .. MaxHeaders : \E f : Is(f, m)}
<1>1. MaxHeaders \in Nat
  BY HeadersAssumption, MessagesAssumption
<1>2. 0 \in S
  <2> DEFINE f == [k \in 0 .. 0 |-> start]
  <2>1. 0 .. 0 = {0} /\ 0 \in 0 .. MaxHeaders
    BY <1>1
  <2>2. f = [k \in 0 .. 0 |-> AtHeaderOf(b, start, f, k)]
    BY <2>1 DEF AtHeaderOf
  <2> HIDE DEF f
  <2>3. QED  BY <2>1, <2>2
<1>3. ASSUME NEW m \in 0 .. MaxHeaders - 1, m \in S PROVE m + 1 \in S
  <2>1. m \in Nat /\ m + 1 \in 0 .. MaxHeaders
    BY <1>1
  <2>2. PICK f : f = [k \in 0 .. m |-> AtHeaderOf(b, start, f, k)]
    BY <1>3
  <2> DEFINE g == [k \in 0 .. m + 1 |-> IF k = m + 1 THEN Behind(b, f[m], m) ELSE f[k]]
  <2>3. \A k \in 0 .. m : g[k] = f[k]
    BY <2>1
  <2>4. ASSUME NEW k \in 0 .. m + 1
        PROVE  g[k] = AtHeaderOf(b, start, g, k)
    <3>1. CASE k = m + 1
      <4>1. k # 0 /\ k - 1 = m /\ m \in 0 .. m
        BY <2>1, <3>1
      <4>2. g[k] = Behind(b, f[m], m)
        BY <3>1
      <4>3. g[k - 1] = f[m]
        BY <2>3, <4>1
      <4> HIDE DEF g
      <4>4. QED  BY <4>1, <4>2, <4>3 DEF AtHeaderOf
    <3>2. CASE k # m + 1
      <4>1. k \in 0 .. m /\ (k # 0 => k - 1 \in 0 .. m)
        BY <2>1, <3>2
      <4>2. f[k] = AtHeaderOf(b, start, f, k)
        BY <2>2, <4>1
      <4> HIDE DEF g
      <4>3. QED  BY <2>3, <4>1, <4>2 DEF AtHeaderOf
    <3>3. QED  BY <3>1, <3>2
  <2>5. g = [k \in 0 .. m + 1 |-> g[k]]
    OBVIOUS
  <2> HIDE DEF g
  <2>6. g = [k \in 0 .. m + 1 |-> AtHeaderOf(b, start, g, k)]
    BY <2>4, <2>5
  <2>7. QED  BY <2>1, <2>6
<1>4. MaxHeaders \in S
  <2>1. \A d \in 0 .. MaxHeaders - 1 : d \in S => d + 1 \in S
    BY <1>3
  <2> HIDE DEF S
  <2>2. \A m \in 0 .. MaxHeaders : m \in S
    BY <1>1, <1>2, <2>1, SetInduction
  <2>3. QED  BY <1>1, <2>2
<1>5. QED  BY <1>4

(* so AtHeader takes it, header by header,                                   *)
LEMMA AtHeaderIs ==
  ASSUME NEW b, NEW start
  PROVE  /\ AtHeader(b, start)[0] = start
         /\ \A k \in 0 .. MaxHeaders - 1 : AtHeader(b, start)[k + 1] = Behind(b, AtHeader(b, start)[k], k)
<1> DEFINE f == CHOOSE f : f = [k \in 0 .. MaxHeaders |-> AtHeaderOf(b, start, f, k)]
<1>1. MaxHeaders \in Nat
  BY HeadersAssumption, MessagesAssumption
<1>2. f = [k \in 0 .. MaxHeaders |-> AtHeaderOf(b, start, f, k)]
  BY AtHeaderExists
<1>3. AtHeader(b, start) = f
  BY DEF AtHeader, AtHeaderOf, Behind, Rests
<1> HIDE DEF f
<1>4. f[0] = start
  <2>1. 0 \in 0 .. MaxHeaders
    BY <1>1
  <2>2. QED  BY <1>2, <2>1 DEF AtHeaderOf
<1>5. ASSUME NEW k \in 0 .. MaxHeaders - 1 PROVE f[k + 1] = Behind(b, f[k], k)
  <2>1. k + 1 \in 0 .. MaxHeaders /\ k + 1 # 0 /\ (k + 1) - 1 = k
    BY <1>1
  <2>2. f[k + 1] = AtHeaderOf(b, start, f, k + 1)
    BY <1>2, <2>1
  <2>3. QED  BY <2>1, <2>2 DEF AtHeaderOf
<1>6. QED  BY <1>3, <1>4, <1>5

(* over whole lines or to a failure,                                         *)
LEMMA BehindType ==
  ASSUME NEW b, Len(b) \in Nat, NEW start \in 1 .. Len(b) + 1, NEW i, NEW k,
         Failed(i) \/ Lines(b, start, i)
  PROVE  LET p == Behind(b, i, k)
         IN /\ Failed(p) \/ Lines(b, start, p)
            /\ p >= 0 => i >= 0 /\ p >= i
            /\ i < 0 => p = i
            /\ p # i /\ p >= 0 => i \in start .. Len(b) /\ b[i] \notin Newline
                                  /\ p = HeaderLine(b, i, k)
<1> DEFINE p == Behind(b, i, k)
<1>1. Failed(i) \/ i \in start .. Len(b) + 1
  BY DEF Lines
<1>2. CASE Rests(b, i)
  <2>1. p = i
    BY <1>2 DEF Behind
  <2> HIDE DEF p
  <2>2. QED  BY <1>1, <2>1, Negative DEF Failed, p
<1>3. CASE ~Rests(b, i)
  <2>1. i \in start .. Len(b) /\ i \in 1 .. Len(b) /\ b[i] \notin Newline
    BY <1>1, <1>3, Negative DEF Rests, Failed
  <2>2. p = HeaderLine(b, i, k)
    BY <1>3 DEF Behind
  <2>3. Failed(HeaderLine(b, i, k)) \/ WholeLine(b, i, HeaderLine(b, i, k))
    BY <2>1, HeaderLineType
  <2> HIDE DEF p
  <2>4. CASE Failed(p)
    BY <2>1, <2>4, Negative DEF Failed, p
  <2>5. CASE WholeLine(b, i, p)
    <3>1. start \in Int /\ Lines(b, start, i)
      BY <1>1, <2>1, Negative DEF Failed
    <3>2. Lines(b, start, p) /\ p > i /\ p \in Int
      BY <2>5, <3>1, LinesAdd
    <3>3. QED  BY <2>1, <2>2, <3>2 DEF p
  <2>6. QED  BY <2>2, <2>3, <2>4, <2>5
<1>4. QED  BY <1>2, <1>3

(* The loop is between two lines, or it has failed.                          *)
LEMMA AtHeaderType ==
  ASSUME NEW b, Len(b) \in Nat, NEW start \in 1 .. Len(b) + 1
  PROVE  LET at == AtHeader(b, start)
         IN \A k \in 0 .. MaxHeaders : Failed(at[k]) \/ Lines(b, start, at[k])
<1> DEFINE at == AtHeader(b, start)
           S == {k \in 0 .. MaxHeaders : Failed(at[k]) \/ Lines(b, start, at[k])}
<1>1. MaxHeaders \in Nat
  BY HeadersAssumption, MessagesAssumption
<1>2. at[0] = start /\ \A k \in 0 .. MaxHeaders - 1 : at[k + 1] = Behind(b, at[k], k)
  BY AtHeaderIs
<1> HIDE DEF at
<1>3. 0 \in S
  BY <1>1, <1>2, LinesBegun
<1>4. \A k \in 0 .. MaxHeaders - 1 : k \in S => k + 1 \in S
  <2> SUFFICES ASSUME NEW k \in 0 .. MaxHeaders - 1, k \in S PROVE k + 1 \in S
    OBVIOUS
  <2>1. Failed(Behind(b, at[k], k)) \/ Lines(b, start, Behind(b, at[k], k))
    BY BehindType
  <2>2. QED  BY <1>1, <1>2, <2>1
<1> HIDE DEF S
<1>5. \A k \in 0 .. MaxHeaders : k \in S
  BY <1>1, <1>3, <1>4, SetInduction
<1>6. QED  BY <1>5 DEF S, at

(* never back and never on from a failure,                                   *)
LEMMA AtHeaderGrows ==
  ASSUME NEW b, Len(b) \in Nat, NEW start \in 1 .. Len(b) + 1, NEW k \in 0 .. MaxHeaders
  PROVE  LET at == AtHeader(b, start)
         IN \A n \in k .. MaxHeaders : /\ at[n] >= 0 => at[k] >= 0 /\ at[n] >= at[k]
                                       /\ Rests(b, at[k]) => at[n] = at[k]
<1> DEFINE at == AtHeader(b, start)
           S == {d \in 0 .. MaxHeaders - k : /\ at[k + d] >= 0 => at[k] >= 0 /\ at[k + d] >= at[k]
                                             /\ Rests(b, at[k]) => at[k + d] = at[k]}
<1>1. MaxHeaders \in Nat /\ k \in Nat /\ MaxHeaders - k \in Nat
  BY HeadersAssumption, MessagesAssumption
<1>2. \A n \in 0 .. MaxHeaders - 1 : at[n + 1] = Behind(b, at[n], n)
  BY AtHeaderIs
<1>3. \A n \in 0 .. MaxHeaders : Failed(at[n]) \/ Lines(b, start, at[n])
  BY AtHeaderType
<1>4. \A n \in 0 .. MaxHeaders : at[n] \in Int
  <2> HIDE DEF at
  <2>1. QED  BY <1>3, Negative DEF Failed, Lines
<1> HIDE DEF at
<1>5. 0 \in S
  <2>1. k + 0 = k /\ 0 \in 0 .. MaxHeaders - k /\ at[k] >= at[k]
    BY <1>1, <1>4
  <2>2. QED  BY <2>1
<1>6. \A d \in 0 .. (MaxHeaders - k) - 1 : d \in S => d + 1 \in S
  <2> SUFFICES ASSUME NEW d \in 0 .. (MaxHeaders - k) - 1, d \in S PROVE d + 1 \in S
    OBVIOUS
  <2>1. /\ k + d \in 0 .. MaxHeaders - 1 /\ k + d \in 0 .. MaxHeaders /\ (k + d) + 1 = k + (d + 1)
        /\ (k + d) + 1 \in 0 .. MaxHeaders /\ d + 1 \in 0 .. MaxHeaders - k
    BY <1>1
  <2>2. at[k + (d + 1)] = Behind(b, at[k + d], k + d)
    BY <1>2, <2>1
  <2>3. /\ at[k + d] >= 0 => at[k] >= 0 /\ at[k + d] >= at[k]
        /\ Rests(b, at[k]) => at[k + d] = at[k]
    OBVIOUS
  <2>4. LET p == Behind(b, at[k + d], k + d) IN p >= 0 => at[k + d] >= 0 /\ p >= at[k + d]
    BY <1>3, <2>1, BehindType
  <2>5. at[k + (d + 1)] >= 0 => at[k] >= 0 /\ at[k + (d + 1)] >= at[k]
    BY <1>4, <2>1, <2>2, <2>3, <2>4
  <2>6. Rests(b, at[k]) => at[k + (d + 1)] = at[k]
    BY <2>2, <2>3 DEF Behind
  <2>7. QED  BY <2>1, <2>5, <2>6
<1> HIDE DEF S
<1>7. \A d \in 0 .. MaxHeaders - k : d \in S
  BY <1>1, <1>5, <1>6, SetInduction
<1>8. ASSUME NEW n \in k .. MaxHeaders
      PROVE  /\ at[n] >= 0 => at[k] >= 0 /\ at[n] >= at[k]
             /\ Rests(b, at[k]) => at[n] = at[k]
  <2>1. n - k \in 0 .. MaxHeaders - k /\ k + (n - k) = n
    BY <1>1
  <2>2. n - k \in S
    BY <1>7, <2>1
  <2>3. QED  BY <2>1, <2>2 DEF S
<1>9. QED  BY <1>8 DEF at

(* one header at a time until it rests.                                      *)
HeaderCount(at) == Min({n \in 0 .. MaxHeaders : at[n] = at[MaxHeaders]})

(* The count of the headers is that of the first time around that changes nothing.*)
LEMMA HeaderCountType ==
  ASSUME NEW b, NEW start
  PROVE  LET at == AtHeader(b, start)
             n == HeaderCount(at)
         IN /\ n \in 0 .. MaxHeaders /\ at[n] = at[MaxHeaders]
            /\ \A k \in 0 .. n - 1 : at[k] # at[MaxHeaders]
<1> DEFINE at == AtHeader(b, start)
           T == {n \in 0 .. MaxHeaders : at[n] = at[MaxHeaders]}
<1>1. MaxHeaders \in Nat
  BY HeadersAssumption, MessagesAssumption
<1> HIDE DEF at
<1>2. MaxHeaders \in T /\ T \subseteq Nat /\ T # {} /\ T \subseteq Int
  BY <1>1
<1>3. PICK m \in T : \A x \in T : m <= x
  <2> HIDE DEF T
  <2>1. QED  BY <1>2, LeastOf
<1>4. Min(T) = m
  <2> HIDE DEF T
  <2>1. QED  BY <1>2, <1>3, MinIs
<1>5. \A k \in 0 .. m - 1 : at[k] # at[MaxHeaders]
  <2> SUFFICES ASSUME NEW k \in 0 .. m - 1, at[k] = at[MaxHeaders] PROVE FALSE
    OBVIOUS
  <2>1. m \in 0 .. MaxHeaders
    OBVIOUS
  <2>2. k \in T
    BY <1>1, <2>1
  <2>3. QED  BY <1>3, <2>1, <2>2
<1>6. HeaderCount(at) = m
  BY <1>4 DEF HeaderCount
<1>7. QED  BY <1>3, <1>5, <1>6 DEF at

(* Up to its end the loop reads one line each time, none of them empty.      *)
LEMMA AtHeaderParts ==
  ASSUME NEW b, Len(b) \in Nat, NEW start \in 1 .. Len(b) + 1, AtHeader(b, start)[MaxHeaders] >= 0
  PROVE  LET at == AtHeader(b, start)
             n == HeaderCount(at)
         IN /\ n \in 0 .. MaxHeaders /\ at[n] = at[MaxHeaders]
            /\ \A k \in 0 .. MaxHeaders : at[k] \in start .. at[MaxHeaders]
            /\ \A k \in 0 .. n - 1 : /\ at[k] \in start .. Len(b) /\ at[k] < at[MaxHeaders]
                                     /\ b[at[k]] \notin Newline
                                     /\ at[k + 1] = HeaderLine(b, at[k], k)
                                     /\ at[k + 1] \in start .. at[MaxHeaders]
<1> DEFINE at == AtHeader(b, start)
           n == HeaderCount(at)
<1>1. MaxHeaders \in Nat
  BY HeadersAssumption, MessagesAssumption
<1>2. \A k \in 0 .. MaxHeaders - 1 : at[k + 1] = Behind(b, at[k], k)
  BY AtHeaderIs
<1>3. \A k \in 0 .. MaxHeaders : Failed(at[k]) \/ Lines(b, start, at[k])
  BY AtHeaderType
<1>4. /\ n \in 0 .. MaxHeaders /\ at[n] = at[MaxHeaders]
      /\ \A k \in 0 .. n - 1 : at[k] # at[MaxHeaders]
  BY HeaderCountType
<1>5. \A k \in 0 .. MaxHeaders : /\ at[k] >= 0 /\ at[MaxHeaders] >= at[k]
                                 /\ Rests(b, at[k]) => at[MaxHeaders] = at[k]
  <2> SUFFICES ASSUME NEW k \in 0 .. MaxHeaders
               PROVE  /\ at[k] >= 0 /\ at[MaxHeaders] >= at[k]
                      /\ Rests(b, at[k]) => at[MaxHeaders] = at[k]
    OBVIOUS
  <2>1. MaxHeaders \in k .. MaxHeaders
    BY <1>1
  <2>2. \A m \in k .. MaxHeaders : /\ at[m] >= 0 => at[k] >= 0 /\ at[m] >= at[k]
                                   /\ Rests(b, at[k]) => at[m] = at[k]
    BY AtHeaderGrows
  <2> HIDE DEF at
  <2>3. at[MaxHeaders] >= 0
    BY DEF at
  <2>4. QED  BY <2>1, <2>2, <2>3
<1> HIDE DEF n, at
<1>6. \A k \in 0 .. MaxHeaders : at[k] \in start .. at[MaxHeaders] /\ at[k] <= Len(b) + 1
  <2> SUFFICES ASSUME NEW k \in 0 .. MaxHeaders
               PROVE  at[k] \in start .. at[MaxHeaders] /\ at[k] <= Len(b) + 1
    OBVIOUS
  <2>1. MaxHeaders \in 0 .. MaxHeaders
    BY <1>1
  <2>2. at[k] \in start .. Len(b) + 1 /\ at[MaxHeaders] \in start .. Len(b) + 1
    BY <1>3, <1>5, <2>1, Negative DEF Failed, Lines
  <2>3. QED  BY <1>5, <2>2
<1>7. ASSUME NEW k \in 0 .. n - 1
      PROVE  /\ at[k] \in start .. Len(b) /\ at[k] < at[MaxHeaders] /\ b[at[k]] \notin Newline
             /\ at[k + 1] = HeaderLine(b, at[k], k) /\ at[k + 1] \in start .. at[MaxHeaders]
  <2>1. k \in 0 .. MaxHeaders - 1 /\ k \in 0 .. MaxHeaders /\ k + 1 \in 0 .. MaxHeaders
    BY <1>1, <1>4
  <2>2. at[MaxHeaders] # at[k] /\ ~Rests(b, at[k])
    BY <1>4, <1>5, <2>1
  <2>3. at[k + 1] = HeaderLine(b, at[k], k)
    BY <1>2, <2>1, <2>2 DEF Behind
  <2>4. at[k] \in start .. Len(b) /\ b[at[k]] \notin Newline
    BY <1>6, <2>1, <2>2 DEF Rests
  <2>5. at[k] < at[MaxHeaders] /\ at[k + 1] \in start .. at[MaxHeaders]
    <3>1. at[k] \in start .. at[MaxHeaders] /\ at[k + 1] \in start .. at[MaxHeaders]
      BY <1>6, <2>1
    <3>2. at[MaxHeaders] \in Int
      BY <1>1, <1>6
    <3>3. QED  BY <2>2, <3>1, <3>2
  <2>6. QED  BY <2>3, <2>4, <2>5
<1>8. QED  BY <1>4, <1>6, <1>7 DEF n, at

(* One time around the loop is the same when more arrives.                   *)
LEMMA BehindPre ==
  ASSUME NEW b, NEW c, Pre(b, c), NEW i \in 1 .. Len(b), NEW k
  PROVE  Agree(Behind(b, i, k), Behind(c, i, k), Len(b) + 1)
<1>1. c[i] = b[i] /\ i \in 1 .. Len(c) /\ Len(b) \in Nat /\ Len(c) \in Nat
  BY DEF Pre
<1>2. Rests(b, i) <=> Rests(c, i)
  BY <1>1 DEF Rests
<1>3. CASE Rests(b, i)
  BY <1>2, <1>3 DEF Behind, Agree
<1>4. CASE ~Rests(b, i)
  BY <1>2, <1>4, HeaderLinePre DEF Behind
<1>5. QED  BY <1>3, <1>4

(* On the longer text it is at the same places, or went on from the end. *)
Follows(p, q, end) == /\ p # EOF /\ p # end => q = p
                      /\ 0 <= q /\ q <= end => p = q

(* The loop is the same when more arrives, up to where the text had ended.   *)
LEMMA AtHeaderPre ==
  ASSUME NEW b, NEW c, Pre(b, c), NEW start \in 1 .. Len(b) + 1
  PROVE  \A k \in 0 .. MaxHeaders :
            Follows(AtHeader(b, start)[k], AtHeader(c, start)[k], Len(b) + 1)
<1> DEFINE at == AtHeader(b, start)
           too == AtHeader(c, start)
           S == {k \in 0 .. MaxHeaders : Follows(at[k], too[k], Len(b) + 1)}
<1>1. MaxHeaders \in Nat /\ Len(b) \in Nat /\ Len(c) \in Nat /\ start \in 1 .. Len(c) + 1
  BY HeadersAssumption, MessagesAssumption DEF Pre
<1>2. at[0] = start /\ \A k \in 0 .. MaxHeaders - 1 : at[k + 1] = Behind(b, at[k], k)
  BY AtHeaderIs
<1>3. too[0] = start /\ \A k \in 0 .. MaxHeaders - 1 : too[k + 1] = Behind(c, too[k], k)
  BY AtHeaderIs
<1>4. \A k \in 0 .. MaxHeaders : Failed(at[k]) \/ Lines(b, start, at[k])
  BY <1>1, AtHeaderType
<1>5. \A k \in 0 .. MaxHeaders : Failed(too[k]) \/ Lines(c, start, too[k])
  BY <1>1, AtHeaderType
<1> HIDE DEF at, too
<1>6. 0 \in S
  BY <1>1, <1>2, <1>3 DEF Follows
<1>7. \A k \in 0 .. MaxHeaders - 1 : k \in S => k + 1 \in S
  <2> SUFFICES ASSUME NEW k \in 0 .. MaxHeaders - 1, k \in S PROVE k + 1 \in S
    OBVIOUS
  <2>1. k \in 0 .. MaxHeaders /\ k + 1 \in 0 .. MaxHeaders
    BY <1>1
  <2>2. PICK i, j, p, q : /\ i = at[k] /\ j = too[k] /\ p = Behind(b, i, k) /\ q = Behind(c, j, k)
                          /\ at[k + 1] = p /\ too[k + 1] = q
    BY <1>2, <1>3
  <2>3. Follows(i, j, Len(b) + 1)
    BY <2>2
  <2>4. /\ Failed(i) \/ i \in 1 .. Len(b) + 1
        /\ Failed(j) \/ Lines(c, start, j)
    BY <1>1, <1>4, <1>5, <2>1, <2>2 DEF Lines
  <2>5. /\ Failed(q) \/ Lines(c, start, q)
        /\ q >= 0 => j >= 0 /\ q >= j
        /\ j < 0 => q = j
    BY <1>1, <2>2, <2>4, BehindType
  <2>6. /\ Failed(q) \/ q \in 1 .. Len(c) + 1
        /\ Failed(j) \/ j \in 1 .. Len(c) + 1
    BY <1>1, <2>4, <2>5 DEF Lines
  <2>7. CASE i = EOF \/ i = BAD \/ i = Len(b) + 1
    <3>1. p = i
      BY <1>1, <2>2, <2>7, Negative DEF Behind, Rests
    <3>2. p # EOF /\ p # Len(b) + 1 => q = p
      BY <2>3, <2>5, <2>7, <3>1, Negative, <1>1 DEF Follows
    <3>3. 0 <= q /\ q <= Len(b) + 1 => p = q
      <4> SUFFICES ASSUME 0 <= q, q <= Len(b) + 1 PROVE p = q
        OBVIOUS
      <4>1. 0 <= j /\ j <= Len(b) + 1 /\ j <= q
        BY <1>1, <2>5, <2>6, Negative DEF Failed
      <4>2. i = j
        BY <2>3, <4>1 DEF Follows
      <4>3. i = Len(b) + 1 /\ q \in Int
        BY <2>6, <2>7, <4>1, <4>2, Negative DEF Failed
      <4>4. QED  BY <1>1, <3>1, <4>1, <4>2, <4>3
    <3>4. QED  BY <2>1, <2>2, <3>2, <3>3 DEF Follows
  <2>8. CASE i \in 1 .. Len(b)
    <3>1. j = i
      BY <1>1, <2>3, <2>8, Negative DEF Follows
    <3>2. Agree(p, q, Len(b) + 1)
      BY <2>2, <2>8, <3>1, BehindPre
    <3>3. QED  BY <2>1, <2>2, <3>2 DEF Agree, Follows
  <2>9. QED  BY <1>1, <2>4, <2>7, <2>8 DEF Failed
<1> HIDE DEF S
<1>8. \A k \in 0 .. MaxHeaders : k \in S
  BY <1>1, <1>6, <1>7, SetInduction
<1>9. QED  BY <1>8 DEF S, at, too
-----------------------------------------------------------------------------
(* A bounded set of integers has a greatest element.                         *)
LEMMA GreatestOf ==
  ASSUME NEW m \in Int, NEW n \in Int, NEW T, T \subseteq m .. n, T # {}
  PROVE  \E g \in T : \A x \in T : x <= g
<1> DEFINE U == {n - x : x \in T}
<1>1. U \subseteq Nat /\ U # {}
  OBVIOUS
<1>2. PICK u \in U : \A x \in U : u <= x
  <2> HIDE DEF U
  <2>1. QED  BY <1>1, LeastOf
<1>3. PICK g \in T : u = n - g
  OBVIOUS
<1>4. ASSUME NEW x \in T PROVE x <= g
  <2>1. n - x \in U
    OBVIOUS
  <2>2. n - g <= n - x
    BY <1>2, <1>3, <2>1
  <2>3. QED  BY <2>2
<1>5. QED  BY <1>4

(* A value ends at its last character that is not blank.                     *)
LEMMA TrimmedType ==
  ASSUME NEW b, NEW first \in Nat \ {0}, NEW final \in Int, final >= first - 1
  PROVE  LET t == Trimmed(b, first, final)
         IN /\ t \in first - 1 .. final /\ (t >= first => b[t] \notin Blank)
            /\ \A k \in t + 1 .. final : b[k] \in Blank
<1> DEFINE T == {j \in first .. final : b[j] \notin Blank} \cup {first - 1}
<1>1. T \subseteq first - 1 .. final /\ T # {} /\ T \subseteq Int /\ first - 1 \in Int
  OBVIOUS
<1>2. PICK m \in T : \A x \in T : x <= m
  <2> HIDE DEF T
  <2>1. QED  BY <1>1, GreatestOf
<1>3. Trimmed(b, first, final) = m
  <2>1. Max(T) = m
    <3> HIDE DEF T
    <3>1. QED  BY <1>1, <1>2, MaxIs
  <2>2. QED  BY <2>1 DEF Trimmed
<1>4. m \in first - 1 .. final /\ (m >= first => b[m] \notin Blank)
  BY <1>1
<1>5. \A k \in m + 1 .. final : b[k] \in Blank
  <2> SUFFICES ASSUME NEW k \in m + 1 .. final, b[k] \notin Blank PROVE FALSE
    OBVIOUS
  <2>1. k \in first .. final
    BY <1>4
  <2>2. k \in T
    BY <2>1
  <2>3. QED  BY <1>2, <1>4, <2>2
<1>6. QED  BY <1>3, <1>4, <1>5

(* Such a position is the only one.                                          *)
LEMMA TrimmedIs ==
  ASSUME NEW b, NEW first \in Nat \ {0}, NEW final \in Int, NEW t \in first - 1 .. final,
         t >= first => b[t] \notin Blank, \A k \in t + 1 .. final : b[k] \in Blank
  PROVE  Trimmed(b, first, final) = t
<1>1. final >= first - 1
  OBVIOUS
<1> DEFINE u == Trimmed(b, first, final)
<1>2. /\ u \in first - 1 .. final /\ (u >= first => b[u] \notin Blank)
      /\ \A k \in u + 1 .. final : b[k] \in Blank
  BY <1>1, TrimmedType
<1> HIDE DEF u
<1>3. ~(u < t)
  <2> SUFFICES ASSUME u < t PROVE FALSE
    OBVIOUS
  <2>1. t \in u + 1 .. final /\ t >= first
    BY <1>2
  <2>2. QED  BY <1>2, <2>1
<1>4. ~(t < u)
  <2> SUFFICES ASSUME t < u PROVE FALSE
    OBVIOUS
  <2>1. u \in t + 1 .. final /\ u >= first
    BY <1>2
  <2>2. QED  BY <1>2, <2>1
<1>5. QED  BY <1>2, <1>3, <1>4 DEF u

(* Where a value ends is the same when more arrives.                         *)
LEMMA TrimmedPre ==
  ASSUME NEW b, NEW c, Pre(b, c), NEW first \in Nat \ {0}, NEW final \in Int,
         final >= first - 1, final <= Len(b)
  PROVE  Trimmed(c, first, final) = Trimmed(b, first, final)
<1> DEFINE t == Trimmed(b, first, final)
<1>1. /\ t \in first - 1 .. final /\ (t >= first => b[t] \notin Blank)
      /\ \A k \in t + 1 .. final : b[k] \in Blank
  BY TrimmedType
<1> HIDE DEF t
<1>2. Len(b) \in Nat /\ \A k \in first .. final : c[k] = b[k]
  BY DEF Pre
<1>3. (t >= first => c[t] \notin Blank) /\ \A k \in t + 1 .. final : c[k] \in Blank
  BY <1>1, <1>2
<1>4. Trimmed(c, first, final) = t
  BY <1>1, <1>3, TrimmedIs
<1>5. QED  BY <1>4 DEF t

(* A part of a text is the same when more arrives.                           *)
LEMMA SubSeqPre ==
  ASSUME NEW S, NEW b \in Seq(S), NEW c \in Seq(S), Pre(b, c), NEW i \in Nat \ {0}, NEW j \in Int, j <= Len(b)
  PROVE  SubSeq(b, i, j) = SubSeq(c, i, j)
<1>1. Len(b) \in Nat /\ Len(c) \in Nat /\ Len(b) <= Len(c) /\ \A x \in 1 .. Len(b) : c[x] = b[x]
  BY DEF Pre
<1>2. CASE j < i
  <2>1. SubSeq(b, i, j) = <<>> /\ SubSeq(c, i, j) = <<>>
    BY <1>2
  <2>2. QED  BY <2>1
<1>3. CASE i <= j
  <2> DEFINE a == i - 1
             s == SubSeq(b, i, j)
             t == SubSeq(c, i, j)
  <2>1. a \in Nat /\ j \in Nat /\ a <= j /\ a + 1 = i /\ j <= Len(c)
    BY <1>1, <1>3
  <2>2. s \in Seq(S) /\ Len(s) = j - a /\ \A k \in 1 .. j - a : s[k] = b[a + k]
    <3> HIDE DEF a
    <3>1. /\ SubSeq(b, a + 1, j) \in Seq(S) /\ Len(SubSeq(b, a + 1, j)) = j - a
          /\ \A k \in 1 .. j - a : SubSeq(b, a + 1, j)[k] = b[a + k]
      BY <2>1, SubSeqIs
    <3>2. QED  BY <2>1, <3>1
  <2>3. t \in Seq(S) /\ Len(t) = j - a /\ \A k \in 1 .. j - a : t[k] = c[a + k]
    <3> HIDE DEF a
    <3>1. /\ SubSeq(c, a + 1, j) \in Seq(S) /\ Len(SubSeq(c, a + 1, j)) = j - a
          /\ \A k \in 1 .. j - a : SubSeq(c, a + 1, j)[k] = c[a + k]
      BY <2>1, SubSeqIs
    <3>2. QED  BY <2>1, <3>1
  <2> HIDE DEF a, s, t
  <2>4. \A k \in 1 .. j - a : s[k] = t[k]
    <3> SUFFICES ASSUME NEW k \in 1 .. j - a PROVE s[k] = t[k]
      OBVIOUS
    <3>1. a + k \in 1 .. Len(b)
      BY <1>1, <2>1
    <3>2. QED  BY <1>1, <2>2, <2>3, <3>1
  <2>5. s = t
    BY <2>2, <2>3, <2>4, SeqEqual
  <2>6. QED  BY <2>5 DEF s, t
<1>4. QED  BY <1>2, <1>3

(* What a header says lies inside its line.                                  *)
LEMMA ValueNewline ==
  ASSUME NEW b, Len(b) \in Nat, NEW i \in 1 .. Len(b), NEW k, HeaderLine(b, i, k) >= 0
  PROVE  LET s == ValueStart(b, i, k)
         IN Find(b, s, Newline) \in s .. Len(b)
<1> DEFINE s == ValueStart(b, i, k)
           f == Find(b, s, Newline)
           j == Find(b, s, Control \ {"HT"})
<1>1. s \in i .. Len(b) /\ TokenToEol(b, s) >= 0
  BY HeaderLineParts
<1> HIDE DEF s
<1>2. s \in Nat \ {0} /\ s <= Len(b) + 1 /\ s \in Nat
  BY <1>1
<1>3. j \in s .. Len(b) /\ b[j] \in Newline
  BY <1>1, <1>2, TokenToEolType
<1> HIDE DEF j
<1>4. f \in s .. Len(b) + 1 /\ \A x \in s .. f - 1 : b[x] \notin Newline
  BY <1>2, FindType
<1> HIDE DEF f
<1>5. ~(j < f)
  <2> SUFFICES ASSUME j < f PROVE FALSE
    OBVIOUS
  <2>1. j \in s .. f - 1
    BY <1>3, <1>4
  <2>2. QED  BY <1>3, <1>4, <2>1
<1>6. f \in s .. Len(b)
  BY <1>3, <1>4, <1>5
<1>7. QED  BY <1>6 DEF f, s

(* The name and the value of a header that was read are the same when more arrives.*)
LEMMA HeaderPre ==
  ASSUME NEW S, NEW b \in Seq(S), NEW c \in Seq(S), Pre(b, c), NEW i \in 1 .. Len(b), NEW k,
         HeaderLine(b, i, k) >= 0
  PROVE  Header(c, i, k) = Header(b, i, k)
<1> DEFINE s == ValueStart(b, i, k)
           f == Find(b, s, Newline)
           colon == ParseToken(b, i, ":")
           t == Trimmed(b, s, f - 1)
<1>1. /\ Len(b) \in Nat /\ Len(c) \in Nat /\ Len(b) <= Len(c) /\ c[i] = b[i]
      /\ i \in Nat \ {0} /\ i <= Len(b) + 1
  BY DEF Pre
<1>2. /\ s \in i .. Len(b)
      /\ Folded(b, i, k) \/ colon \in i + 1 .. Len(b)
  BY <1>1, HeaderLineParts
<1>3. f \in s .. Len(b)
  BY <1>1, ValueNewline
<1>4. Folded(c, i, k) <=> Folded(b, i, k)
  BY <1>1 DEF Folded
<1>5. ~Folded(b, i, k) => ParseToken(c, i, ":") = colon
  <2>1. Agree(colon, ParseToken(c, i, ":"), Len(b))
    BY <1>1, ParseTokenPre
  <2> HIDE DEF colon
  <2>2. ~Folded(b, i, k) => colon # EOF
    BY <1>1, <1>2, Negative
  <2>3. QED  BY <2>1, <2>2 DEF Agree
<1>6. ValueStart(c, i, k) = s
  <2>1. CASE Folded(b, i, k)
    BY <1>4, <2>1 DEF ValueStart
  <2>2. CASE ~Folded(b, i, k)
    <3> HIDE DEF colon
    <3>1. s = Skip(b, colon + 1, Blank) /\ ValueStart(c, i, k) = Skip(c, colon + 1, Blank)
      BY <1>4, <1>5, <2>2 DEF ValueStart, colon
    <3> HIDE DEF s
    <3>2. colon + 1 \in Nat \ {0} /\ colon + 1 <= Len(b) + 1
      BY <1>1, <1>2, <2>2
    <3>3. Skip(b, colon + 1, Blank) <= Len(b)
      BY <1>2, <3>1
    <3>4. QED  BY <3>1, <3>2, <3>3, SkipPre
  <2>3. QED  BY <2>1, <2>2
<1> HIDE DEF s
<1>7. s \in Nat \ {0} /\ s <= Len(b) + 1
  BY <1>1, <1>2
<1>8. Find(c, s, Newline) = f
  <2>1. f <= Len(b)
    BY <1>2, <1>3
  <2>2. QED  BY <1>7, <2>1, FindPre
<1> HIDE DEF f
<1>9. f - 1 \in Int /\ f - 1 >= s - 1 /\ f - 1 <= Len(b)
  BY <1>1, <1>2, <1>3
<1>10. Trimmed(c, s, f - 1) = t /\ t \in s - 1 .. f - 1
  BY <1>7, <1>9, TrimmedPre, TrimmedType
<1> HIDE DEF t
<1>11. t \in Int /\ t <= Len(b)
  BY <1>7, <1>9, <1>10
<1>12. SubSeq(b, s, t) = SubSeq(c, s, t)
  BY <1>7, <1>11, SubSeqPre
<1>13. ~Folded(b, i, k) => SubSeq(b, i, colon - 1) = SubSeq(c, i, colon - 1)
  <2> HIDE DEF colon
  <2> SUFFICES ASSUME ~Folded(b, i, k) PROVE SubSeq(b, i, colon - 1) = SubSeq(c, i, colon - 1)
    OBVIOUS
  <2>1. colon - 1 \in Int /\ colon - 1 <= Len(b)
    BY <1>1, <1>2
  <2>2. QED  BY <1>1, <2>1, SubSeqPre
<1>14. Header(b, i, k) = [name |-> IF Folded(b, i, k) THEN <<>> ELSE SubSeq(b, i, colon - 1),
                          value |-> SubSeq(b, s, t)]
  BY DEF Header, s, f, t
<1>15. Header(c, i, k) = [name |-> IF Folded(c, i, k) THEN <<>> ELSE SubSeq(c, i, ParseToken(c, i, ":") - 1),
                          value |-> SubSeq(c, s, t)]
  BY <1>6, <1>8, <1>10 DEF Header
<1> HIDE DEF colon
<1>16. CASE Folded(b, i, k)
  BY <1>4, <1>12, <1>14, <1>15, <1>16
<1>17. CASE ~Folded(b, i, k)
  BY <1>4, <1>5, <1>12, <1>13, <1>14, <1>15, <1>17
<1>18. QED  BY <1>16, <1>17

(* The headers of a block,                                                   *)
HeaderList(b, start) == LET at == AtHeader(b, start)
                        IN [k \in 1 .. HeaderCount(at) |-> Header(b, at[k - 1], k - 1)]

(* Headers by its loop and its list.                                         *)
LEMMA HeadersIs ==
  ASSUME NEW b, NEW start
  PROVE  LET i == AtHeader(b, start)[MaxHeaders]
             end == EndOfLine(b, i)
         IN Headers(b, start) = IF i < 0 THEN Stop(i)
                                ELSE IF i > Len(b) THEN Stop(EOF)
                                ELSE IF b[i] \notin Newline THEN Stop(BAD)
                                ELSE IF end < 0 THEN Stop(end)
                                ELSE [pos |-> end, headers |-> HeaderList(b, start)]
  BY DEF Headers, HeaderList, HeaderCount

(* which ends behind an empty line.                                          *)
LEMMA HeadersType ==
  ASSUME NEW b, Len(b) \in Nat, NEW start \in 1 .. Len(b) + 1
  PROVE  LET i == AtHeader(b, start)[MaxHeaders]
             x == Headers(b, start)
         IN \/ x = Stop(EOF) \/ x = Stop(BAD)
            \/ /\ i \in start .. Len(b) /\ b[i] \in Newline /\ Lines(b, start, i)
               /\ x = [pos |-> EndOfLine(b, i), headers |-> HeaderList(b, start)]
               /\ WholeLine(b, i, EndOfLine(b, i)) /\ EndOfLine(b, i) >= 0
<1> DEFINE i == AtHeader(b, start)[MaxHeaders]
           x == Headers(b, start)
           end == EndOfLine(b, i)
           list == HeaderList(b, start)
<1>1. MaxHeaders \in 0 .. MaxHeaders
  BY HeadersAssumption, MessagesAssumption
<1>2. Failed(i) \/ Lines(b, start, i)
  BY <1>1, AtHeaderType
<1>3. x = IF i < 0 THEN Stop(i)
          ELSE IF i > Len(b) THEN Stop(EOF)
          ELSE IF b[i] \notin Newline THEN Stop(BAD)
          ELSE IF end < 0 THEN Stop(end)
          ELSE [pos |-> end, headers |-> list]
  BY HeadersIs
<1> HIDE DEF i, x, list
<1>4. CASE Failed(i)
  BY <1>3, <1>4, Negative DEF Failed, x
<1>5. CASE Lines(b, start, i)
  <2>1. i \in start .. Len(b) + 1 /\ ~(i < 0)
    BY <1>5 DEF Lines
  <2>2. CASE i > Len(b)
    <3>1. x = Stop(EOF)
      BY <1>3, <2>1, <2>2
    <3>2. QED  BY <3>1 DEF x
  <2>3. CASE i <= Len(b) /\ b[i] \notin Newline
    <3>1. x = Stop(BAD)
      BY <1>3, <2>1, <2>3
    <3>2. QED  BY <3>1 DEF x
  <2>4. CASE i <= Len(b) /\ b[i] \in Newline
    <3>1. i \in 1 .. Len(b) /\ ~(i > Len(b))
      BY <2>1, <2>4
    <3>2. Failed(end) \/ end \in i + 1 .. Len(b) + 1
      BY <2>4, <3>1, EndOfLineType
    <3>3. end >= 0 => WholeLine(b, i, end)
      BY <2>4, <3>1, EndOfLineLine
    <3> HIDE DEF end
    <3>4. CASE Failed(end)
      <4>1. x = Stop(EOF) \/ x = Stop(BAD)
        BY <1>3, <2>1, <2>4, <3>1, <3>4, Negative DEF Failed
      <4>2. QED  BY <4>1 DEF x
    <3>5. CASE end \in i + 1 .. Len(b) + 1
      <4>1. end >= 0 /\ ~(end < 0)
        BY <3>1, <3>5
      <4>2. x = [pos |-> end, headers |-> list]
        BY <1>3, <2>1, <2>4, <3>1, <4>1
      <4>3. QED  BY <1>5, <2>1, <2>4, <3>1, <3>3, <4>1, <4>2 DEF x, i, end, list
    <3>6. QED  BY <3>2, <3>4, <3>5
  <2>5. QED  BY <2>1, <2>2, <2>3, <2>4
<1>6. QED  BY <1>2, <1>4, <1>5

(* The list of the headers is the same when more arrives.                    *)
LEMMA HeaderListPre ==
  ASSUME NEW S, NEW b \in Seq(S), NEW c \in Seq(S), Pre(b, c), NEW start \in 1 .. Len(b) + 1,
         AtHeader(b, start)[MaxHeaders] \in 1 .. Len(b),
         AtHeader(c, start)[MaxHeaders] = AtHeader(b, start)[MaxHeaders]
  PROVE  HeaderList(c, start) = HeaderList(b, start)
<1> DEFINE at == AtHeader(b, start)
           too == AtHeader(c, start)
           n == HeaderCount(at)
<1>1. /\ Len(b) \in Nat /\ Len(c) \in Nat /\ Len(b) <= Len(c)
      /\ \A x \in 1 .. Len(b) : c[x] = b[x]
  BY DEF Pre
<1>2. at[MaxHeaders] >= 0
  <2> HIDE DEF at
  <2>1. at[MaxHeaders] \in 1 .. Len(b)
    BY DEF at
  <2>2. QED  BY <1>1, <2>1
<1>3. /\ n \in 0 .. MaxHeaders /\ at[n] = at[MaxHeaders]
      /\ \A k \in 0 .. MaxHeaders : at[k] \in start .. at[MaxHeaders]
      /\ \A k \in 0 .. n - 1 : /\ at[k] \in start .. Len(b)
                               /\ at[k + 1] = HeaderLine(b, at[k], k)
                               /\ at[k + 1] \in start .. at[MaxHeaders]
  BY <1>1, <1>2, AtHeaderParts
<1>4. \A k \in 0 .. MaxHeaders : Follows(at[k], too[k], Len(b) + 1)
  BY AtHeaderPre
<1>5. at[MaxHeaders] \in 1 .. Len(b) /\ too[MaxHeaders] = at[MaxHeaders]
  OBVIOUS
<1>6. HeaderCount(at) = Min({m \in 0 .. MaxHeaders : at[m] = at[MaxHeaders]})
  BY DEF HeaderCount
<1>7. HeaderCount(too) = Min({m \in 0 .. MaxHeaders : too[m] = too[MaxHeaders]})
  BY DEF HeaderCount
<1>8. /\ HeaderList(b, start) = [k \in 1 .. n |-> Header(b, at[k - 1], k - 1)]
      /\ HeaderList(c, start) = [k \in 1 .. HeaderCount(too) |-> Header(c, too[k - 1], k - 1)]
  BY DEF HeaderList
<1> HIDE DEF at, too
<1>9. \A k \in 0 .. MaxHeaders : too[k] = at[k]
  <2> SUFFICES ASSUME NEW k \in 0 .. MaxHeaders PROVE too[k] = at[k]
    OBVIOUS
  <2>1. at[k] \in 1 .. Len(b)
    BY <1>1, <1>3, <1>5
  <2>2. QED  BY <1>1, <1>4, <2>1, Negative DEF Follows
<1>10. HeaderCount(too) = n
  <2>1. {m \in 0 .. MaxHeaders : at[m] = at[MaxHeaders]} = {m \in 0 .. MaxHeaders : too[m] = too[MaxHeaders]}
    BY <1>5, <1>9
  <2>2. QED  BY <1>6, <1>7, <2>1
<1> HIDE DEF n
<1>11. ASSUME NEW k \in 1 .. n PROVE Header(c, too[k - 1], k - 1) = Header(b, at[k - 1], k - 1)
  <2>1. k - 1 \in 0 .. n - 1 /\ k - 1 \in 0 .. MaxHeaders /\ MaxHeaders \in Nat
    BY <1>3, HeadersAssumption, MessagesAssumption
  <2>2. at[k - 1] \in 1 .. Len(b) /\ HeaderLine(b, at[k - 1], k - 1) >= 0
    <3>1. /\ at[k - 1] \in start .. Len(b)
          /\ at[(k - 1) + 1] = HeaderLine(b, at[k - 1], k - 1)
          /\ at[(k - 1) + 1] \in start .. at[MaxHeaders]
      BY <1>3, <2>1
    <3>2. at[(k - 1) + 1] >= 0
      BY <1>1, <1>5, <3>1
    <3>3. QED  BY <1>1, <3>1, <3>2
  <2>3. Header(c, at[k - 1], k - 1) = Header(b, at[k - 1], k - 1)
    BY <2>2, HeaderPre
  <2>4. QED  BY <1>9, <2>1, <2>3
<1>12. QED  BY <1>8, <1>10, <1>11

(* What is decided on a text is decided on every one that begins with it,    *)
(* and a success that ends inside the text is one on it.                     *)
Settled(x, y, end) == /\ x.pos # EOF => y = x
                      /\ 0 <= y.pos /\ y.pos <= end => x = y

(* What was found of the headers is the same when more arrives.              *)
LEMMA HeadersPre ==
  ASSUME NEW S, NEW b \in Seq(S), NEW c \in Seq(S), Pre(b, c), NEW start \in 1 .. Len(b) + 1
  PROVE  Settled(Headers(b, start), Headers(c, start), Len(b) + 1)
<1> DEFINE i == AtHeader(b, start)[MaxHeaders]
           x == Headers(b, start)
           j == AtHeader(c, start)[MaxHeaders]
           y == Headers(c, start)
           list == HeaderList(b, start)
           listC == HeaderList(c, start)
<1>1. /\ Len(b) \in Nat /\ Len(c) \in Nat /\ Len(b) <= Len(c) /\ start \in 1 .. Len(c) + 1
      /\ \A k \in 1 .. Len(b) : c[k] = b[k]
  BY DEF Pre
<1>2. MaxHeaders \in 0 .. MaxHeaders
  BY HeadersAssumption, MessagesAssumption
<1>3. Follows(i, j, Len(b) + 1)
  BY <1>2, AtHeaderPre
<1>4. Failed(i) \/ i \in 1 .. Len(b) + 1
  <2>1. Failed(i) \/ Lines(b, start, i)
    BY <1>1, <1>2, AtHeaderType
  <2> HIDE DEF i
  <2>2. QED  BY <1>1, <2>1 DEF Lines
<1>5. x = IF i < 0 THEN Stop(i)
          ELSE IF i > Len(b) THEN Stop(EOF)
          ELSE IF b[i] \notin Newline THEN Stop(BAD)
          ELSE IF EndOfLine(b, i) < 0 THEN Stop(EndOfLine(b, i))
          ELSE [pos |-> EndOfLine(b, i), headers |-> list]
  BY HeadersIs
<1>6. y = IF j < 0 THEN Stop(j)
          ELSE IF j > Len(c) THEN Stop(EOF)
          ELSE IF c[j] \notin Newline THEN Stop(BAD)
          ELSE IF EndOfLine(c, j) < 0 THEN Stop(EndOfLine(c, j))
          ELSE [pos |-> EndOfLine(c, j), headers |-> listC]
  BY HeadersIs
<1>7. \/ y = Stop(EOF) \/ y = Stop(BAD)
      \/ /\ j \in start .. Len(c) /\ c[j] \in Newline
         /\ y = [pos |-> EndOfLine(c, j), headers |-> listC]
         /\ WholeLine(c, j, EndOfLine(c, j)) /\ EndOfLine(c, j) >= 0
  BY <1>1, HeadersType
<1>8. j = i /\ i \in 1 .. Len(b) => listC = list
  BY HeaderListPre
<1>9. i \in 1 .. Len(b) => /\ Agree(EndOfLine(b, i), EndOfLine(c, i), Len(b) + 1)
                           /\ b[i] \in Newline => Failed(EndOfLine(b, i)) \/ EndOfLine(b, i) \in i + 1 .. Len(b) + 1
  BY <1>1, EndOfLinePre, EndOfLineType
<1> HIDE DEF i, j, x, y, list, listC
<1>10. ASSUME x.pos # EOF PROVE y = x
  <2>1. i # EOF /\ i # Len(b) + 1
    BY <1>1, <1>5, <1>10, Negative DEF Stop
  <2>2. j = i
    BY <1>3, <2>1 DEF Follows
  <2>3. CASE i = BAD
    BY <1>5, <1>6, <2>2, <2>3, Negative
  <2>4. CASE i \in 1 .. Len(b)
    <3>1. ~(i < 0) /\ ~(i > Len(b)) /\ ~(i > Len(c)) /\ c[i] = b[i]
      BY <1>1, <2>4
    <3>2. CASE b[i] \notin Newline
      BY <1>5, <1>6, <2>2, <3>1, <3>2
    <3>3. CASE b[i] \in Newline
      <4>1. /\ x = IF EndOfLine(b, i) < 0 THEN Stop(EndOfLine(b, i))
                   ELSE [pos |-> EndOfLine(b, i), headers |-> list]
            /\ y = IF EndOfLine(c, i) < 0 THEN Stop(EndOfLine(c, i))
                   ELSE [pos |-> EndOfLine(c, i), headers |-> listC]
        BY <1>5, <1>6, <2>2, <3>1, <3>3
      <4>2. EndOfLine(b, i) # EOF
        BY <1>10, <4>1, Negative DEF Stop
      <4>3. EndOfLine(c, i) = EndOfLine(b, i) /\ listC = list
        BY <1>8, <1>9, <2>2, <2>4, <4>2 DEF Agree
      <4>4. QED  BY <4>1, <4>3
    <3>4. QED  BY <3>2, <3>3
  <2>5. QED  BY <1>4, <2>1, <2>3, <2>4 DEF Failed
<1>11. ASSUME 0 <= y.pos, y.pos <= Len(b) + 1 PROVE x = y
  <2>1. /\ j \in start .. Len(c) /\ c[j] \in Newline
        /\ y = [pos |-> EndOfLine(c, j), headers |-> listC]
        /\ EndOfLine(c, j) \in j + 1 .. Len(c) + 1 /\ y.pos = EndOfLine(c, j)
    BY <1>1, <1>7, <1>11, Negative DEF Stop, WholeLine
  <2>2. j \in 1 .. Len(b)
    BY <1>1, <1>11, <2>1
  <2>3. i = j
    BY <1>1, <1>3, <2>2 DEF Follows
  <2>4. EndOfLine(b, i) = EndOfLine(c, j) /\ listC = list
    BY <1>8, <1>9, <1>11, <2>1, <2>2, <2>3 DEF Agree
  <2>5. ~(i < 0) /\ ~(i > Len(b)) /\ ~(EndOfLine(b, i) < 0) /\ b[i] \in Newline
    BY <1>1, <2>1, <2>2, <2>3, <2>4
  <2>6. QED  BY <1>5, <2>1, <2>4, <2>5
<1>12. QED  BY <1>10, <1>11 DEF Settled, x, y

(* An answer is an error, or whole lines were read up to an empty one and it too.*)
LEMMA WholeType ==
  ASSUME NEW S, NEW b \in Seq(S), NEW w \in Kinds
  PROVE  LET start == HeadersBegin(w, b)
             i == AtHeader(b, start)[MaxHeaders]
             x == Whole(w, b)
         IN \/ x = Stop(EOF) \/ x = Stop(BAD)
            \/ /\ start \in 1 .. Len(b) + 1 /\ Lines(b, 1, start)
               /\ i \in start .. Len(b) /\ b[i] \in Newline /\ Lines(b, start, i)
               /\ x = [pos |-> EndOfLine(b, i), headers |-> HeaderList(b, start)]
               /\ WholeLine(b, i, EndOfLine(b, i)) /\ EndOfLine(b, i) >= 0
<1> DEFINE start == HeadersBegin(w, b)
           x == Whole(w, b)
<1>1. Len(b) \in Nat
  OBVIOUS
<1>2. Failed(start) \/ Lines(b, 1, start)
  BY HeadersBeginType
<1>3. x = IF start < 0 THEN Stop(start) ELSE Headers(b, start)
  BY DEF Whole
<1>4. CASE Failed(start)
  <2> HIDE DEF start, x
  <2>1. x = Stop(EOF) \/ x = Stop(BAD)
    BY <1>3, <1>4, Negative DEF Failed
  <2>2. QED  BY <2>1 DEF x
<1>5. CASE Lines(b, 1, start)
  <2> DEFINE i == AtHeader(b, start)[MaxHeaders]
  <2>1. start \in 1 .. Len(b) + 1 /\ ~(start < 0)
    <3> HIDE DEF start
    <3>1. QED  BY <1>1, <1>5 DEF Lines
  <2>2. x = Headers(b, start)
    BY <1>3, <2>1
  <2>3. \/ Headers(b, start) = Stop(EOF) \/ Headers(b, start) = Stop(BAD)
        \/ /\ i \in start .. Len(b) /\ b[i] \in Newline /\ Lines(b, start, i)
           /\ Headers(b, start) = [pos |-> EndOfLine(b, i), headers |-> HeaderList(b, start)]
           /\ WholeLine(b, i, EndOfLine(b, i)) /\ EndOfLine(b, i) >= 0
    BY <1>1, <2>1, HeadersType
  <2>4. QED  BY <1>5, <2>1, <2>2, <2>3
<1>6. QED  BY <1>2, <1>4, <1>5

(* What one call decides is the same when more arrives.                      *)
LEMMA WholePre ==
  ASSUME NEW S, NEW b \in Seq(S), NEW c \in Seq(S), Pre(b, c), NEW w \in Kinds
  PROVE  Settled(Whole(w, b), Whole(w, c), Len(b) + 1)
<1> DEFINE i == HeadersBegin(w, b)
           j == HeadersBegin(w, c)
           x == Whole(w, b)
           y == Whole(w, c)
<1>1. Len(b) \in Nat /\ Len(c) \in Nat /\ Len(b) <= Len(c)
  BY DEF Pre
<1>2. Agree(i, j, Len(b) + 1)
  BY HeadersBeginPre
<1>3. Failed(i) \/ Lines(b, 1, i)
  BY HeadersBeginType
<1>4. Failed(j) \/ Lines(c, 1, j)
  BY HeadersBeginType
<1>5. x = IF i < 0 THEN Stop(i) ELSE Headers(b, i)
  BY DEF Whole
<1>6. y = IF j < 0 THEN Stop(j) ELSE Headers(c, j)
  BY DEF Whole
<1> HIDE DEF i, j, x, y
<1>7. /\ Failed(i) \/ i \in 1 .. Len(b) + 1
      /\ Failed(j) \/ j \in 1 .. Len(c) + 1
  BY <1>3, <1>4 DEF Lines
<1>8. i \in 1 .. Len(b) + 1 => Settled(Headers(b, i), Headers(c, i), Len(b) + 1)
  BY HeadersPre
<1>9. ASSUME x.pos # EOF PROVE y = x
  <2>1. i # EOF
    BY <1>5, <1>9, Negative DEF Stop
  <2>2. j = i
    BY <1>2, <2>1 DEF Agree
  <2>3. CASE i = BAD
    BY <1>5, <1>6, <2>2, <2>3, Negative
  <2>4. CASE i \in 1 .. Len(b) + 1
    <3>1. x = Headers(b, i) /\ y = Headers(c, i)
      BY <1>1, <1>5, <1>6, <2>2, <2>4
    <3>2. QED  BY <1>8, <1>9, <2>4, <3>1 DEF Settled
  <2>5. QED  BY <1>7, <2>1, <2>3, <2>4 DEF Failed
<1>10. ASSUME 0 <= y.pos, y.pos <= Len(b) + 1 PROVE x = y
  <2>1. j \in 1 .. Len(c) + 1
    BY <1>6, <1>7, <1>10, Negative DEF Stop, Failed
  <2>2. y = Headers(c, j)
    BY <1>1, <1>6, <2>1
  <2>3. y.pos > j /\ y.pos \in Int
    <3> DEFINE m == AtHeader(c, j)[MaxHeaders]
               end == EndOfLine(c, m)
               list == HeaderList(c, j)
    <3>1. \/ y = Stop(EOF) \/ y = Stop(BAD)
          \/ /\ m \in j .. Len(c) /\ y = [pos |-> end, headers |-> list] /\ WholeLine(c, m, end)
      BY <1>1, <2>1, <2>2, HeadersType
    <3> HIDE DEF m, end, list
    <3>2. m \in j .. Len(c) /\ y.pos = end /\ end \in m + 1 .. Len(c) + 1
      BY <1>10, <3>1, Negative DEF Stop, WholeLine
    <3>3. QED  BY <1>1, <2>1, <3>2
  <2>4. j <= Len(b) + 1 /\ 0 <= j
    BY <1>1, <1>10, <2>1, <2>3
  <2>5. i = j /\ i \in 1 .. Len(b) + 1
    BY <1>1, <1>2, <2>1, <2>4 DEF Agree
  <2>6. x = Headers(b, i) /\ y = Headers(c, i)
    BY <1>1, <1>5, <2>2, <2>5
  <2>7. QED  BY <1>8, <1>10, <2>5, <2>6 DEF Settled
<1>11. QED  BY <1>9, <1>10 DEF Settled, x, y

-----------------------------------------------------------------------------
ParserType == /\ message \in Messages /\ text \in Seq(ParserCharacters)
              /\ last \in 0 .. Len(text)

(* The caller keeps a text, the count of what was there at the last call and *)
(* an answer; a message has one of the three kinds.                          *)
THEOREM ParserTypeCorrect == ParserSpec => []ParserType
<1>1. ParserInit => ParserType
  BY DEF ParserInit, ParserType
<1>2. ParserType /\ [ParserNext]_parser => ParserType'
  <2> SUFFICES ASSUME ParserType, [ParserNext]_parser PROVE ParserType'
    OBVIOUS
  <2>1. CASE Ask
    BY <2>1 DEF Ask, ParserType
  <2>2. ASSUME NEW c \in ParserCharacters, Arrive(c) PROVE ParserType'
    <3>1. text' = Append(text, c) /\ last' = last /\ message' = message
      BY <2>2 DEF Arrive
    <3>2. text' \in Seq(ParserCharacters) /\ Len(text') = Len(text) + 1 /\ Len(text) \in Nat
      BY <3>1 DEF ParserType
    <3>3. QED  BY <3>1, <3>2 DEF ParserType
  <2>3. CASE UNCHANGED parser
    BY <2>3 DEF ParserType, parser
  <2>4. QED  BY <2>1, <2>2, <2>3 DEF ParserNext
<1>3. QED  BY <1>1, <1>2, PTL DEF ParserSpec

(* The kinds of a message.                                                   *)
LEMMA KindIs == ASSUME ParserType PROVE kind \in Kinds
<1>1. message \in Kinds \X Seq(ParserCharacters)
  BY HeadersAssumption, MessagesAssumption DEF ParserType, Kinds
<1>2. QED  BY <1>1 DEF kind

(* The beginning of a text.                                                  *)
LEMMA Shorter ==
  ASSUME NEW S, NEW b \in Seq(S), NEW n \in 0 .. Len(b)
  PROVE  SubSeq(b, 1, n) \in Seq(S) /\ Len(SubSeq(b, 1, n)) = n /\ Pre(SubSeq(b, 1, n), b)
<1>1. /\ SubSeq(b, 0 + 1, n) \in Seq(S) /\ Len(SubSeq(b, 0 + 1, n)) = n - 0
      /\ \A k \in 1 .. n - 0 : SubSeq(b, 0 + 1, n)[k] = b[0 + k]
  BY SubSeqIs
<1> DEFINE s == SubSeq(b, 1, n)
<1>2. s = SubSeq(b, 0 + 1, n)
  OBVIOUS
<1> HIDE DEF s
<1>3. s \in Seq(S) /\ Len(s) = n /\ \A k \in 1 .. n : s[k] = b[k]
  BY <1>1, <1>2
<1>4. QED  BY <1>3 DEF Pre, s

(* What a call decides, wherever the text was cut, does not change with what *)
(* follows.                                                                  *)
THEOREM DecidedStays ==
  ParserSpec => [](/\ Decided
                   /\ \A n \in 0 .. Len(text) : LET before == Whole(kind, SubSeq(text, 1, n))
                                                IN before.pos # EOF => Whole(kind, text) = before)
<1> DEFINE Stays(n) == LET before == Whole(kind, SubSeq(text, 1, n))
                       IN before.pos # EOF => Whole(kind, text) = before
<1>1. ASSUME ParserType, NEW n \in 0 .. Len(text) PROVE Stays(n)
  <2> DEFINE b == SubSeq(text, 1, n)
  <2>1. text \in Seq(ParserCharacters)
    BY <1>1 DEF ParserType
  <2>2. b \in Seq(ParserCharacters) /\ Pre(b, text)
    BY <1>1, <2>1, Shorter
  <2> HIDE DEF b
  <2>3. Settled(Whole(kind, b), Whole(kind, text), Len(b) + 1)
    BY <1>1, <2>1, <2>2, KindIs, WholePre
  <2>4. QED  BY <2>3 DEF Settled, b
<1>2. ASSUME ParserType, text # <<>> PROVE Stays(Len(text) - 1)
  <2>1. Len(text) - 1 \in 0 .. Len(text)
    BY <1>2 DEF ParserType
  <2> HIDE DEF Stays
  <2>2. QED  BY <1>1, <1>2, <2>1
<1>3. ParserType => Decided /\ \A n \in 0 .. Len(text) : Stays(n)
  BY <1>1, <1>2 DEF Decided
<1>4. QED  BY <1>3, ParserTypeCorrect, PTL
-----------------------------------------------------------------------------
(* Induction from n down.                                                    *)
LEMMA DownInduction ==
  ASSUME NEW n \in Nat, NEW S, \A i \in 1 .. n : (\A j \in i + 1 .. n : j \in S) => i \in S
  PROVE  \A i \in 1 .. n : i \in S
<1> DEFINE T == {d \in 0 .. n : \A j \in n - d + 1 .. n : j \in S}
<1>1. 0 \in T
  OBVIOUS
<1>2. \A d \in 0 .. n - 1 : d \in T => d + 1 \in T
  <2> SUFFICES ASSUME NEW d \in 0 .. n - 1, d \in T PROVE d + 1 \in T
    OBVIOUS
  <2>1. n - d \in 1 .. n /\ d + 1 \in 0 .. n /\ n - (d + 1) + 1 = n - d
    OBVIOUS
  <2>2. \A j \in (n - d) + 1 .. n : j \in S
    OBVIOUS
  <2>3. n - d \in S
    BY <2>1, <2>2
  <2>4. \A j \in n - (d + 1) + 1 .. n : j \in S
    <3> SUFFICES ASSUME NEW j \in n - d .. n PROVE j \in S
      BY <2>1
    <3>1. j = n - d \/ j \in (n - d) + 1 .. n
      BY <2>1
    <3>2. QED  BY <2>2, <2>3, <3>1
  <2>5. QED  BY <2>1, <2>4
<1> HIDE DEF T
<1>3. \A d \in 0 .. n : d \in T
  BY <1>1, <1>2, SetInduction
<1>4. n \in T
  BY <1>3
<1>5. n - n + 1 = 1
  OBVIOUS
<1>6. QED  BY <1>4, <1>5 DEF T

(* The scan from i on,                                                       *)
ScanOf(b, from, i) ==
  [newlines \in 0 .. 1 |->
     IF i > Len(b) THEN EOF
     ELSE IF b[i] \notin Newline THEN from[i + 1][0]
     ELSE LET j == EndOfLine(b, i)
          IN IF j < 0 \/ newlines = 1 THEN j ELSE from[j][1]]

(* The scan for two newlines is a function that is defined from every position on.*)
LEMMA ScanExists ==
  ASSUME NEW b, Len(b) \in Nat
  PROVE  \E f : f = [i \in 1 .. Len(b) + 1 |-> ScanOf(b, f, i)]
<1> DEFINE n == Len(b)
           Is(f, m) == f = [i \in n + 2 - m .. n + 1 |-> ScanOf(b, f, i)]
           S == {m \in 0 .. n + 1 : \E f : Is(f, m)}
<1>1. n \in Nat /\ n + 1 \in Nat
  OBVIOUS
<1>2. 0 \in S
  <2> DEFINE f == [i \in {} |-> 0]
  <2>1. n + 2 - 0 .. n + 1 = {} /\ 0 \in 0 .. n + 1
    BY <1>1
  <2>2. f = [i \in {} |-> ScanOf(b, f, i)]
    OBVIOUS
  <2> HIDE DEF f
  <2>3. QED  BY <2>1, <2>2
<1>3. ASSUME NEW m \in 0 .. n, m \in S PROVE m + 1 \in S
  <2> DEFINE z == n + 1 - m
  <2>1. z \in 1 .. n + 1 /\ n + 2 - m = z + 1 /\ n + 2 - (m + 1) = z /\ m + 1 \in 0 .. n + 1
    BY <1>1
  <2>2. PICK f : f = [i \in z + 1 .. n + 1 |-> ScanOf(b, f, i)]
    BY <1>3, <2>1
  <2> HIDE DEF z
  <2> DEFINE g == [i \in z .. n + 1 |-> IF i = z THEN ScanOf(b, f, z) ELSE f[i]]
  <2>3. \A i \in z + 1 .. n + 1 : g[i] = f[i]
    BY <2>1
  <2>4. ASSUME NEW i \in z .. n + 1 PROVE g[i] = ScanOf(b, g, i)
    <3>1. ScanOf(b, g, i) = ScanOf(b, f, i)
      <4> HIDE DEF g
      <4>1. CASE i > Len(b)
        BY <4>1 DEF ScanOf
      <4>2. CASE i <= Len(b) /\ b[i] \notin Newline
        <5>1. i + 1 \in z + 1 .. n + 1
          BY <1>1, <2>1, <4>2
        <5>2. g[i + 1] = f[i + 1]
          BY <2>3, <5>1
        <5>3. QED  BY <1>1, <2>1, <4>2, <5>2 DEF ScanOf
      <4>3. CASE i <= Len(b) /\ b[i] \in Newline
        <5> DEFINE j == EndOfLine(b, i)
        <5>1. i \in 1 .. Len(b)
          BY <1>1, <2>1, <4>3
        <5>2. Failed(j) \/ j \in i + 1 .. Len(b) + 1
          BY <1>1, <4>3, <5>1, EndOfLineType
        <5> HIDE DEF j
        <5>3. ~(j < 0) => j \in z + 1 .. n + 1
          BY <1>1, <2>1, <5>1, <5>2, Negative DEF Failed
        <5>4. ~(j < 0) => g[j] = f[j]
          BY <2>3, <5>3
        <5>5. QED  BY <1>1, <4>3, <5>1, <5>4 DEF ScanOf, j
      <4>4. i > Len(b) \/ i <= Len(b)
        BY <1>1, <2>1
      <4>5. QED  BY <4>1, <4>2, <4>3, <4>4
    <3>2. g[i] = ScanOf(b, f, i)
      <4>1. CASE i = z
        BY <4>1
      <4>2. CASE i # z
        <5>1. i \in z + 1 .. n + 1
          BY <2>1, <4>2
        <5>2. f[i] = ScanOf(b, f, i)
          BY <2>2, <5>1
        <5>3. QED  BY <2>3, <5>1, <5>2
      <4>3. QED  BY <4>1, <4>2
    <3>3. QED  BY <3>1, <3>2
  <2>5. g = [i \in z .. n + 1 |-> g[i]]
    OBVIOUS
  <2> HIDE DEF g
  <2>6. g = [i \in z .. n + 1 |-> ScanOf(b, g, i)]
    BY <2>4, <2>5
  <2>7. Is(g, m + 1)
    BY <2>1, <2>6
  <2>8. QED  BY <2>1, <2>7
<1>4. \A d \in 0 .. (n + 1) - 1 : d \in S => d + 1 \in S
  BY <1>1, <1>3
<1>5. n + 1 \in S
  <2> HIDE DEF S
  <2>1. \A m \in 0 .. n + 1 : m \in S
    BY <1>1, <1>2, <1>4, SetInduction
  <2>2. QED  BY <1>1, <2>1
<1>6. n + 2 - (n + 1) = 1
  BY <1>1
<1>7. QED  BY <1>5, <1>6

(* The scan by its steps.                                                    *)
LEMMA IsCompleteIs ==
  ASSUME NEW b, Len(b) \in Nat
  PROVE  \E f : /\ \A i \in 1 .. Len(b) + 1 : f[i] = ScanOf(b, f, i)
                /\ \A start : IsComplete(b, start) = f[start][0]
<1> DEFINE f == CHOOSE f : f = [i \in 1 .. Len(b) + 1 |-> ScanOf(b, f, i)]
<1>1. f = [i \in 1 .. Len(b) + 1 |-> ScanOf(b, f, i)]
  BY ScanExists
<1>2. ASSUME NEW start PROVE IsComplete(b, start) = f[start][0]
  BY DEF IsComplete, ScanOf
<1> HIDE DEF f
<1>3. \A i \in 1 .. Len(b) + 1 : f[i] = ScanOf(b, f, i)
  BY <1>1
<1>4. QED  BY <1>2, <1>3

(* which finds an empty line at e behind whole lines, from wherever before   *)
(* it began.                                                                 *)
LEMMA ScanFinds ==
  ASSUME NEW b, Len(b) \in Nat, NEW f, \A i \in 1 .. Len(b) + 1 : f[i] = ScanOf(b, f, i),
         NEW e \in 2 .. Len(b), b[e - 1] = "LF", Clean(b, 1, e),
         b[e] \in Newline, EndOfLine(b, e) >= 0
  PROVE  \A i \in 1 .. e - 1 : f[i][0] >= 0 /\ f[i][1] >= 0
<1> DEFINE S == {i \in 1 .. e - 1 : f[i][0] >= 0 /\ f[i][1] >= 0}
<1>1. e - 1 \in Nat
  OBVIOUS
<1>2. f[e][1] >= 0
  <2>1. Failed(EndOfLine(b, e)) \/ EndOfLine(b, e) \in e + 1 .. Len(b) + 1
    BY EndOfLineType
  <2>2. e \in 1 .. Len(b) + 1 /\ ~(e > Len(b)) /\ 1 \in 0 .. 1
    OBVIOUS
  <2>3. f[e][1] = EndOfLine(b, e)
    BY <2>2 DEF ScanOf
  <2>4. QED  BY <2>3
<1>3. ASSUME NEW i \in 1 .. e - 1, \A j \in i + 1 .. e - 1 : j \in S PROVE i \in S
  <2>1. i \in 1 .. Len(b) + 1 /\ ~(i > Len(b)) /\ i \in 1 .. Len(b) /\ 0 \in 0 .. 1 /\ 1 \in 0 .. 1 /\ 1 # 0
    BY <1>1
  <2>2. f[i] = ScanOf(b, f, i)
    BY <2>1
  <2>3. CASE b[i] \notin Newline
    <3>1. i # e - 1
      BY <2>3 DEF Newline
    <3>2. f[i + 1][0] >= 0
      <4>1. i + 1 \in i + 1 .. e - 1
        BY <1>1, <3>1
      <4>2. QED  BY <1>3, <4>1
    <3>3. f[i][0] = f[i + 1][0] /\ f[i][1] = f[i + 1][0]
      BY <2>1, <2>2, <2>3 DEF ScanOf
    <3>4. QED  BY <3>2, <3>3
  <2>4. CASE b[i] \in Newline
    <3> DEFINE j == EndOfLine(b, i)
    <3>1. j \in i + 1 .. e
      <4>1. CASE b[i] = "LF"
        BY <1>1, <4>1 DEF EndOfLine
      <4>2. CASE b[i] = "CR"
        <5>1. i + 1 <= e - 1 /\ b[i + 1] = "LF"
          BY <4>2 DEF Clean
        <5>2. i # Len(b) /\ j = i + 2
          BY <2>1, <4>2, <5>1 DEF EndOfLine
        <5>3. QED  BY <1>1, <5>1, <5>2
      <4>3. QED  BY <2>4, <4>1, <4>2 DEF Newline
    <3>2. /\ f[i][0] = IF j < 0 THEN j ELSE f[j][1]
          /\ f[i][1] = j
      BY <2>1, <2>2, <2>4 DEF ScanOf
    <3> HIDE DEF j
    <3>3. f[j][1] >= 0
      <4>1. CASE j = e
        BY <1>2, <4>1
      <4>2. CASE j # e
        <5>1. j \in i + 1 .. e - 1
          BY <1>1, <3>1, <4>2
        <5>2. QED  BY <1>3, <5>1
      <4>3. QED  BY <4>1, <4>2
    <3>4. ~(j < 0) /\ j >= 0
      BY <2>1, <3>1
    <3>5. QED  BY <3>2, <3>3, <3>4
  <2>5. QED  BY <2>3, <2>4
<1>4. \A i \in 1 .. e - 1 : (\A j \in i + 1 .. e - 1 : j \in S) => i \in S
  BY <1>3
<1> HIDE DEF S
<1>5. \A i \in 1 .. e - 1 : i \in S
  BY <1>1, <1>4, DownInduction
<1>6. QED  BY <1>5 DEF S

(* A scan returns a number.                                                  *)
LEMMA ScanType ==
  ASSUME NEW b, Len(b) \in Nat, NEW f, \A i \in 1 .. Len(b) + 1 : f[i] = ScanOf(b, f, i)
  PROVE  \A i \in 1 .. Len(b) + 1 : f[i][0] \in Int /\ f[i][1] \in Int
<1> DEFINE n == Len(b) + 1
           S == {i \in 1 .. n : f[i][0] \in Int /\ f[i][1] \in Int}
<1>1. n \in Nat
  OBVIOUS
<1>2. ASSUME NEW i \in 1 .. n, \A j \in i + 1 .. n : j \in S PROVE i \in S
  <2>1. 0 \in 0 .. 1 /\ 1 \in 0 .. 1 /\ 1 # 0 /\ f[i] = ScanOf(b, f, i)
    OBVIOUS
  <2>2. CASE i > Len(b)
    BY <2>1, <2>2, Negative DEF ScanOf
  <2>3. CASE i <= Len(b) /\ b[i] \notin Newline
    <3>1. i + 1 \in i + 1 .. n /\ ~(i > Len(b))
      BY <2>3
    <3>2. f[i + 1][0] \in Int
      BY <1>2, <3>1
    <3>3. f[i][0] = f[i + 1][0] /\ f[i][1] = f[i + 1][0]
      BY <2>1, <2>3, <3>1 DEF ScanOf
    <3>4. QED  BY <3>2, <3>3
  <2>4. CASE i <= Len(b) /\ b[i] \in Newline
    <3> DEFINE j == EndOfLine(b, i)
    <3>1. i \in 1 .. Len(b) /\ ~(i > Len(b))
      BY <2>4
    <3>2. Failed(j) \/ j \in i + 1 .. Len(b) + 1
      BY <2>4, <3>1, EndOfLineType
    <3>3. f[i][0] = (IF j < 0 THEN j ELSE f[j][1]) /\ f[i][1] = j
      BY <2>1, <2>4, <3>1 DEF ScanOf
    <3> HIDE DEF j
    <3>4. j \in Int /\ (~(j < 0) => j \in i + 1 .. n)
      BY <3>1, <3>2, Negative DEF Failed
    <3>5. ~(j < 0) => f[j][1] \in Int
      BY <1>2, <3>4
    <3>6. QED  BY <3>3, <3>4, <3>5
  <2>5. i > Len(b) \/ i <= Len(b)
    OBVIOUS
  <2>6. QED  BY <2>2, <2>3, <2>4, <2>5
<1>3. \A i \in 1 .. n : (\A j \in i + 1 .. n : j \in S) => i \in S
  BY <1>2
<1> HIDE DEF S
<1>4. \A i \in 1 .. n : i \in S
  BY <1>1, <1>3, DownInduction
<1>5. QED  BY <1>4 DEF S

(* A message that ends behind what the last call saw has its empty line      *)
(* where the scan of this call still finds it.                               *)
LEMMA ScanSuffices ==
  ASSUME NEW S, NEW b \in Seq(S), NEW w \in Kinds, NEW n \in 1 .. Len(b),
         ~(w = "headers" /\ b[1] \in Newline),
         Whole(w, b).pos >= n + 2
  PROVE  IsComplete(b, ScanFrom(n)) >= 0
<1> DEFINE start == HeadersBegin(w, b)
           e == AtHeader(b, start)[MaxHeaders]
           x == Whole(w, b)
           end == EndOfLine(b, e)
           list == HeaderList(b, start)
<1>1. Len(b) \in Nat /\ n \in Nat
  OBVIOUS
<1>2. \/ x = Stop(EOF) \/ x = Stop(BAD)
      \/ /\ start \in 1 .. Len(b) + 1 /\ Lines(b, 1, start)
         /\ e \in start .. Len(b) /\ b[e] \in Newline /\ Lines(b, start, e)
         /\ x = [pos |-> end, headers |-> list]
         /\ end >= 0
  BY WholeType
<1>3. start = 1 => w = "headers"
  <2> SUFFICES ASSUME start = 1, w # "headers" PROVE FALSE
    OBVIOUS
  <2>1. CASE w = "request"
    <3> DEFINE i == LineStart(b)
    <3>1. start = Request(b)
      BY <2>1 DEF HeadersBegin
    <3>2. \/ Failed(Request(b))
          \/ i \in 1 .. Len(b) + 1 /\ WholeLine(b, i, Request(b))
      BY RequestType
    <3> HIDE DEF i, start
    <3>3. QED  BY <1>1, <3>1, <3>2, Negative DEF Failed, WholeLine
  <2>2. CASE w = "response"
    <3>1. start = Response(b)
      BY <2>2 DEF HeadersBegin
    <3>2. Failed(Response(b)) \/ WholeLine(b, 1, Response(b))
      BY <1>1, ResponseParts
    <3> HIDE DEF start
    <3>3. QED  BY <1>1, <3>1, <3>2, Negative DEF Failed, WholeLine
  <2>3. QED  BY <2>1, <2>2 DEF Kinds
<1> HIDE DEF start, e, list
<1>4. Failed(end) \/ (end \in e + 1 .. Len(b) + 1 /\ end <= e + 2) \/ ~(e \in 1 .. Len(b) /\ b[e] \in Newline)
  <2> SUFFICES ASSUME e \in 1 .. Len(b), b[e] \in Newline
               PROVE  Failed(end) \/ (end \in e + 1 .. Len(b) + 1 /\ end <= e + 2)
    OBVIOUS
  <2>1. /\ Failed(end) \/ end \in e + 1 .. Len(b) + 1
        /\ end >= 0 => IF b[e] = "LF" THEN end = e + 1 ELSE end = e + 2
    BY <1>1, EndOfLineType
  <2> HIDE DEF end
  <2>2. QED  BY <1>1, <2>1
<1>5. x.pos >= n + 2
  OBVIOUS
<1> HIDE DEF x
<1>6. /\ start \in 1 .. Len(b) + 1 /\ Lines(b, 1, start)
      /\ e \in start .. Len(b) /\ b[e] \in Newline /\ Lines(b, start, e)
      /\ x.pos = end /\ end >= 0
  <2> HIDE DEF end
  <2>1. Stop(EOF).pos = EOF /\ Stop(BAD).pos = BAD
    BY DEF Stop
  <2>2. ~(EOF >= n + 2) /\ ~(BAD >= n + 2)
    BY <1>1, Negative
  <2>3. QED  BY <1>2, <1>5, <2>1, <2>2
<1>7. e \in 1 .. Len(b) /\ end \in e + 1 .. Len(b) + 1 /\ end <= e + 2 /\ n <= e
  <2> HIDE DEF end
  <2>1. e \in 1 .. Len(b)
    BY <1>1, <1>6
  <2>2. end \in e + 1 .. Len(b) + 1 /\ end <= e + 2
    BY <1>4, <1>6, <2>1, Negative DEF Failed
  <2>3. QED  BY <1>1, <1>5, <1>6, <2>1, <2>2
<1>8. e # 1
  <2> SUFFICES ASSUME e = 1 PROVE FALSE
    OBVIOUS
  <2>1. start = 1 /\ b[1] \in Newline
    BY <1>1, <1>6
  <2>2. QED  BY <1>3, <2>1
<1>9. Clean(b, 1, e) /\ b[e - 1] = "LF"
  <2>1. Clean(b, 1, start) /\ Clean(b, start, e) /\ start <= e /\ start \in Int /\ e \in Int /\ 1 \in Int
    BY <1>1, <1>6 DEF Lines
  <2>2. Clean(b, 1, e)
    BY <2>1, CleanJoin
  <2>3. b[e - 1] = "LF"
    <3>1. CASE e = start
      BY <1>6, <1>8, <3>1 DEF Lines
    <3>2. CASE e # start
      BY <1>6, <3>2 DEF Lines
    <3>3. QED  BY <3>1, <3>2
  <2>4. QED  BY <2>2, <2>3
<1>10. e \in 2 .. Len(b) /\ end >= 0
  BY <1>6, <1>7, <1>8
<1>11. PICK f : /\ \A i \in 1 .. Len(b) + 1 : f[i] = ScanOf(b, f, i)
                /\ \A i : IsComplete(b, i) = f[i][0]
  BY <1>1, IsCompleteIs
<1>12. \A i \in 1 .. e - 1 : f[i][0] >= 0 /\ f[i][1] >= 0
  BY <1>1, <1>6, <1>9, <1>10, <1>11, ScanFinds
<1>13. ScanFrom(n) \in 1 .. e - 1
  BY <1>1, <1>7, <1>10 DEF ScanFrom
<1>14. QED  BY <1>11, <1>12, <1>13

(* A scan returns a number.                                                  *)
LEMMA IsCompleteType ==
  ASSUME NEW b, Len(b) \in Nat, NEW i \in 1 .. Len(b) + 1
  PROVE  IsComplete(b, i) \in Int
<1>1. PICK f : /\ \A k \in 1 .. Len(b) + 1 : f[k] = ScanOf(b, f, k)
               /\ \A k : IsComplete(b, k) = f[k][0]
  BY IsCompleteIs
<1>2. f[i][0] \in Int
  BY <1>1, ScanType
<1>3. QED  BY <1>1, <1>2

-----------------------------------------------------------------------------
(* What the last call saw it has decided as a whole.                         *)
Asked == last # 0 /\ ~EmptyBlock =>
           LET w == Whole(kind, SubSeq(text, 1, last))
           IN answer.pos >= 0 \/ w.pos >= 0 => answer = w

(* A call that succeeds, or could, returns what one call on the whole returns.*)
LEMMA ParseIsWhole ==
  ASSUME ParserType, Asked, Ask, ~EmptyBlock
  PROVE  LET w == Whole(kind, text)
         IN answer'.pos >= 0 \/ w.pos >= 0 => answer' = w
<1> DEFINE w == Whole(kind, text)
           s == IsComplete(text, ScanFrom(last))
<1>1. /\ text \in Seq(ParserCharacters) /\ Len(text) \in Nat /\ last \in 0 .. Len(text)
      /\ kind \in Kinds /\ last < Len(text) /\ answer.pos = EOF
  BY KindIs DEF ParserType, Ask
<1>2. answer' = IF last # 0 /\ s < 0 THEN Stop(s) ELSE w
  BY DEF Ask, Parse
<1>3. CASE ~(last # 0 /\ s < 0)
  BY <1>2, <1>3
<1>4. CASE last # 0 /\ s < 0
  <2>1. s \in Int
    <3>1. ScanFrom(last) \in 1 .. Len(text) + 1
      BY <1>1, <1>4 DEF ScanFrom
    <3>2. QED  BY <1>1, <3>1, IsCompleteType
  <2>2. answer' = Stop(s) /\ ~(answer'.pos >= 0)
    BY <1>2, <1>4, <2>1 DEF Stop
  <2>3. ~(w.pos >= 0)
    <3> SUFFICES ASSUME w.pos >= 0 PROVE FALSE
      OBVIOUS
    <3> DEFINE b == SubSeq(text, 1, last)
    <3>1. b \in Seq(ParserCharacters) /\ Len(b) = last /\ Pre(b, text)
      BY <1>1, Shorter
    <3> HIDE DEF b
    <3>2. Settled(Whole(kind, b), w, Len(b) + 1)
      BY <1>1, <3>1, WholePre
    <3>3. ~(Whole(kind, b).pos >= 0)
      <4> SUFFICES ASSUME Whole(kind, b).pos >= 0 PROVE FALSE
        OBVIOUS
      <4>1. answer = Whole(kind, b)
        BY <1>4 DEF Asked, b
      <4>2. EOF >= 0
        BY <1>1, <4>1
      <4>3. QED  BY <4>2, Negative
    <3>4. w.pos \in Int
      <4> DEFINE start == HeadersBegin(kind, text)
                 i == AtHeader(text, start)[MaxHeaders]
      <4>1. \/ w = Stop(EOF) \/ w = Stop(BAD)
            \/ /\ w = [pos |-> EndOfLine(text, i), headers |-> HeaderList(text, start)]
               /\ WholeLine(text, i, EndOfLine(text, i))
        BY <1>1, WholeType
      <4> HIDE DEF start, i, w
      <4>2. WholeLine(text, i, EndOfLine(text, i)) => EndOfLine(text, i) \in Int
        BY DEF WholeLine
      <4>3. QED  BY <4>1, <4>2, Negative DEF Stop
    <3> HIDE DEF w, s
    <3>5. ~(w.pos <= last + 1)
      <4> SUFFICES ASSUME w.pos <= last + 1 PROVE FALSE
        OBVIOUS
      <4>1. Whole(kind, b) = w
        BY <3>1, <3>2, <3>4 DEF Settled
      <4>2. QED  BY <3>3, <4>1
    <3>6. w.pos >= last + 2 /\ last \in 1 .. Len(text)
      BY <1>1, <1>4, <3>4, <3>5
    <3>7. s >= 0
      BY <1>1, <3>6, ScanSuffices DEF EmptyBlock, w, s
    <3>8. QED  BY <1>4, <2>1, <3>7
  <2>4. QED  BY <2>2, <2>3
<1>5. QED  BY <1>3, <1>4

(* However a message is cut, a call that succeeds returns what one call on the*)
(* whole of it returns, and one that fails, fails only when that one does.   *)
THEOREM CutsDecideNothing == ParserSpec => []CutsDoNotMatter
<1> DEFINE Inv == ParserType /\ Asked
<1>1. ParserInit => Inv
  BY DEF ParserInit, ParserType, Asked
<1>2. Inv /\ [ParserNext]_parser /\ ParserType' => Inv'
  <2> SUFFICES ASSUME ParserType, Asked, [ParserNext]_parser, ParserType' PROVE Asked'
    OBVIOUS
  <2>1. text \in Seq(ParserCharacters) /\ last \in 0 .. Len(text) /\ Len(text) \in Nat
    BY DEF ParserType
  <2>2. CASE Ask
    <3>1. text' = text /\ message' = message /\ last' = Len(text)
      BY <2>2 DEF Ask
    <3>2. SubSeq(text', 1, last') = text
      BY <2>1, <3>1
    <3>3. kind' = kind /\ (EmptyBlock' <=> EmptyBlock)
      BY <3>1 DEF kind, EmptyBlock
    <3>4. CASE EmptyBlock
      BY <3>3, <3>4 DEF Asked
    <3>5. CASE ~EmptyBlock
      <4>1. PICK w : w = Whole(kind, text)
        OBVIOUS
      <4>2. answer'.pos >= 0 \/ w.pos >= 0 => answer' = w
        BY <2>2, <3>5, <4>1, ParseIsWhole
      <4>3. Whole(kind', SubSeq(text', 1, last')) = w
        BY <3>2, <3>3, <4>1
      <4>4. QED  BY <4>2, <4>3 DEF Asked
    <3>6. QED  BY <3>4, <3>5
  <2>3. ASSUME NEW c \in ParserCharacters, Arrive(c) PROVE Asked'
    <3>1. text' = Append(text, c) /\ last' = last /\ message' = message /\ answer' = answer
      BY <2>3 DEF Arrive
    <3>2. CASE last = 0
      BY <3>1, <3>2 DEF Asked
    <3>3. CASE last # 0
      <4>1. text'[1] = text[1]
        BY <2>1, <3>1, <3>3
      <4>2. kind' = kind /\ (EmptyBlock' <=> EmptyBlock)
        BY <3>1, <4>1 DEF kind, EmptyBlock
      <4>3. SubSeq(text', 1, last') = SubSeq(text, 1, last)
        BY <2>1, <3>1
      <4>4. PICK w : w = Whole(kind, SubSeq(text, 1, last))
        OBVIOUS
      <4>5. Whole(kind', SubSeq(text', 1, last')) = w
        BY <4>2, <4>3, <4>4
      <4>6. QED  BY <3>1, <4>2, <4>4, <4>5 DEF Asked
    <3>4. QED  BY <3>2, <3>3
  <2>4. CASE UNCHANGED parser
    BY <2>4 DEF Asked, EmptyBlock, kind, parser
  <2>5. QED  BY <2>2, <2>3, <2>4 DEF ParserNext
<1>3. Inv => CutsDoNotMatter
  <2> SUFFICES ASSUME ParserType, Asked, last = Len(text), text # <<>>, ~EmptyBlock
               PROVE  LET w == Whole(kind, text)
                      IN answer.pos >= 0 \/ w.pos >= 0 => answer = w
    BY DEF CutsDoNotMatter, Called
  <2>1. last # 0 /\ SubSeq(text, 1, last) = text
    BY DEF ParserType
  <2>2. QED  BY <2>1 DEF Asked
<1>4. QED  BY <1>1, <1>2, <1>3, ParserTypeCorrect, PTL DEF ParserSpec
-----------------------------------------------------------------------------
(* A line up to its newline.                                                 *)
LEMMA LineText ==
  ASSUME NEW b, Len(b) \in Nat, NEW i \in 1 .. Len(b), b[i] \notin Newline, NEW p, WholeLine(b, i, p)
  PROVE  \E e \in i .. Len(b) - 1 : /\ TextLine(b, i) = SubSeq(b, i, e)
                                    /\ Plain(b, i, e + 1) /\ b[e + 1] \in Newline
                                    /\ Find(b, i, {"LF"}) = p - 1
<1> DEFINE f == p - 1
<1>1. /\ p \in i + 1 .. Len(b) + 1 /\ b[f] = "LF" /\ \A k \in i .. f - 1 : b[k] # "LF"
      /\ \A k \in i .. f : b[k] = "CR" => k + 1 <= f /\ b[k + 1] = "LF"
  BY DEF WholeLine, Clean
<1>2. f \in i + 1 .. Len(b)
  BY <1>1 DEF Newline
<1> HIDE DEF f
<1>3. Find(b, i, {"LF"}) = f
  <2>1. i \in Nat /\ f \in i .. Len(b) + 1 /\ b[f] \in {"LF"} /\ \A k \in i .. f - 1 : b[k] \notin {"LF"}
    BY <1>1, <1>2
  <2>2. QED  BY <2>1, FindIs
<1>4. TextLine(b, i) = SubSeq(b, i, IF f > i /\ b[f - 1] = "CR" THEN f - 2 ELSE f - 1)
  BY <1>3 DEF TextLine
<1>5. \A k \in i .. f - 1 : b[k] = "CR" => k = f - 1
  <2> SUFFICES ASSUME NEW k \in i .. f - 1, b[k] = "CR" PROVE k = f - 1
    OBVIOUS
  <2>1. k \in i .. f /\ k + 1 <= f /\ b[k + 1] = "LF"
    BY <1>1, <1>2
  <2>2. ~(k + 1 \in i .. f - 1)
    BY <1>1, <2>1
  <2>3. QED  BY <1>2, <2>1, <2>2
<1>6. CASE b[f - 1] = "CR"
  <2>1. f - 1 # i /\ f - 2 \in i .. Len(b) - 1 /\ (f - 2) + 1 = f - 1 /\ f > i
    BY <1>2, <1>6 DEF Newline
  <2>2. Plain(b, i, f - 1)
    <3> SUFFICES ASSUME NEW k \in i .. (f - 1) - 1 PROVE b[k] \notin Newline
      BY DEF Plain
    <3>1. k \in i .. f - 1 /\ k # f - 1
      BY <1>2
    <3>2. QED  BY <1>1, <1>5, <3>1 DEF Newline
  <2>3. TextLine(b, i) = SubSeq(b, i, f - 2) /\ b[(f - 2) + 1] \in Newline /\ Plain(b, i, (f - 2) + 1)
    BY <1>4, <1>6, <2>1, <2>2 DEF Newline
  <2>4. QED  BY <1>3, <2>1, <2>3 DEF f
<1>7. CASE b[f - 1] # "CR"
  <2>1. f - 1 \in i .. Len(b) - 1 /\ (f - 1) + 1 = f
    BY <1>2
  <2>2. Plain(b, i, f)
    BY <1>1, <1>5, <1>7 DEF Plain, Newline
  <2>3. TextLine(b, i) = SubSeq(b, i, f - 1) /\ b[(f - 1) + 1] \in Newline /\ Plain(b, i, (f - 1) + 1)
    BY <1>1, <1>4, <1>7, <2>1, <2>2 DEF Newline
  <2>4. QED  BY <1>3, <2>1, <2>3 DEF f
<1>8. QED  BY <1>6, <1>7

(* A newline, as a line, is the empty one.                                   *)
LEMMA EmptyLineText ==
  ASSUME NEW b, Len(b) \in Nat, NEW i \in 1 .. Len(b), b[i] \in Newline, EndOfLine(b, i) >= 0
  PROVE  TextLine(b, i) = SubSeq(b, i, i - 1)
<1> DEFINE p == EndOfLine(b, i)
<1>1. /\ Failed(p) \/ p \in i + 1 .. Len(b) + 1
      /\ b[p - 1] = "LF" /\ IF b[i] = "LF" THEN p = i + 1 ELSE p = i + 2
  BY EndOfLineType
<1> HIDE DEF p
<1>2. p \in i + 1 .. Len(b) + 1
  BY <1>1, Negative DEF Failed, p
<1>3. CASE b[i] = "LF"
  <2>1. i \in i .. Len(b) + 1 /\ i \in Nat /\ b[i] \in {"LF"} /\ \A k \in i .. i - 1 : b[k] \notin {"LF"}
    BY <1>3
  <2>2. Find(b, i, {"LF"}) = i
    BY <2>1, FindIs
  <2>3. QED  BY <2>2 DEF TextLine
<1>4. CASE b[i] = "CR"
  <2>1. /\ i + 1 \in i .. Len(b) + 1 /\ i \in Nat /\ b[i + 1] \in {"LF"}
        /\ \A k \in i .. (i + 1) - 1 : b[k] \notin {"LF"}
    BY <1>1, <1>2, <1>4
  <2>2. Find(b, i, {"LF"}) = i + 1
    BY <2>1, FindIs
  <2>3. i + 1 > i /\ (i + 1) - 1 = i /\ (i + 1) - 2 = i - 1
    OBVIOUS
  <2>4. QED  BY <1>4, <2>2, <2>3 DEF TextLine
<1>5. QED  BY <1>3, <1>4 DEF Newline

(* Of a part of a text, the character at x is the one at i - 1 + x.          *)
LEMMA SubSeqPart ==
  ASSUME NEW S, NEW b \in Seq(S), NEW i \in 1 .. Len(b), NEW e \in i .. Len(b)
  PROVE  LET s == SubSeq(b, i, e)
         IN /\ s \in Seq(S) /\ Len(s) = e - i + 1 /\ s # <<>>
            /\ \A x \in 1 .. Len(s) : s[x] = b[(i - 1) + x]
            /\ \A x \in 1 .. Len(s) + 1, y \in 0 .. Len(s) :
                  SubSeq(s, x, y) = SubSeq(b, (i - 1) + x, (i - 1) + y)
<1> DEFINE a == i - 1
           s == SubSeq(b, i, e)
<1>1. a \in Nat /\ e \in Nat /\ a <= e /\ e <= Len(b) /\ a + 1 = i
  OBVIOUS
<1>2. s \in Seq(S) /\ Len(s) = e - a /\ \A k \in 1 .. e - a : s[k] = b[a + k]
  <2> HIDE DEF a
  <2>1. /\ SubSeq(b, a + 1, e) \in Seq(S) /\ Len(SubSeq(b, a + 1, e)) = e - a
        /\ \A k \in 1 .. e - a : SubSeq(b, a + 1, e)[k] = b[a + k]
    BY <1>1, SubSeqIs
  <2>2. QED  BY <1>1, <2>1
<1> HIDE DEF s
<1>3. Len(s) = e - i + 1 /\ Len(s) \in Nat \ {0} /\ s # <<>>
  BY <1>1, <1>2
<1>4. ASSUME NEW x \in 1 .. Len(s) + 1, NEW y \in 0 .. Len(s)
      PROVE  SubSeq(s, x, y) = SubSeq(b, a + x, a + y)
  <2>1. CASE y < x
    <3>1. a + y < a + x
      BY <1>1, <1>3, <2>1
    <3>2. SubSeq(s, x, y) = <<>>
      BY <1>2, <1>3, <2>1
    <3>3. SubSeq(b, a + x, a + y) = <<>>
      <4> HIDE DEF a
      <4> DEFINE u == a + x
                 v == a + y
      <4>1. u \in Int /\ v \in Int /\ v < u
        BY <1>1, <1>3, <3>1
      <4> HIDE DEF u, v
      <4>2. SubSeq(b, u, v) = <<>>
        BY <4>1
      <4>3. QED  BY <4>2 DEF u, v
    <3>4. QED  BY <3>2, <3>3
  <2>2. CASE x <= y
    <3> DEFINE r == x - 1
               c == a + r
               d == a + y
               g == SubSeq(s, x, y)
               h == SubSeq(b, a + x, a + y)
    <3>1. /\ r \in Nat /\ y \in Nat /\ r <= y /\ y <= Len(s) /\ r + 1 = x
          /\ c \in Nat /\ d \in Nat /\ c <= d /\ d <= Len(b) /\ c + 1 = a + x /\ d - c = y - r
      BY <1>1, <1>2, <1>3, <2>2
    <3>2. g \in Seq(S) /\ Len(g) = y - r /\ \A k \in 1 .. y - r : g[k] = s[r + k]
      <4> HIDE DEF r
      <4>1. /\ SubSeq(s, r + 1, y) \in Seq(S) /\ Len(SubSeq(s, r + 1, y)) = y - r
            /\ \A k \in 1 .. y - r : SubSeq(s, r + 1, y)[k] = s[r + k]
        BY <1>2, <3>1, SubSeqIs
      <4>2. QED  BY <3>1, <4>1
    <3>3. h \in Seq(S) /\ Len(h) = d - c /\ \A k \in 1 .. d - c : h[k] = b[c + k]
      <4> HIDE DEF a, c
      <4>1. /\ SubSeq(b, c + 1, d) \in Seq(S) /\ Len(SubSeq(b, c + 1, d)) = d - c
            /\ \A k \in 1 .. d - c : SubSeq(b, c + 1, d)[k] = b[c + k]
        BY <3>1, SubSeqIs
      <4>2. QED  BY <3>1, <4>1
    <3> HIDE DEF g, h
    <3>4. \A k \in 1 .. y - r : g[k] = h[k]
      <4> SUFFICES ASSUME NEW k \in 1 .. y - r PROVE g[k] = h[k]
        OBVIOUS
      <4>1. r + k \in 1 .. e - a /\ a + (r + k) = c + k /\ k \in 1 .. d - c
        BY <1>1, <1>2, <3>1
      <4> HIDE DEF a, r, c, d
      <4>2. g[k] = b[a + (r + k)]
        BY <1>2, <3>2, <4>1
      <4>3. QED  BY <3>3, <4>1, <4>2
    <3> HIDE DEF a, r, c, d
    <3>5. g = h
      BY <3>1, <3>2, <3>3, <3>4, SeqEqual
    <3>6. QED  BY <3>5 DEF g, h
  <2>3. y < x \/ x <= y
    BY <1>3
  <2>4. QED  BY <2>1, <2>2, <2>3
<1>5. \A x \in 1 .. Len(s) : s[x] = b[a + x]
  <2>1. Len(s) = e - a
    BY <1>2
  <2>2. QED  BY <1>2, <2>1
<1>6. QED  BY <1>2, <1>3, <1>4, <1>5 DEF s

(* A header says what its line says.                                         *)
LEMMA HeaderIsLine ==
  ASSUME NEW S, NEW b \in Seq(S), NEW i \in 1 .. Len(b), b[i] \notin Newline,
         NEW k \in Nat, HeaderLine(b, i, k) >= 0
  PROVE  /\ TextLine(b, i) # <<>>
         /\ Header(b, i, k) = NameAndValue(TextLine(b, i), k + 1)
<1> DEFINE s == ValueStart(b, i, k)
           p == HeaderLine(b, i, k)
           colon == ParseToken(b, i, ":")
<1>1. Len(b) \in Nat /\ i \in Nat \ {0} /\ i <= Len(b) + 1 /\ k + 1 \in Nat /\ (k + 1 > 1 <=> k > 0)
  OBVIOUS
<1>2. /\ s \in i .. Len(b) /\ Plain(b, i, s)
      /\ Folded(b, i, k) \/ colon \in i + 1 .. Len(b)
  BY <1>1, HeaderLineParts
<1>3. WholeLine(b, i, p)
  <2>1. Failed(p) \/ WholeLine(b, i, p)
    BY <1>1, HeaderLineType
  <2>2. p >= 0
    OBVIOUS
  <2> HIDE DEF p
  <2>3. QED  BY <2>1, <2>2, Negative DEF Failed
<1> HIDE DEF p
<1>4. PICK e \in i .. Len(b) - 1 : /\ TextLine(b, i) = SubSeq(b, i, e)
                                   /\ Plain(b, i, e + 1) /\ b[e + 1] \in Newline
  BY <1>1, <1>3, LineText
<1> DEFINE o == i - 1
           t == SubSeq(b, i, e)
           m == Len(t)
<1>5. e \in i .. Len(b) /\ e \in Int /\ e + 1 \in 1 .. Len(b) /\ o \in Nat
  BY <1>1
<1>6. /\ t \in Seq(S) /\ m = e - i + 1 /\ t # <<>>
      /\ \A x \in 1 .. m : t[x] = b[o + x]
      /\ \A x \in 1 .. m + 1, y \in 0 .. m : SubSeq(t, x, y) = SubSeq(b, o + x, o + y)
  BY <1>5, SubSeqPart
<1> HIDE DEF t
<1>7. m \in Nat \ {0} /\ o + m = e /\ o + 1 = i
  BY <1>1, <1>5, <1>6
<1> HIDE DEF s, colon, m
<1>8. s \in i .. e + 1
  <2> SUFFICES ASSUME e + 1 < s PROVE FALSE
    BY <1>2, <1>5
  <2>1. e + 1 \in i .. s - 1
    BY <1>2, <1>5
  <2>2. QED  BY <1>2, <1>4, <2>1 DEF Plain
<1>9. Find(b, s, Newline) = e + 1
  <2>1. /\ s \in Nat /\ e + 1 \in s .. Len(b) + 1
        /\ \A x \in s .. (e + 1) - 1 : b[x] \notin Newline
    BY <1>1, <1>4, <1>5, <1>8 DEF Plain
  <2>2. QED  BY <1>1, <1>4, <2>1, FindIs
<1> DEFINE u == Trimmed(b, s, e)
           final == Max({0} \cup {j \in 1 .. m : t[j] \notin Blank})
<1>10. /\ u \in s - 1 .. e /\ (u >= s => b[u] \notin Blank)
       /\ \A x \in u + 1 .. e : b[x] \in Blank
  <2>1. s \in Nat \ {0} /\ e >= s - 1
    BY <1>1, <1>5, <1>8
  <2>2. QED  BY <1>5, <2>1, TrimmedType
<1> HIDE DEF u
<1>11. final = Trimmed(t, 1, m)
  <2>1. {0} \cup {j \in 1 .. m : t[j] \notin Blank} = {j \in 1 .. m : t[j] \notin Blank} \cup {1 - 1}
    OBVIOUS
  <2>2. QED  BY <2>1 DEF Trimmed
<1>12. s <= e /\ b[s] \notin Blank => final = u - o /\ u >= s
  <2> SUFFICES ASSUME s <= e, b[s] \notin Blank PROVE final = u - o /\ u >= s
    OBVIOUS
  <2>1. u >= s
    <3> SUFFICES ASSUME u < s PROVE FALSE
      BY <1>5, <1>8, <1>10
    <3>1. s \in u + 1 .. e
      BY <1>5, <1>8, <1>10
    <3>2. QED  BY <1>10, <3>1
  <2> DEFINE v == u - o
  <2>2. v \in 1 .. m /\ o + v = u
    BY <1>1, <1>5, <1>7, <1>8, <1>10, <2>1
  <2> HIDE DEF v
  <2>3. t[v] \notin Blank
    BY <1>6, <1>10, <2>1, <2>2
  <2>4. \A x \in v + 1 .. m : t[x] \in Blank
    <3> SUFFICES ASSUME NEW x \in v + 1 .. m PROVE t[x] \in Blank
      OBVIOUS
    <3>1. x \in 1 .. m /\ o + x \in u + 1 .. e
      BY <1>5, <1>7, <1>10, <2>2
    <3>2. QED  BY <1>6, <1>10, <3>1
  <2>5. v \in 1 - 1 .. m /\ m \in Int
    BY <1>7, <2>2
  <2>6. Trimmed(t, 1, m) = v
    BY <2>3, <2>4, <2>5, TrimmedIs
  <2>7. QED  BY <1>11, <2>1, <2>6 DEF v
<1>13. final \in 0 .. m
  <2>1. m \in Int /\ m >= 1 - 1 /\ 1 \in Nat \ {0}
    BY <1>7
  <2> DEFINE v == Trimmed(t, 1, m)
  <2>2. v \in 1 - 1 .. m /\ (v >= 1 => t[v] \notin Blank) /\ \A x \in v + 1 .. m : t[x] \in Blank
    BY <2>1, TrimmedType
  <2> HIDE DEF v
  <2>3. v \in 0 .. m
    BY <2>2
  <2>4. QED  BY <1>11, <2>3 DEF v
<1> HIDE DEF final
<1>14. SubSeq(t, 1, -1) = <<>>
  BY <1>6
<1>15. Header(b, i, k) = [name  |-> IF Folded(b, i, k) THEN <<>> ELSE SubSeq(b, i, colon - 1),
                          value |-> SubSeq(b, s, u)]
  <2>1. (e + 1) - 1 = e
    BY <1>5
  <2>2. QED  BY <1>9, <2>1 DEF Header, s, colon, u
<1>16. ASSUME NEW c, c = (IF k + 1 > 1 /\ t[1] \in Blank THEN 0 ELSE Find(t, 1, {":"}))
       PROVE  NameAndValue(t, k + 1) =
                [name |-> SubSeq(t, 1, c - 1),
                 value |-> SubSeq(t, IF c = 0 THEN 1 ELSE Skip(t, c + 1, Blank), final)]
  BY <1>16 DEF NameAndValue, final, m
<1>17. Folded(b, i, k) <=> k + 1 > 1 /\ t[1] \in Blank
  <2>1. t[1] = b[i]
    BY <1>6, <1>7
  <2>2. QED  BY <1>1, <2>1 DEF Folded
<1>18. CASE Folded(b, i, k)
  <2>1. s = i
    BY <1>18 DEF ValueStart, s
  <2>2. NameAndValue(t, k + 1) = [name |-> SubSeq(t, 1, 0 - 1), value |-> SubSeq(t, 1, final)]
    BY <1>16, <1>17, <1>18
  <2>3. SubSeq(t, 1, final) = SubSeq(b, i, o + final)
    <3>1. 1 \in 1 .. m + 1
      BY <1>7
    <3>2. SubSeq(t, 1, final) = SubSeq(b, o + 1, o + final)
      BY <1>6, <1>13, <3>1
    <3>3. QED  BY <1>7, <3>2
  <2>4. o + final = u
    <3>1. final = Trimmed(t, 1, m) /\ u = Trimmed(b, i, e)
      BY <1>11, <2>1 DEF u
    <3> DEFINE v == u - o
    <3>2. v \in 1 - 1 .. m /\ o + v = u /\ m \in Int
      BY <1>1, <1>5, <1>7, <1>10, <2>1
    <3> HIDE DEF v
    <3>3. v >= 1 => t[v] \notin Blank
      <4> SUFFICES ASSUME v >= 1 PROVE t[v] \notin Blank
        OBVIOUS
      <4>1. v \in 1 .. m /\ u >= s
        BY <1>1, <1>7, <2>1, <3>2
      <4>2. QED  BY <1>6, <1>10, <3>2, <4>1
    <3>4. \A x \in v + 1 .. m : t[x] \in Blank
      <4> SUFFICES ASSUME NEW x \in v + 1 .. m PROVE t[x] \in Blank
        OBVIOUS
      <4>1. x \in 1 .. m /\ o + x \in u + 1 .. e
        BY <1>1, <1>5, <1>7, <1>10, <3>2
      <4>2. QED  BY <1>6, <1>10, <4>1
    <3>5. Trimmed(t, 1, m) = v
      BY <3>2, <3>3, <3>4, TrimmedIs
    <3>6. QED  BY <3>1, <3>2, <3>5
  <2>5. SubSeq(t, 1, 0 - 1) = <<>>
    BY <1>14
  <2>6. NameAndValue(t, k + 1) = Header(b, i, k)
    BY <1>15, <1>18, <2>1, <2>2, <2>3, <2>4, <2>5
  <2>7. QED  BY <1>4, <1>6, <2>6 DEF t
<1>19. CASE ~Folded(b, i, k)
  <2>1. colon \in i + 1 .. Len(b) /\ b[colon] = ":" /\ \A x \in i .. colon - 1 : b[x] \in Token
    <3>1. ":" \notin Token
      BY DEF Token
    <3>2. colon \in i + 1 .. Len(b) /\ colon >= 0
      BY <1>2, <1>19
    <3>3. QED  BY <1>1, <3>1, <3>2, ParseTokenType DEF colon
  <2>2. s = Skip(b, colon + 1, Blank)
    BY <1>19 DEF ValueStart, s, colon
  <2>3. /\ s \in colon + 1 .. Len(b) + 1 /\ (s <= Len(b) => b[s] \notin Blank)
        /\ \A x \in colon + 1 .. s - 1 : b[x] \in Blank
    <3>1. colon + 1 \in Nat /\ colon + 1 <= Len(b) + 1
      BY <1>1, <2>1
    <3>2. QED  BY <1>1, <2>2, <3>1, SkipType
  <2> DEFINE c == colon - o
             first == s - o
  <2>4. /\ c \in 2 .. m /\ o + c = colon /\ c # 0
        /\ first \in c + 1 .. m + 1 /\ o + first = s
        /\ first \in 1 .. m + 1 /\ c - 1 \in 0 .. m /\ o + (c - 1) = colon - 1
    BY <1>1, <1>5, <1>7, <1>8, <2>1, <2>3
  <2> HIDE DEF c, first
  <2>5. Find(t, 1, {":"}) = c
    <3>1. t[c] \in {":"}
      BY <1>6, <2>1, <2>4
    <3>2. \A x \in 1 .. c - 1 : t[x] \notin {":"}
      <4> SUFFICES ASSUME NEW x \in 1 .. c - 1 PROVE t[x] # ":"
        OBVIOUS
      <4>1. x \in 1 .. m /\ o + x \in i .. colon - 1
        BY <1>1, <1>7, <2>1, <2>4
      <4>2. QED  BY <1>6, <2>1, <4>1 DEF Token
    <3>3. Len(t) \in Nat /\ 1 \in Nat /\ c \in 1 .. Len(t) + 1
      BY <1>7, <2>4 DEF m
    <3>4. QED  BY <3>1, <3>2, <3>3, FindIs
  <2>6. Skip(t, c + 1, Blank) = first
    <3>1. first <= Len(t) => t[first] \notin Blank
      <4> SUFFICES ASSUME first <= m PROVE t[first] \notin Blank
        BY DEF m
      <4>1. first \in 1 .. m /\ s <= Len(b)
        BY <1>5, <1>7, <2>4
      <4>2. QED  BY <1>6, <2>3, <2>4, <4>1
    <3>2. \A x \in c + 1 .. first - 1 : t[x] \in Blank
      <4> SUFFICES ASSUME NEW x \in c + 1 .. first - 1 PROVE t[x] \in Blank
        OBVIOUS
      <4>1. x \in 1 .. m /\ o + x \in colon + 1 .. s - 1
        BY <1>5, <1>7, <2>1, <2>3, <2>4
      <4>2. QED  BY <1>6, <2>3, <4>1
    <3>3. Len(t) \in Nat /\ c + 1 \in Nat /\ first \in c + 1 .. Len(t) + 1
      BY <1>7, <2>4 DEF m
    <3>4. QED  BY <3>1, <3>2, <3>3, SkipIs
  <2>7. NameAndValue(t, k + 1) = [name |-> SubSeq(t, 1, c - 1), value |-> SubSeq(t, first, final)]
    BY <1>16, <1>17, <1>19, <2>4, <2>5, <2>6
  <2>8. SubSeq(t, 1, c - 1) = SubSeq(b, i, colon - 1)
    <3>1. 1 \in 1 .. m + 1
      BY <1>7
    <3>2. SubSeq(t, 1, c - 1) = SubSeq(b, o + 1, o + (c - 1))
      BY <1>6, <2>4, <3>1
    <3>3. QED  BY <1>7, <2>4, <3>2
  <2>9. SubSeq(t, first, final) = SubSeq(b, s, u)
    <3>1. SubSeq(t, first, final) = SubSeq(b, s, o + final)
      BY <1>6, <1>13, <2>4
    <3>2. CASE s <= e
      <4>1. b[s] \notin Blank
        BY <1>5, <2>3, <3>2
      <4>2. o + final = u
        BY <1>5, <1>10, <1>12, <1>8, <3>2, <4>1
      <4>3. QED  BY <3>1, <4>2
    <3>3. CASE s = e + 1
      <4>1. o + final < s /\ u < s /\ s \in Int /\ u \in Int /\ o + final \in Int
        BY <1>5, <1>7, <1>10, <1>13, <3>3
      <4> DEFINE v == o + final
      <4> HIDE DEF v
      <4>2. SubSeq(b, s, v) = <<>>
        BY <4>1 DEF v
      <4>3. SubSeq(b, s, u) = <<>>
        BY <4>1
      <4>4. QED  BY <3>1, <4>2, <4>3 DEF v
    <3>4. s <= e \/ s = e + 1
      BY <1>5, <1>8
    <3>5. QED  BY <3>2, <3>3, <3>4
  <2>10. NameAndValue(t, k + 1) = Header(b, i, k)
    BY <1>15, <1>19, <2>7, <2>8, <2>9
  <2>11. QED  BY <1>4, <1>6, <2>10 DEF t
<1>20. QED  BY <1>18, <1>19

(* The lines, one behind the other:                                          *)
NextLine(b, start, at, k) == IF k = 0 THEN start ELSE Find(b, at[k - 1], {"LF"}) + 1

(* The beginnings of the lines are a function that is defined for every line.*)
LEMMA LinesBeginExists ==
  ASSUME NEW b, Len(b) \in Nat, NEW start
  PROVE  \E f : f = [k \in 0 .. Len(b) |-> NextLine(b, start, f, k)]
<1> DEFINE Is(f, m) == f = [k \in 0 .. m |-> NextLine(b, start, f, k)]
           S == {m \in 0 .. Len(b) : \E f : Is(f, m)}
<1>1. 0 \in S
  <2> DEFINE f == [k \in 0 .. 0 |-> start]
  <2>1. 0 .. 0 = {0} /\ 0 \in 0 .. Len(b)
    OBVIOUS
  <2>2. f = [k \in 0 .. 0 |-> NextLine(b, start, f, k)]
    BY <2>1 DEF NextLine
  <2> HIDE DEF f
  <2>3. QED  BY <2>1, <2>2
<1>2. ASSUME NEW m \in 0 .. Len(b) - 1, m \in S PROVE m + 1 \in S
  <2>1. m \in Nat /\ m + 1 \in 0 .. Len(b)
    OBVIOUS
  <2>2. PICK f : f = [k \in 0 .. m |-> NextLine(b, start, f, k)]
    BY <1>2
  <2> DEFINE g == [k \in 0 .. m + 1 |-> IF k = m + 1 THEN NextLine(b, start, f, m + 1) ELSE f[k]]
  <2>3. \A k \in 0 .. m : g[k] = f[k]
    BY <2>1
  <2>4. ASSUME NEW k \in 0 .. m + 1 PROVE g[k] = NextLine(b, start, g, k)
    <3>1. k = m + 1 => g[k] = NextLine(b, start, f, k)
      OBVIOUS
    <3>2. k # m + 1 => g[k] = NextLine(b, start, f, k)
      BY <2>1, <2>2, <2>3
    <3>3. k # 0 => k - 1 \in 0 .. m
      BY <2>1
    <3> HIDE DEF g
    <3>4. QED  BY <2>3, <3>1, <3>2, <3>3 DEF NextLine
  <2>5. g = [k \in 0 .. m + 1 |-> g[k]]
    OBVIOUS
  <2> HIDE DEF g
  <2>6. g = [k \in 0 .. m + 1 |-> NextLine(b, start, g, k)]
    BY <2>4, <2>5
  <2>7. QED  BY <2>1, <2>6
<1>3. Len(b) \in S
  <2>1. \A d \in 0 .. Len(b) - 1 : d \in S => d + 1 \in S
    BY <1>2
  <2> HIDE DEF S
  <2>2. \A m \in 0 .. Len(b) : m \in S
    BY <1>1, <2>1, SetInduction
  <2>3. QED  BY <2>2
<1>4. QED  BY <1>3

(* The first line begins at the start, the next one behind the newline.      *)
LEMMA LinesBeginIs ==
  ASSUME NEW b, Len(b) \in Nat, NEW start
  PROVE  /\ LinesBegin(b, start)[0] = start
         /\ \A k \in 0 .. Len(b) - 1 :
               LinesBegin(b, start)[k + 1] = Find(b, LinesBegin(b, start)[k], {"LF"}) + 1
<1> DEFINE f == CHOOSE f : f = [k \in 0 .. Len(b) |-> NextLine(b, start, f, k)]
<1>1. f = [k \in 0 .. Len(b) |-> NextLine(b, start, f, k)]
  BY LinesBeginExists
<1>2. LinesBegin(b, start) = f
  BY DEF LinesBegin, NextLine
<1> HIDE DEF f
<1>3. f[0] = start
  <2>1. 0 \in 0 .. Len(b)
    OBVIOUS
  <2>2. QED  BY <1>1, <2>1 DEF NextLine
<1>4. ASSUME NEW k \in 0 .. Len(b) - 1 PROVE f[k + 1] = Find(b, f[k], {"LF"}) + 1
  <2>1. k + 1 \in 0 .. Len(b) /\ k + 1 # 0 /\ (k + 1) - 1 = k
    OBVIOUS
  <2>2. f[k + 1] = NextLine(b, start, f, k + 1)
    BY <1>1, <2>1
  <2>3. QED  BY <2>1, <2>2 DEF NextLine
<1>5. QED  BY <1>2, <1>3, <1>4

(* A line that was read is a line of the text.                               *)
LEMMA LineEnds ==
  ASSUME NEW b, Len(b) \in Nat, NEW i \in 1 .. Len(b) + 1, NEW p, WholeLine(b, i, p)
  PROVE  Find(b, i, {"LF"}) + 1 = p
<1>1. p \in i + 1 .. Len(b) + 1 /\ b[p - 1] \in {"LF"} /\ \A k \in i .. p - 2 : b[k] # "LF"
  BY DEF WholeLine
<1> DEFINE f == p - 1
<1>2. i \in Nat /\ f \in i .. Len(b) + 1 /\ f + 1 = p /\ f - 1 = p - 2 /\ b[f] \in {"LF"}
  BY <1>1
<1>3. \A k \in i .. f - 1 : b[k] \notin {"LF"}
  BY <1>1, <1>2
<1> HIDE DEF f
<1>4. Find(b, i, {"LF"}) = f
  BY <1>2, <1>3, FindIs
<1>5. QED  BY <1>2, <1>4

(* the headers begin behind the first one,                                   *)
LEMMA FirstLineEnds ==
  ASSUME NEW S, NEW b \in Seq(S), NEW w \in Kinds, HeadersBegin(w, b) \in 1 .. Len(b) + 1
  PROVE  HeadersBegin(w, b) =
           IF w = "headers" THEN 1
           ELSE Find(b, IF b[1] \in Newline THEN EndOfLine(b, 1) ELSE 1, {"LF"}) + 1
<1> DEFINE start == HeadersBegin(w, b)
           i == LineStart(b)
<1>1. Len(b) \in Nat /\ 1 \in 1 .. Len(b) + 1 /\ start \in 1 .. Len(b) + 1
  OBVIOUS
<1>2. i = IF b[1] \in Newline THEN EndOfLine(b, 1) ELSE 1
  BY DEF LineStart
<1>3. ~Failed(start)
  <2> HIDE DEF start
  <2>1. QED  BY <1>1, Negative DEF Failed
<1>4. CASE w = "request"
  <2>1. start = Request(b)
    BY <1>4 DEF HeadersBegin
  <2>2. i \in 1 .. Len(b) + 1 /\ WholeLine(b, i, start)
    BY <1>3, <2>1, RequestType
  <2> HIDE DEF i, start
  <2>3. Find(b, i, {"LF"}) + 1 = start
    BY <1>1, <2>2, LineEnds
  <2>4. QED  BY <1>2, <1>4, <2>3 DEF start
<1>5. CASE w = "response"
  <2>1. start = Response(b)
    BY <1>5 DEF HeadersBegin
  <2>2. HttpVersion(b, 1) = 3 /\ WholeLine(b, 1, start)
    BY <1>1, <1>3, <2>1, ResponseParts
  <2>3. b[1] = "HTTP/1."
    BY <1>1, <2>2, HttpVersionType
  <2>4. i = 1
    BY <2>3 DEF LineStart, Newline
  <2> HIDE DEF i, start
  <2>5. Find(b, 1, {"LF"}) + 1 = start
    BY <1>1, <2>2, LineEnds
  <2>6. QED  BY <1>2, <1>5, <2>4, <2>5 DEF start
<1>6. CASE w = "headers"
  BY <1>6 DEF HeadersBegin
<1>7. QED  BY <1>4, <1>5, <1>6 DEF Kinds

(* and each of them is a line, up to the first empty one.                    *)
LEMMA HeadersAreTheLines ==
  ASSUME NEW S, NEW b \in Seq(S), NEW start \in 1 .. Len(b) + 1,
         AtHeader(b, start)[MaxHeaders] \in start .. Len(b),
         b[AtHeader(b, start)[MaxHeaders]] \in Newline,
         EndOfLine(b, AtHeader(b, start)[MaxHeaders]) >= 0
  PROVE  LET begin == LinesBegin(b, start)
             lines == Min({n \in 0 .. Len(b) : TextLine(b, begin[n]) = <<>>})
         IN HeaderList(b, start) = [k \in 1 .. lines |-> NameAndValue(TextLine(b, begin[k - 1]), k)]
<1> DEFINE at == AtHeader(b, start)
           i == at[MaxHeaders]
           n == HeaderCount(at)
           begin == LinesBegin(b, start)
<1>1. Len(b) \in Nat /\ MaxHeaders \in Nat /\ i \in start .. Len(b) /\ b[i] \in Newline /\ EndOfLine(b, i) >= 0
  BY HeadersAssumption, MessagesAssumption
<1>2. at[0] = start
  BY AtHeaderIs
<1>3. begin[0] = start /\ \A k \in 0 .. Len(b) - 1 : begin[k + 1] = Find(b, begin[k], {"LF"}) + 1
  BY <1>1, LinesBeginIs
<1>4. HeaderList(b, start) = [k \in 1 .. n |-> Header(b, at[k - 1], k - 1)]
  BY DEF HeaderList
<1>5. /\ n \in 0 .. MaxHeaders /\ at[n] = i
      /\ \A k \in 0 .. n - 1 : /\ at[k] \in start .. Len(b) /\ at[k] < i
                               /\ b[at[k]] \notin Newline
                               /\ at[k + 1] = HeaderLine(b, at[k], k)
                               /\ at[k + 1] \in start .. i
  <2>1. at[MaxHeaders] >= 0
    <3> HIDE DEF at
    <3>1. QED  BY <1>1
  <2>2. QED  BY <1>1, <2>1, AtHeaderParts
<1> HIDE DEF at, i, n, begin
<1>6. \A k \in 0 .. n - 1 :
         /\ k \in Nat /\ at[k] \in 1 .. Len(b) /\ HeaderLine(b, at[k], k) >= 0
         /\ at[k + 1] = Find(b, at[k], {"LF"}) + 1 /\ at[k + 1] > at[k] /\ at[k + 1] \in Int
  <2> SUFFICES ASSUME NEW k \in 0 .. n - 1
               PROVE  /\ k \in Nat /\ at[k] \in 1 .. Len(b) /\ HeaderLine(b, at[k], k) >= 0
                      /\ at[k + 1] = Find(b, at[k], {"LF"}) + 1 /\ at[k + 1] > at[k] /\ at[k + 1] \in Int
    OBVIOUS
  <2>1. k \in Nat /\ at[k] \in 1 .. Len(b)
    BY <1>1, <1>5
  <2>2. at[k + 1] = HeaderLine(b, at[k], k) /\ at[k + 1] \in start .. i
    BY <1>5
  <2>3. at[k + 1] >= 0 /\ at[k + 1] \in Int
    BY <1>1, <2>2
  <2>4. Failed(at[k + 1]) \/ WholeLine(b, at[k], at[k + 1])
    BY <1>1, <2>1, <2>2, HeaderLineType
  <2>5. WholeLine(b, at[k], at[k + 1])
    BY <2>3, <2>4, Negative DEF Failed
  <2>6. Find(b, at[k], {"LF"}) + 1 = at[k + 1]
    BY <1>1, <2>1, <2>5, LineEnds
  <2>7. QED  BY <2>1, <2>2, <2>3, <2>5, <2>6 DEF WholeLine
<1> DEFINE T == {k \in 0 .. n : at[k] \in Int /\ at[k] >= k + 1 /\ (k <= Len(b) => begin[k] = at[k])}
<1>7. \A k \in 0 .. n : k \in T
  <2>1. 0 \in T /\ n \in Nat
    BY <1>1, <1>2, <1>3, <1>5
  <2>2. \A k \in 0 .. n - 1 : k \in T => k + 1 \in T
    <3> SUFFICES ASSUME NEW k \in 0 .. n - 1, k \in T PROVE k + 1 \in T
      OBVIOUS
    <3>1. /\ at[k + 1] = Find(b, at[k], {"LF"}) + 1 /\ at[k + 1] > at[k] /\ at[k + 1] \in Int
          /\ at[k] \in Int /\ at[k] >= k + 1 /\ k + 1 \in 0 .. n
      BY <1>6, <2>1
    <3>2. at[k + 1] >= (k + 1) + 1
      BY <3>1
    <3>3. k + 1 <= Len(b) => begin[k + 1] = at[k + 1]
      <4> SUFFICES ASSUME k + 1 <= Len(b) PROVE begin[k + 1] = at[k + 1]
        OBVIOUS
      <4>1. k \in 0 .. Len(b) - 1 /\ k <= Len(b)
        BY <1>1
      <4>2. begin[k + 1] = Find(b, begin[k], {"LF"}) + 1 /\ begin[k] = at[k]
        BY <1>3, <4>1
      <4>3. QED  BY <3>1, <4>2
    <3>4. QED  BY <3>1, <3>2, <3>3
  <2> HIDE DEF T
  <2>3. QED  BY <2>1, <2>2, SetInduction
<1>8. n \in 0 .. Len(b) /\ \A k \in 0 .. n : k \in 0 .. Len(b) /\ begin[k] = at[k]
  <2>1. at[n] \in Int /\ at[n] >= n + 1 /\ n \in Nat
    BY <1>5, <1>7
  <2>2. n \in 0 .. Len(b)
    BY <1>1, <1>5, <2>1
  <2>3. QED  BY <1>7, <2>2
<1> HIDE DEF T
<1>9. TextLine(b, begin[n]) = <<>>
  <2>1. i \in 1 .. Len(b)
    BY <1>1
  <2>2. TextLine(b, i) = SubSeq(b, i, i - 1)
    BY <1>1, <2>1, EmptyLineText
  <2>3. SubSeq(b, i, i - 1) = <<>>
    BY <2>1
  <2>4. begin[n] = i
    BY <1>5, <1>8
  <2>5. QED  BY <2>2, <2>3, <2>4
<1>10. \A k \in 0 .. n - 1 : /\ TextLine(b, begin[k]) # <<>>
                             /\ Header(b, at[k], k) = NameAndValue(TextLine(b, begin[k]), k + 1)
  <2> SUFFICES ASSUME NEW k \in 0 .. n - 1
               PROVE  /\ TextLine(b, begin[k]) # <<>>
                      /\ Header(b, at[k], k) = NameAndValue(TextLine(b, begin[k]), k + 1)
    OBVIOUS
  <2>1. k \in Nat /\ at[k] \in 1 .. Len(b) /\ HeaderLine(b, at[k], k) >= 0 /\ b[at[k]] \notin Newline
    BY <1>5, <1>6
  <2>2. begin[k] = at[k]
    BY <1>8
  <2>3. QED  BY <2>1, <2>2, HeaderIsLine
<1> DEFINE U == {m \in 0 .. Len(b) : TextLine(b, begin[m]) = <<>>}
<1>11. Min(U) = n
  <2>1. U \subseteq Int /\ n \in U
    BY <1>8, <1>9
  <2>2. \A m \in U : n <= m
    <3> SUFFICES ASSUME NEW m \in 0 .. Len(b), TextLine(b, begin[m]) = <<>>, m < n PROVE FALSE
      BY <1>8
    <3>1. m \in 0 .. n - 1
      BY <1>8
    <3>2. QED  BY <1>10, <3>1
  <2> HIDE DEF U
  <2>3. QED  BY <2>1, <2>2, MinIs
<1>12. ASSUME NEW k \in 1 .. n
       PROVE  Header(b, at[k - 1], k - 1) = NameAndValue(TextLine(b, begin[k - 1]), k)
  <2>1. k - 1 \in 0 .. n - 1 /\ (k - 1) + 1 = k
    BY <1>8
  <2>2. Header(b, at[k - 1], k - 1) = NameAndValue(TextLine(b, begin[k - 1]), (k - 1) + 1)
    BY <1>10, <2>1
  <2>3. QED  BY <2>1, <2>2
<1>13. HeaderList(b, start) = [k \in 1 .. n |-> NameAndValue(TextLine(b, begin[k - 1]), k)]
  BY <1>4, <1>12
<1>14. QED  BY <1>11, <1>13 DEF begin

(* Success is what one call on the whole text returns.                       *)
THEOREM HeadersAreTheMessageLines == ParserSpec => []HeadersAreLines
<1> DEFINE Inv == ParserType /\ (answer.pos >= 0 => answer = Whole(kind, text))
<1>1. ParserInit => Inv
  BY Negative DEF ParserInit, ParserType, Stop
<1>2. Inv /\ [ParserNext]_parser /\ ParserType' => Inv'
  <2> SUFFICES ASSUME ParserType, answer.pos >= 0 => answer = Whole(kind, text), [ParserNext]_parser, ParserType',
                      answer'.pos >= 0
               PROVE  answer' = Whole(kind', text')
    BY DEF kind
  <2>1. CASE Ask
    <3>1. text' = text /\ kind' = kind /\ answer' = Parse(kind, text, last) /\ last < Len(text)
      BY <2>1 DEF Ask, kind
    <3> DEFINE s == IsComplete(text, ScanFrom(last))
               w == Whole(kind, text)
    <3>2. answer' = IF last # 0 /\ s < 0 THEN Stop(s) ELSE w
      BY <3>1 DEF Parse
    <3>3. Len(text) \in Nat /\ last \in 0 .. Len(text)
      BY DEF ParserType
    <3>4. s \in Int
      <4>1. ScanFrom(last) \in 1 .. Len(text) + 1
        BY <3>1, <3>3 DEF ScanFrom
      <4>2. QED  BY <3>3, <4>1, IsCompleteType
    <3> HIDE DEF s, w
    <3>5. ~(last # 0 /\ s < 0)
      BY <3>2, <3>4 DEF Stop
    <3>6. answer' = w
      BY <3>2, <3>5
    <3>7. QED  BY <3>1, <3>6 DEF w
  <2>2. ASSUME NEW c \in ParserCharacters, Arrive(c) PROVE answer' = Whole(kind', text')
    BY <2>2, Negative DEF Arrive
  <2>3. CASE UNCHANGED parser
    BY <2>3 DEF kind, parser
  <2>4. QED  BY <2>1, <2>2, <2>3 DEF ParserNext
<1>3. Inv => HeadersAreLines
  <2> SUFFICES ASSUME ParserType, answer = Whole(kind, text), answer.pos >= 0 PROVE HeadersAreLines
    BY DEF HeadersAreLines
  <2> DEFINE start == HeadersBegin(kind, text)
             i == AtHeader(text, start)[MaxHeaders]
             w == Whole(kind, text)
  <2>1. text \in Seq(ParserCharacters) /\ kind \in Kinds /\ w.pos >= 0
    BY KindIs DEF ParserType
  <2>2. /\ start \in 1 .. Len(text) + 1
        /\ i \in start .. Len(text) /\ text[i] \in Newline
        /\ w = [pos |-> EndOfLine(text, i), headers |-> HeaderList(text, start)]
        /\ EndOfLine(text, i) >= 0
    <3>1. \/ w = Stop(EOF) \/ w = Stop(BAD)
          \/ /\ start \in 1 .. Len(text) + 1 /\ Lines(text, 1, start)
             /\ i \in start .. Len(text) /\ text[i] \in Newline /\ Lines(text, start, i)
             /\ w = [pos |-> EndOfLine(text, i), headers |-> HeaderList(text, start)]
             /\ WholeLine(text, i, EndOfLine(text, i)) /\ EndOfLine(text, i) >= 0
      BY <2>1, WholeType
    <3> HIDE DEF w, start, i
    <3>2. w # Stop(EOF) /\ w # Stop(BAD)
      BY <2>1, Negative DEF Stop
    <3>3. QED  BY <3>1, <3>2
  <2>3. start = IF kind = "headers" THEN 1
                ELSE Find(text, IF text[1] \in Newline THEN EndOfLine(text, 1) ELSE 1, {"LF"}) + 1
    BY <2>1, <2>2, FirstLineEnds
  <2>4. LET begin == LinesBegin(text, start)
            lines == Min({n \in 0 .. Len(text) : TextLine(text, begin[n]) = <<>>})
        IN HeaderList(text, start) =
             [k \in 1 .. lines |-> NameAndValue(TextLine(text, begin[k - 1]), k)]
    BY <2>1, <2>2, HeadersAreTheLines
  <2>5. answer.headers = HeaderList(text, start)
    BY <2>2
  <2> HIDE DEF start, i, w
  <2>6. QED  BY <2>3, <2>4, <2>5 DEF HeadersAreLines
<1>4. QED  BY <1>1, <1>2, <1>3, ParserTypeCorrect, PTL DEF ParserSpec
=============================================================================
