---------------------------- MODULE ChunkDecoder ----------------------------
(* picohttpparser's phr_decode_chunked: a body in chunks arrives in pieces   *)
(* and each piece is decoded in its own buffer, the data moved to the front  *)
(* over the sizes and newlines that were between.                            *)
EXTENDS Integers, Sequences, FiniteSetsExt

CONSTANTS Digit,              \* [characters that are hexadecimal digits -> 0 .. 15]
          Others,             \* other characters, among them "CR" and "LF"
          HexMax,             \* sizeof(size_t) * 2
          Power,              \* powers of 16 up to the range of size_t
          Bodies              \* what may be sent

Characters == DOMAIN Digit \cup Others
ASSUME DigitAssumption == Digit \in [DOMAIN Digit -> 0 .. 15]
ASSUME OthersAssumption == {"CR", "LF"} \subseteq Others /\ Others \cap DOMAIN Digit = {}
ASSUME HexMaxAssumption == HexMax \in Nat \ {0}
ASSUME PowerAssumption == /\ Power \in [0 .. HexMax -> Nat \ {0}] /\ Power[0] = 1
                          /\ \A h \in 1 .. HexMax : Power[h] = 16 * Power[h - 1]
ASSUME BodiesAssumption == Bodies \subseteq Seq(Characters)

VARIABLES trailer,            \* consume_trailer
          state, left, hexes, \* _state, bytes_left_in_chunk, _hex_count
          buf, src, dst,      \* of the call; src and dst are counts
          running, ret,
          source,             \* history: the body that is sent,
          body, decoded       \* what of it arrived, what was decoded by ended calls
decoder == <<trailer, state, left, hexes>>
history == <<source, body, decoded>>
vars == <<decoder, buf, src, dst, running, ret, history>>

EXIT == -2
Init == /\ source \in Bodies
        /\ trailer \in BOOLEAN /\ state = "SIZE" /\ left = 0 /\ hexes = 0
        /\ buf = <<>> /\ src = 0 /\ dst = 0 /\ running = FALSE /\ ret = EXIT
        /\ body = <<>> /\ decoded = <<>>

(* The caller hands in the next n characters while the answer is -2.         *)
Call(n) == /\ ~running /\ ret = EXIT /\ running' = TRUE
           /\ buf' = SubSeq(source, Len(body) + 1, Len(body) + n) /\ src' = 0 /\ dst' = 0
           /\ body' = body \o buf'
           /\ UNCHANGED <<decoder, ret, source, decoded>>

(* memmove(buf + to, buf + from, n)                                          *)
Moved(b, to, from, n) ==
  [k \in 1 .. Len(b) |-> IF k > to /\ k <= to + n THEN b[k - to + from] ELSE b[k]]

Leave(answer, b, d, s) ==
  /\ running' = FALSE /\ ret' = answer
  /\ buf' = Moved(b, d, s, Len(b) - s)
  /\ decoded' = decoded \o SubSeq(b, 1, d)
  /\ src' = s /\ dst' = d /\ UNCHANGED <<source, body>>
Here == buf[src + 1]
Ahead == running /\ src < Len(buf)
Past == /\ src' = src + 1 /\ UNCHANGED <<trailer, buf, dst, running, ret, history>>

(* The buffer is used up, between any two characters outside of data.        *)
Starve == /\ running /\ state # "DATA" /\ src = Len(buf)
          /\ Leave(EXIT, buf, dst, src) /\ UNCHANGED decoder

(* Mutant: one digit more than size_t has.                                   *)
SizeDigitOneMore == /\ Ahead /\ state = "SIZE" /\ Here \in DOMAIN Digit
                    /\ IF hexes > HexMax
                       THEN Leave(-1, buf, dst, src) /\ UNCHANGED decoder
                       ELSE /\ left' = left * 16 + Digit[Here] /\ hexes' = hexes + 1
                            /\ Past /\ UNCHANGED state
SizeDigit == /\ Ahead /\ state = "SIZE" /\ Here \in DOMAIN Digit
             /\ IF hexes = HexMax
                THEN Leave(-1, buf, dst, src) /\ UNCHANGED decoder
                ELSE /\ left' = left * 16 + Digit[Here] /\ hexes' = hexes + 1
                     /\ Past /\ UNCHANGED state
(* Mutant: the count of digits goes on over the chunks.                      *)
SizeEndNoReset == /\ Ahead /\ state = "SIZE" /\ Here \notin DOMAIN Digit
                  /\ IF hexes = 0 THEN Leave(-1, buf, dst, src) /\ UNCHANGED decoder
                     ELSE /\ state' = "EXT"
                          /\ UNCHANGED <<trailer, left, hexes, buf, src, dst, running, ret, history>>
SizeEnd == /\ Ahead /\ state = "SIZE" /\ Here \notin DOMAIN Digit
           /\ IF hexes = 0 THEN Leave(-1, buf, dst, src) /\ UNCHANGED decoder
              ELSE /\ hexes' = 0 /\ state' = "EXT"
                   /\ UNCHANGED <<trailer, left, buf, src, dst, running, ret, history>>

(* The rest of the size line; after a size of 0 the body ends.               *)
ExtSkip == /\ Ahead /\ state = "EXT" /\ Here # "LF" /\ Past /\ UNCHANGED <<state, left, hexes>>
ExtEnd == /\ Ahead /\ state = "EXT" /\ Here = "LF"
          /\ IF left = 0 /\ ~trailer
             THEN Leave(Len(buf) - src - 1, buf, dst, src + 1) /\ UNCHANGED decoder
             ELSE /\ state' = (IF left = 0 THEN "LINE_HEAD" ELSE "DATA")
                  /\ Past /\ UNCHANGED <<left, hexes>>

(* n bytes of the chunk, of which rest remain to come.                       *)
Take(n, rest) ==
  LET b == Moved(buf, dst, src, n)
  IN /\ left' = rest /\ UNCHANGED <<trailer, hexes>>
     /\ IF n < left
        THEN Leave(EXIT, b, dst + n, src + n) /\ UNCHANGED state
        ELSE /\ state' = "CRLF" /\ buf' = b /\ src' = src + n /\ dst' = dst + n
             /\ UNCHANGED <<running, ret, history>>
Available == IF Len(buf) - src < left THEN Len(buf) - src ELSE left
Data == running /\ state = "DATA" /\ Take(Available, left - Available)

SkipCR == /\ Ahead /\ state \in {"CRLF", "LINE_HEAD"} /\ Here = "CR"
          /\ Past /\ UNCHANGED <<state, left, hexes>>
ChunkEnd == /\ Ahead /\ state = "CRLF" /\ Here # "CR"
            /\ IF Here = "LF" THEN state' = "SIZE" /\ Past /\ UNCHANGED <<left, hexes>>
                              ELSE Leave(-1, buf, dst, src) /\ UNCHANGED decoder

(* Trailing lines up to an empty one.                                        *)
LineHead == /\ Ahead /\ state = "LINE_HEAD" /\ Here # "CR"
            /\ IF Here = "LF"
               THEN Leave(Len(buf) - src - 1, buf, dst, src + 1) /\ UNCHANGED decoder
               ELSE state' = "LINE_MIDDLE" /\ Past /\ UNCHANGED <<left, hexes>>
LineMiddle == /\ Ahead /\ state = "LINE_MIDDLE"
              /\ state' = (IF Here = "LF" THEN "LINE_HEAD" ELSE state)
              /\ Past /\ UNCHANGED <<left, hexes>>

Decode == \/ Starve \/ SizeDigit \/ SizeEnd \/ ExtSkip \/ ExtEnd \/ Data
          \/ SkipCR \/ ChunkEnd \/ LineHead \/ LineMiddle
Next == Decode \/ \E n \in 1 .. Len(source) - Len(body) : Call(n)
Spec == Init /\ [][Next]_vars

-----------------------------------------------------------------------------
(* The decoder reads and moves inside its buffer, data never towards the     *)
(* end, and the size, with at most HexMax digits, does not wrap around       *)
(* size_t.                                                                   *)
InBuffer == /\ 0 <= dst /\ dst <= src /\ src <= Len(buf)
            /\ left < Power[HexMax] /\ hexes <= HexMax

(* What is behind the end of the body is handed back, right behind the data: *)
(* ret octets from the offset *_bufsz.                                       *)
RestHandedBack ==
  ret >= 0 => /\ dst + ret <= Len(buf)
              /\ SubSeq(buf, dst + 1, dst + ret) = SubSeq(body, Len(body) - ret + 1, Len(body))

(* The body without cuts, by its grammar. Of the first n characters of       *)
(* source, the first from i on that is in S, or n + 1.                       *)
First(S, i, n) == Min({j \in i .. n : source[j] \in S} \cup {n + 1})
(* The number that the digits from i to j write.                             *)
Number(i, j) ==
  LET upTo[k \in i - 1 .. Len(source)] == IF k < i THEN 0 ELSE upTo[k - 1] * 16 + Digit[source[k]]
  IN upTo[j]

(* A chunk that begins at i: the end of its digits, of its size line, its    *)
(* size and the data that is there, and what comes next but for CRs.         *)
DigitsEnd(i, n) == First(Others, i, n)
LineEnd(i, n) == First({"LF"}, DigitsEnd(i, n), n)
Size(i, n) == Number(i, DigitsEnd(i, n) - 1)
HasNoSize(i, n) == DigitsEnd(i, n) - i > HexMax \/ (DigitsEnd(i, n) = i /\ i <= n)
HasSize(i, n) == ~HasNoSize(i, n) /\ LineEnd(i, n) <= n
ChunkData(i, n) == IF HasSize(i, n)
                   THEN SubSeq(source, LineEnd(i, n) + 1, Min({LineEnd(i, n) + Size(i, n), n}))
                   ELSE <<>>
ChunkStop(i, n) == First(Characters \ {"CR"}, LineEnd(i, n) + Size(i, n) + 1, n)
(* A line of trailers that begins at e or later and is empty ends at m.      *)
EmptyLine(e, m) == /\ source[m] = "LF"
                   /\ \E b \in e .. m : /\ (b = e \/ source[b - 1] = "LF")
                                        /\ \A k \in b .. m - 1 : source[k] = "CR"
TrailerEnd(e, n) == IF \A m \in e .. n : ~EmptyLine(e, m) THEN EXIT
                    ELSE n - Min({m \in e .. n : EmptyLine(e, m)})
IsFollowed(i, n) == /\ HasSize(i, n) /\ Size(i, n) > 0 /\ ChunkStop(i, n) <= n
                    /\ source[ChunkStop(i, n)] = "LF"
LastAnswer(i, n) ==
  IF HasNoSize(i, n) THEN -1
  ELSE IF ~HasSize(i, n) THEN EXIT
  ELSE IF Size(i, n) > 0 THEN IF ChunkStop(i, n) > n THEN EXIT ELSE -1
  ELSE IF trailer THEN TrailerEnd(LineEnd(i, n) + 1, n) ELSE n - LineEnd(i, n)

(* Chunk by chunk: <<what one call returns for all of it, the data>>.        *)
Chunks(n) ==
  LET from[i \in 1 .. n + 1] ==
        IF IsFollowed(i, n)
        THEN LET rest == from[ChunkStop(i, n) + 1]
             IN <<rest[1], ChunkData(i, n) \o rest[2]>>
        ELSE <<LastAnswer(i, n), ChunkData(i, n)>>
  IN from
Unchunked(n) == Chunks(n)[1]

(* However a body was cut into pieces, the answer of the last call and the   *)
(* data of all of them are those of one call, and what is behind the end is  *)
(* handed back in place.                                                     *)
CutIndependent == /\ ~running => <<ret, decoded>> = Unchunked(Len(body))
                  /\ RestHandedBack
=============================================================================
