------------------------------- MODULE Base64 -------------------------------
(* base64.c of examples/tweetnacl. Octets are 0 .. 255; a character of a     *)
(* text is the six bits pr2six gives for it, 64 what stands for nothing: the *)
(* padding and the zero at the end.                                          *)
EXTENDS Integers, Sequences, SequencesExt

PAD == 64
EncodeLen(len) == ((len + 2) \div 3) * 4 + 1

(* Three octets s[i], s[i + 1], s[i + 2].                                    *)
Sextets(s, i) == <<s[i] \div 4, (s[i] % 4) * 16 + s[i + 1] \div 16,
                   (s[i + 1] % 16) * 4 + s[i + 2] \div 64, s[i + 2] % 64>>
Encode(s) ==
  LET whole == Len(s) \div 3
      i == 3 * whole + 1
      tail == IF Len(s) % 3 = 0 THEN <<>>
              ELSE IF Len(s) % 3 = 1 THEN <<s[i] \div 4, (s[i] % 4) * 16, PAD, PAD>>
              ELSE <<s[i] \div 4, (s[i] % 4) * 16 + s[i + 1] \div 16, (s[i + 1] % 16) * 4, PAD>>
  IN [k \in 1 .. 4 * whole |-> Sextets(s, 3 * ((k - 1) \div 4) + 1)[((k - 1) % 4) + 1]]
     \o tail \o <<PAD>>

(* nprbytes: the characters before the first that stands for nothing, which  *)
(* is the zero at the latest.                                                *)
Count(t) == SelectInSeq(t, LAMBDA c : c = PAD) - 1
DecodeLen(t) == ((Count(t) + 3) \div 4) * 3 + 1

Octets(t, i) == <<(t[i] * 4 + t[i + 1] \div 16) % 256, (t[i + 1] * 16 + t[i + 2] \div 4) % 256,
                  (t[i + 2] * 64 + t[i + 3]) % 256>>
(* The loop leaves the last 1 to 4 characters to the three ifs.              *)
Loops(t) == IF Count(t) = 0 THEN 0 ELSE (Count(t) - 1) \div 4
Decode(t) ==
  LET loops == Loops(t)
      rest == Count(t) - 4 * loops
      i == 4 * loops + 1
  IN [k \in 1 .. 3 * loops |-> Octets(t, 4 * ((k - 1) \div 3) + 1)[((k - 1) % 3) + 1]] \o
     (IF rest > 1 THEN SubSeq(Octets(t \o <<0, 0, 0>>, i), 1, rest - 1) ELSE <<>>)
(* What is returned. Mutant: without the mask & 3.                           *)
DecodedUnmasked(t) == DecodeLen(t) - 1 - (4 - (Count(t) - 4 * Loops(t)))
Decoded(t) == DecodeLen(t) - 1 - ((4 - (Count(t) - 4 * Loops(t))) % 4)

-----------------------------------------------------------------------------
(* The reference: a sequence of digits of w bits each is a string of bits,   *)
(* of which this is the nth.                                                 *)
Weight == <<1, 2, 4, 8, 16, 32, 64, 128>>
Bit(s, w, n) == (s[((n - 1) \div w) + 1] \div Weight[w - ((n - 1) % w)]) % 2
Zeros(n) == [k \in 1 .. n |-> 0]

(* An encoding has the bits of the octets, and zeros up to a whole number of *)
(* characters; it is padded to the length announced.                         *)
EncodesBits(s) ==
  LET e == Encode(s)
      sextets == (8 * Len(s) + 5) \div 6
  IN /\ \A k \in 1 .. sextets : e[k] \in 0 .. 63
     /\ \A n \in 1 .. 6 * sextets : Bit(e, 6, n) = IF n <= 8 * Len(s) THEN Bit(s, 8, n) ELSE 0
     /\ \A k \in sextets + 1 .. Len(e) : e[k] = PAD
     /\ Len(e) = EncodeLen(Len(s))

(* A text, whatever its length and whatever is in it, decodes to the octets  *)
(* its characters fill, as many as are returned and, with the zero, no more  *)
(* than announced.                                                           *)
DecodesBits(t) ==
  LET d == Decode(t)
  IN /\ Len(d) = (6 * Count(t)) \div 8
     /\ \A k \in 1 .. Len(d) : d[k] \in 0 .. 255
     /\ \A n \in 1 .. 8 * Len(d) : Bit(d, 8, n) = Bit(t, 6, n)
     /\ Len(d) = Decoded(t) /\ Len(d) + 1 <= DecodeLen(t)
=============================================================================
