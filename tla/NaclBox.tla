------------------------------ MODULE NaclBox ------------------------------
(* examples/tweetnacl/main.c: keys and a nonce are drawn, Alice encrypts a   *)
(* message, puts the nonce before it and writes both in Base64; Bob undoes   *)
(* that. The cipher and the authenticator are parameters.                    *)
EXTENDS Base64

CONSTANTS KEYBYTES, NONCEBYTES, ZEROBYTES, BOXZEROBYTES,
          Stream(_, _),      \* the key stream of a key and nonce: an octet for each position
          Auth(_, _),        \* the BOXZEROBYTES octets of the authenticator of a text
          Nonce,             \* what is drawn for the nonce
          BoxMessages,       \* what Alice may say
          ReadSizes          \* octets one read of the device returns, at most

VARIABLES at, platform,
          message,
          request, offset,   \* calls of randombytes done; x, counted from its beginning
          filled,            \* octets set by the call
          fd,                \* the device is open
          io, wire,          \* alice_out, then bob_in; alice_encode_buf
          heard, plain,      \* bob_decode_buf, bob_out
          result
drawing == <<request, offset, filled, fd>>
texts == <<io, wire, heard, plain, result>>
vars == <<at, platform, message, drawing, texts>>

Requests == <<KEYBYTES, KEYBYTES, NONCEBYTES>>
NoText == /\ request = 1 /\ offset = 0 /\ filled = {} /\ fd = FALSE
          /\ io = <<>> /\ wire = <<>> /\ heard = <<>> /\ plain = <<>> /\ result = 0
Init == /\ platform \in {"posix", "windows"} /\ message \in BoxMessages /\ at = "random" /\ NoText

(* randombytes: open and read are repeated while they fail, and a read may   *)
(* return less than asked for; rand_s gives four octets at a time.           *)
Here == at = "random" /\ offset < Requests[request]
Fill(n) == filled' = filled \cup offset .. offset + n - 1
OpenDevice == /\ Here /\ platform = "posix" /\ ~fd /\ fd' = TRUE
              /\ UNCHANGED <<at, platform, message, request, offset, filled, texts>>
(* Mutant: what is missing of a short read is not asked for again.           *)
DrawOnce(n) == /\ Here /\ n <= Requests[request] - offset /\ Fill(n)
               /\ offset' = Requests[request]
               /\ UNCHANGED <<at, platform, message, request, fd, texts>>
Draw(n) == /\ Here /\ n <= Requests[request] - offset /\ Fill(n)
           /\ offset' = offset + n
           /\ UNCHANGED <<at, platform, message, request, fd, texts>>
Least(m, n) == IF m < n THEN m ELSE n
ReadDevice(n) == platform = "posix" /\ fd /\ Draw(n)
RandS == platform = "windows" /\ Draw(Least(4, Requests[request] - offset))
Drawn == /\ at = "random" /\ offset = Requests[request]
         /\ IF request < 3 THEN request' = request + 1 /\ offset' = 0 /\ filled' = {} /\ UNCHANGED at
                           ELSE at' = "box" /\ UNCHANGED <<request, offset, filled>>
         /\ UNCHANGED <<platform, message, fd, texts>>

(* crypto_box of Bob's public and Alice's secret key is crypto_box of the    *)
(* shared key; opening, with the other two, is of the same one.              *)
Shared(public, secret) == {public, secret}

(* C's operator, of octets. *)
Xor(m, n) == LET digit(p) == p * (((m \div p) + (n \div p)) % 2)
             IN digit(1) + digit(2) + digit(4) + digit(8)
                  + digit(16) + digit(32) + digit(64) + digit(128)

(* The buffer begins with ZEROBYTES zeros, the box with BOXZEROBYTES and the *)
(* authenticator of what is behind it, under the first half of the stream.   *)
Xored(m, key, n) == LET stream == Stream(key, n) IN [k \in DOMAIN m |-> Xor(m[k], stream[k])]
Rest(s, n) == SubSeq(s, n + 1, Len(s))
Tag(c, key, n) == Auth(Rest(c, ZEROBYTES), SubSeq(Xored(Zeros(ZEROBYTES), key, n), 1, ZEROBYTES))
Box(m, key, n) == LET c == Xored(m, key, n)
                  IN Zeros(BOXZEROBYTES) \o Tag(c, key, n) \o Rest(c, ZEROBYTES)
Opens(c, key, n) == /\ Len(c) >= ZEROBYTES
                    /\ SubSeq(c, BOXZEROBYTES + 1, ZEROBYTES) = Tag(c, key, n)

AliceBoxes == /\ at = "box" /\ at' = "encode"
              /\ io' = Box(Zeros(ZEROBYTES) \o message, Shared("Bob", "Alice"), Nonce)
              /\ UNCHANGED <<platform, message, drawing, wire, heard, plain, result>>
AliceEncodes == /\ at = "encode" /\ at' = "decode"
                /\ wire' = Encode(Nonce \o Rest(io, BOXZEROBYTES))
                /\ UNCHANGED <<platform, message, drawing, io, heard, plain, result>>

(* bob_decode_len is the length announced, a multiple of 3, and is asserted  *)
(* to be what Alice encrypted.                                               *)
(* Mutant: the length announced is taken with the zero behind it.            *)
BobLengthWithZero == DecodeLen(wire)
BobLength == DecodeLen(wire) - 1
EncryptLength == Len(message) + ZEROBYTES - BOXZEROBYTES + NONCEBYTES
BobDecodes == /\ at = "decode" /\ heard' = Decode(wire)
              /\ at' = IF BobLength = EncryptLength THEN "open" ELSE "aborted"
              /\ UNCHANGED <<platform, message, drawing, io, wire, plain, result>>
BobOpens == LET in == Zeros(BOXZEROBYTES) \o SubSeq(heard, NONCEBYTES + 1, BobLength)
                n == SubSeq(heard, 1, NONCEBYTES)
                key == Shared("Alice", "Bob")
            IN /\ at = "open" /\ io' = in
               /\ IF Opens(in, key, n)
                  THEN result' = 0 /\ plain' = Rest(Xored(in, key, n), ZEROBYTES) /\ at' = "read"
                  ELSE result' = -1 /\ at' = "aborted" /\ UNCHANGED plain
               /\ UNCHANGED <<platform, message, drawing, wire, heard>>

Next == \/ OpenDevice \/ (\E n \in ReadSizes : ReadDevice(n)) \/ RandS \/ Drawn
        \/ AliceBoxes \/ AliceEncodes \/ BobDecodes \/ BobOpens
Spec == Init /\ [][Next]_vars

-----------------------------------------------------------------------------
(* Keys and nonce are drawn to their last octet, however short the reads.    *)
(* Bob reads what Alice wrote, of every length for which the Base64 text has *)
(* no padding; of another the example asserts.                               *)
MessageArrives ==
  /\ offset = Requests[request] => filled = 0 .. offset - 1
  /\ at = "read" => plain = message
  /\ at = "aborted" => EncryptLength % 3 # 0

(* What makes it inductive: how much is drawn, and what Alice has sent.      *)
Boxed == Box(Zeros(ZEROBYTES) \o message, Shared("Bob", "Alice"), Nonce)
Sent == Nonce \o Rest(Boxed, BOXZEROBYTES)
IInv == /\ at \in {"random", "box", "encode", "decode", "open", "read", "aborted"}
        /\ message \in BoxMessages /\ request \in 1 .. 3 /\ offset \in Nat
        /\ filled = 0 .. offset - 1
        /\ at = "encode" => io = Boxed
        /\ at \in {"decode", "open"} => wire = Encode(Sent)
        /\ at = "open" => heard = Decode(wire) /\ BobLength = EncryptLength
        /\ MessageArrives

(* Encoder and decoder agree with the bits, the message taken as octets, and *)
(* as a text with padding anywhere.                                          *)
CodecCorrect == EncodesBits(message) /\ DecodesBits([k \in DOMAIN message |-> message[k] % 65] \o <<PAD>>)
=============================================================================
