----------------------------- MODULE MCExamples -----------------------------
(* Three of the example programs, of which one runs, chosen at the start:    *)
(* the blur, the file search and the exchange of an encrypted message. The   *)
(* variables of the others keep their initial values.                        *)
EXTENDS StackBlur, Sequences

CONSTANTS Names, Root, Home, Trees, Target, Directories, Hidden, LongExts, MaxLinks, MaxPaths, MaxChanges
CONSTANTS KEYBYTES, NONCEBYTES, ZEROBYTES, BOXZEROBYTES,
          Stream(_, _), Auth(_, _), Nonce, BoxMessages, ReadSizes
ASSUME FilesAssumption == /\ Home \in [Names -> Directories] /\ {".", "none"} \cap Names = {}
                          /\ Trees \subseteq SUBSET Names
                          /\ MaxPaths \subseteq Nat /\ MaxLinks \in Nat

VARIABLES program, platform, at
VARIABLES asserts, maxPath, present, steady, frames, handles, passed, unseen, unlisted, changes
VARIABLES message, request, offset, filled, fd, io, wire, heard, plain, result
Files == INSTANCE FileTraverse
Nacl == INSTANCE NaclBox

(* The cipher: of the length and type it has; octets. *)
ASSUME NaclAssumption ==
  /\ KEYBYTES \in Nat /\ NONCEBYTES \in Nat /\ BOXZEROBYTES \in Nat
  /\ ZEROBYTES = 2 * BOXZEROBYTES /\ ReadSizes \subseteq Nat
  /\ BoxMessages \subseteq Seq(Byte) /\ Nonce \in [1 .. NONCEBYTES -> Byte]
ASSUME CipherAssumption == \A m \in BoxMessages :
  LET in == Nacl!Zeros(ZEROBYTES) \o m
      key == {"Alice", "Bob"}
  IN /\ \A k \in DOMAIN in : Stream(key, Nonce)[k] \in Byte
     /\ Nacl!Tag(Nacl!Xored(in, key, Nonce), key, Nonce) \in [1 .. BOXZEROBYTES -> Byte]

blurVars == vars
fileVars == <<asserts, maxPath, present, steady, frames, handles, passed, unseen, unlisted,
              changes>>
naclVars == <<message, request, offset, filled, fd, io, wire, heard, plain, result>>
allVars == <<program, platform, at, blurVars, fileVars, naclVars>>

Blank == [c \in Cells |-> 10]
NoWalk == /\ asserts = FALSE /\ maxPath = 0 /\ present = {} /\ steady = {} /\ frames = <<>>
          /\ handles = 0 /\ passed = <<>> /\ changes = 0 /\ unseen = {} /\ unlisted = {}
NoBox == message = <<>> /\ Nacl!NoText
NoBlur == Init /\ image = Blank /\ step = 1 /\ radius \in Radii

BlurInit == program = "blur" /\ Init /\ platform = "posix" /\ at = "start" /\ NoWalk /\ NoBox
FilesInit == program = "files" /\ Files!Init /\ NoBlur /\ NoBox
NaclInit == program = "nacl" /\ Nacl!Init /\ NoBlur /\ NoWalk
BlurStep == program = "blur" /\ Next /\ UNCHANGED <<program, platform, at, fileVars, naclVars>>
FilesStep(A) == program = "files" /\ A /\ UNCHANGED <<program, blurVars, naclVars>>
NaclStep == program = "nacl" /\ Nacl!Next /\ UNCHANGED <<program, blurVars, fileVars>>

ExamplesInit == BlurInit \/ FilesInit \/ NaclInit
ExamplesNext == BlurStep \/ FilesStep(Files!Next) \/ NaclStep
ExamplesSpec == ExamplesInit /\ [][ExamplesNext]_allVars /\ WF_allVars(FilesStep(Files!Walk))
FilesSpec == FilesInit /\ [][FilesStep(Files!Next)]_allVars

-----------------------------------------------------------------------------
(* The file search: complete, and it ends; the assertion of cf_read_file.    *)
WalkComplete == program = "files" => Files!WalkComplete
WalkEnds == program = "files" => Files!WalkEnds
EntryWhenRead == program = "files" => Files!EntryWhenRead

(* The encrypted message: read by Bob; encoded and decoded as its bits say.  *)
MessageArrives == program = "nacl" => Nacl!MessageArrives
CodecCorrect == program = "nacl" => Nacl!CodecCorrect

-----------------------------------------------------------------------------
(* Rows longer, columns shorter than the radius.                             *)
MCImages == [(0..3) \X (0..1) -> {10, 200}]

(* A file, and a directory with a link back to the root in it; a hidden      *)
(* directory whose extension is too long may be created ("." is hidden, too). *)
MCHome == [n \in Names |-> IF n = "up" THEN "sub" ELSE "root"]
MCTrees == {Names \ {".d"}}
MCTarget == [n \in Names |-> IF n = "up" THEN "root" ELSE n]

(* A stream and an authenticator that depend on everything they are given.   *)
MCStream(key, n) == LET s == n[1] + n[NONCEBYTES] + (IF key = {"Alice", "Bob"} THEN 1 ELSE 0)
                    IN [k \in 1 .. 64 |-> (k * k + s) % 256]
MCAuth(t, k) == [j \in 1 .. BOXZEROBYTES |->
                  (k[j] + k[j + 16] + (IF j \in DOMAIN t THEN t[j] ELSE 0)) % 256]
MCNonce == [k \in 1 .. NONCEBYTES |-> 10 * k]
MCBoxMessages == UNION {[1 .. n -> {0, 64, 150, 255}] : n \in 0 .. 5} \cup {[k \in 1 .. 23 |-> k]}
=============================================================================
