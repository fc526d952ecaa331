---------------------------- MODULE MCHttpParser ----------------------------
(* The two halves of picohttpparser, of which one is used, chosen at the     *)
(* start: the chunk decoder, with the whole body decoded at once as the      *)
(* reference, and the parser of messages. The half that is not used stays    *)
(* where it began, with nothing decoded and no text.                         *)
EXTENDS ChunkDecoder, HttpParser

VARIABLE half
allVars == <<half, vars, parser>>
HalfInit == \/ half = "chunks" /\ Init
               /\ message = <<"headers", <<>> >> /\ text = <<>> /\ last = 0 /\ answer = Stop(EOF)
            \/ half = "parser" /\ ParserInit
               /\ Init /\ source = <<>> /\ ~trailer
HalfNext == \/ half = "chunks" /\ Next /\ UNCHANGED <<half, parser>>
            \/ half = "parser" /\ ParserNext /\ UNCHANGED <<half, vars>>
HalfSpec == HalfInit /\ [][HalfNext]_allVars

-----------------------------------------------------------------------------
MCDigit == [c \in {"0", "2"} |-> IF c = "2" THEN 2 ELSE 0]
MCPower == [h \in 0 .. 2 |-> 16 ^ h]

(* Two bodies, with trailing lines and a rest, in which one or two           *)
(* characters are any others; and no body.                                   *)
Replaced(bodies) == UNION {{[b EXCEPT ![k] = c] : k \in 1 .. Len(b), c \in Characters} : b \in bodies}
MCBodies ==
  {<<>>} \cup Replaced({<<"0", "2", "x", "LF", "x", "x", "CR", "LF", "2", "LF", "0", "x", "LF",
                         "0", "LF", "x", "LF", "LF", "x">>})
         \cup Replaced(Replaced({<<"2", "LF", "x", "x", "LF", "0", "LF", "x", "0">>}))

MCMessages ==
  {<<"request", <<"a", "SP", "a", "SP", "HTTP/1.", "1", "CR", "LF",
                  "a", ":", "SP", "a", "LF", "SP", "a", "CR", "LF", "CR", "LF">> >>,
   <<"request", <<"CR", "LF", "a", "SP", "a", "SP", "SP", "HTTP/1.", "1", "LF",
                  "a", ":", "LF", "LF", "a", "LF">> >>,
   <<"response", <<"HTTP/1.", "1", "SP", "1", "1", "1", "SP", "a", "CR", "LF",
                   "a", ":", "SP", "a", "SP", "LF", "CR", "LF", "a">> >>,
   <<"headers", <<"a", ":", "SP", "a", "CR", "LF", "HT", "a", "HT", "LF",
                  "a", ":", "a", "CR", "LF", "CR", "LF", "a", ":">> >>,
   <<"headers", <<"CR", "LF", "a", "LF", "LF", "a">> >>}
=============================================================================
