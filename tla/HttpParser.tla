----------------------------- MODULE HttpParser -----------------------------
(* picohttpparser: requests, responses and header blocks that arrive in      *)
(* pieces and are parsed from the start at every call, behind a scan that    *)
(* begins shortly before the new bytes.                                      *)
(*                                                                           *)
(* A text is a sequence of characters of which one stands for each class the *)
(* code tells apart, and "HTTP/1." for its seven characters. Positions count *)
(* from 1; EOF and BAD are the results -2 and -1.                            *)
EXTENDS Integers, Sequences, FiniteSetsExt

CONSTANTS ParserCharacters,
          Messages,           \* what may arrive: a kind and a text each,
          MaxChanged,         \* bound: with so many characters replaced
          MaxHeaders          \* elements of the caller's header array
ASSUME HeadersAssumption == MaxHeaders \in Nat
ASSUME MessagesAssumption ==
  Messages \subseteq {"request", "response", "headers"} \X Seq(ParserCharacters)

EOF == -2
BAD == -1
Blank    == {"SP", "HT"}
Newline  == {"CR", "LF"}
Control  == Newline \cup {"HT", "NUL"}
Token    == {"a", "1"}        \* phr_token_char_map; "@" stands for no token character

(* The first position from i on with a character in S, else the end.         *)
Find(b, i, S) == Min({j \in i .. Len(b) : b[j] \in S} \cup {Len(b) + 1})
Skip(b, i, S) == Min({j \in i .. Len(b) : b[j] \notin S} \cup {Len(b) + 1})
Left(b, i) == Len(b) - i + 1 + 6 * Cardinality({j \in i .. Len(b) : b[j] = "HTTP/1."})
(* Mutant: CR at the end of the buffer is an error.                          *)
EndOfLineNow(b, i) == IF b[i] = "LF" THEN i + 1
                      ELSE IF i < Len(b) /\ b[i + 1] = "LF" THEN i + 2 ELSE BAD
EndOfLine(b, i) == IF b[i] = "LF" THEN i + 1
                   ELSE IF i = Len(b) THEN EOF
                   ELSE IF b[i + 1] = "LF" THEN i + 2 ELSE BAD

(* Two newlines behind each other, from start on.                            *)
IsComplete(b, start) ==
  LET from[i \in 1 .. Len(b) + 1] ==
        [newlines \in 0 .. 1 |->
           IF i > Len(b) THEN EOF
           ELSE IF b[i] \notin Newline THEN from[i + 1][0]
           ELSE LET j == EndOfLine(b, i)
                IN IF j < 0 \/ newlines = 1 THEN j ELSE from[j][1]]
  IN from[start][0]

(* Where the scan begins when last bytes were there before.                  *)
(* Mutant: only what is new, and one byte before.                            *)
ScanFromNew(last) == IF last < 1 THEN 1 ELSE last
ScanFrom(last) == IF last < 3 THEN 1 ELSE last - 2

ParseToken(b, i, next) ==
  LET j == Skip(b, i, Token \ {next})
  IN IF j > Len(b) THEN EOF ELSE IF b[j] = next THEN j ELSE BAD
AdvanceToken(b, i) ==
  LET j == Find(b, i, {"SP"} \cup Control)
  IN IF j > Len(b) THEN EOF ELSE IF b[j] = "SP" THEN j ELSE BAD
(* The first control character other than HT, which has to be the newline.   *)
TokenToEol(b, i) ==
  LET j == Find(b, i, Control \ {"HT"})
  IN IF j > Len(b) THEN EOF ELSE IF b[j] \in Newline THEN EndOfLine(b, j) ELSE BAD
HttpVersion(b, i) ==
  IF Left(b, i) < 9 THEN EOF
  ELSE IF b[i] = "HTTP/1." /\ b[i + 1] = "1" THEN i + 2 ELSE BAD

(* Trailing blanks are taken off [first .. last].                            *)
(* Mutant: the loop stops one before the first character.                    *)
TrimmedToOne(b, first, last) == Max({j \in first .. last : b[j] \notin Blank} \cup {first})
Trimmed(b, first, last) == Max({j \in first .. last : b[j] \notin Blank} \cup {first - 1})

(* The line at i behind k headers: where the next one begins, and what it    *)
(* says. A line that begins blank goes on with the value before it.          *)
Folded(b, i, k) == k > 0 /\ b[i] \in Blank
ValueStart(b, i, k) == IF Folded(b, i, k) THEN i ELSE Skip(b, ParseToken(b, i, ":") + 1, Blank)
HeaderLine(b, i, k) ==
  LET colon == ParseToken(b, i, ":")
  IN IF Folded(b, i, k) THEN TokenToEol(b, i)
     ELSE IF colon < 0 THEN colon
     ELSE IF colon = i THEN BAD
     ELSE IF ValueStart(b, i, k) > Len(b) THEN EOF
     ELSE TokenToEol(b, ValueStart(b, i, k))
Header(b, i, k) ==
  LET start == ValueStart(b, i, k)
  IN [name  |-> IF Folded(b, i, k) THEN <<>> ELSE SubSeq(b, i, ParseToken(b, i, ":") - 1),
      value |-> SubSeq(b, start, Trimmed(b, start, Find(b, start, Newline) - 1))]

(* Where the loop is behind k headers, or what it has returned by then.      *)
AtHeader(b, start) ==
  LET at[k \in 0 .. MaxHeaders] ==
        IF k = 0 THEN start
        ELSE LET i == at[k - 1]
             IN IF i < 0 \/ i > Len(b) \/ b[i] \in Newline THEN i ELSE HeaderLine(b, i, k - 1)
  IN at
Stop(p) == [pos |-> p]
Headers(b, start) ==
  LET at == AtHeader(b, start)
      i == at[MaxHeaders]
      end == EndOfLine(b, i)
  IN IF i < 0 THEN Stop(i)
     ELSE IF i > Len(b) THEN Stop(EOF)
     ELSE IF b[i] \notin Newline THEN Stop(BAD)
     ELSE IF end < 0 THEN Stop(end)
     ELSE [pos |-> end, headers |-> [k \in 1 .. Min({n \in 0 .. MaxHeaders : at[n] = i}) |->
                                       Header(b, at[k - 1], k - 1)]]

(* The first lines: where the headers begin.                                 *)
RequestLine(b, i) ==
  LET method == ParseToken(b, i, "SP")
      path == Skip(b, method + 1, {"SP"})
      pathEnd == AdvanceToken(b, path)
      version == Skip(b, pathEnd + 1, {"SP"})
      end == HttpVersion(b, version)
  IN IF method < 0 THEN method
     ELSE IF path > Len(b) THEN EOF
     ELSE IF pathEnd < 0 THEN pathEnd
     ELSE IF version > Len(b) THEN EOF
     ELSE IF method = i \/ pathEnd = path THEN BAD
     ELSE IF end < 0 THEN end
     ELSE IF b[end] \in Newline THEN EndOfLine(b, end) ELSE BAD
(* A blank line before the request line is left out.                         *)
Request(b) ==
  IF b = <<>> THEN EOF
  ELSE LET i == IF b[1] \in Newline THEN EndOfLine(b, 1) ELSE 1
       IN IF i < 0 THEN i ELSE RequestLine(b, i)
Response(b) ==
  LET version == HttpVersion(b, 1)
      status == Skip(b, version + 1, {"SP"})
      end == TokenToEol(b, status + 3)
  IN IF version < 0 THEN version
     ELSE IF b[version] # "SP" THEN BAD
     ELSE IF status > Len(b) \/ Left(b, status) < 4 THEN EOF
     ELSE IF \E k \in status .. status + 2 : k > Len(b) \/ b[k] # "1" THEN BAD
     ELSE IF end < 0 THEN end
     ELSE IF b[status + 3] \in Newline \cup {"SP"} THEN end ELSE BAD

HeadersBegin(kind, b) == CASE kind = "request"  -> Request(b)
                           [] kind = "response" -> Response(b)
                           [] kind = "headers"  -> 1
Whole(kind, b) == LET start == HeadersBegin(kind, b)
                  IN IF start < 0 THEN Stop(start) ELSE Headers(b, start)
(* phr_parse_request, phr_parse_response, phr_parse_headers with last_len.   *)
Parse(kind, b, last) ==
  LET end == IsComplete(b, ScanFrom(last))
  IN IF last # 0 /\ end < 0 THEN Stop(end) ELSE Whole(kind, b)

-----------------------------------------------------------------------------
(* A caller that appends what arrives and asks again while the answer is -2. *)
VARIABLES message, text, last, answer
parser == <<message, text, last, answer>>
kind == message[1]

ParserInit == message \in Messages /\ text = <<>> /\ last = 0 /\ answer = Stop(EOF)

Changed == {k \in 1 .. Len(text) : text[k] # message[2][k]}
Arrive(c) == /\ answer.pos = EOF /\ Len(text) < Len(message[2])
             /\ c = message[2][Len(text) + 1] \/ Cardinality(Changed) < MaxChanged
             /\ text' = Append(text, c) /\ UNCHANGED <<message, last, answer>>
Ask == /\ answer.pos = EOF /\ Len(text) > last
       /\ answer' = Parse(kind, text, last) /\ last' = Len(text)
       /\ UNCHANGED <<message, text>>
ParserNext == Ask \/ \E c \in ParserCharacters : Arrive(c)
ParserSpec == ParserInit /\ [][ParserNext]_parser

-----------------------------------------------------------------------------
Called == last = Len(text) /\ text # <<>>
EmptyBlock == kind = "headers" /\ text[1] \in Newline

(* However a message was cut, once all of it is there the call returns what  *)
(* one call on the whole of it returns, and success is never reported early. *)
(* Left out: an empty header block, which the scan for two newlines finds    *)
(* incomplete unless it is the first call.                                   *)
CutsDoNotMatter ==
  Called /\ ~EmptyBlock => LET w == Whole(kind, text)
                           IN answer.pos >= 0 \/ w.pos >= 0 => answer = w

(* What was decided does not change with what follows, however much: -2 is   *)
(* the only answer that asks for more. Said of one character more, as a text *)
(* is reached through all that it begins with.                               *)
Decided ==
  text # <<>> => LET before == Whole(kind, SubSeq(text, 1, Len(text) - 1))
                 IN before.pos # EOF => Whole(kind, text) = before

(* A text by its newlines: the line that begins at i, and where the lines    *)
(* from start on begin.                                                      *)
TextLine(b, i) == LET n == Find(b, i, {"LF"})
                  IN SubSeq(b, i, IF n > i /\ b[n - 1] = "CR" THEN n - 2 ELSE n - 1)
LinesBegin(b, start) ==
  LET at[k \in 0 .. Len(b)] == IF k = 0 THEN start ELSE Find(b, at[k - 1], {"LF"}) + 1
  IN at
NameAndValue(line, k) ==
  LET colon == IF k > 1 /\ line[1] \in Blank THEN 0 ELSE Find(line, 1, {":"})
      first == IF colon = 0 THEN 1 ELSE Skip(line, colon + 1, Blank)
      final == Max({0} \cup {j \in 1 .. Len(line) : line[j] \notin Blank})
  IN [name |-> SubSeq(line, 1, colon - 1), value |-> SubSeq(line, first, final)]

(* The headers are the lines of the message up to the empty one: one each,   *)
(* in order, with the name before the first colon, nothing of the body.      *)
HeadersAreLines ==
  answer.pos >= 0 =>
    LET at == LinesBegin(text, IF kind = "headers" THEN 1
                 ELSE Find(text, IF text[1] \in Newline THEN EndOfLine(text, 1) ELSE 1, {"LF"}) + 1)
        lines == Min({n \in 0 .. Len(text) : TextLine(text, at[n]) = <<>>})
    IN answer.headers = [k \in 1 .. lines |-> NameAndValue(TextLine(text, at[k - 1]), k)]
=============================================================================
