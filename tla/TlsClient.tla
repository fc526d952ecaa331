----------------------------- MODULE TlsClient -----------------------------
(* The HTTPS client on cute_tls (examples/https_cute_tls/main.c): two        *)
(* requests, each with its connection and the buffer its response grows in.  *)
(* The header array is put into the buffer, behind the response. Neither     *)
(* malloc nor realloc is checked: what follows writes through NULL.          *)
(*                                                                           *)
(* External, from their use: tls_process tells the state of the connection,  *)
(* tls_send and tls_read may fail, tls_read returns no more bytes than asked *)
(* for; phr_parse_response finds a status and the body, or fails with or     *)
(* without having read the status.                                           *)
EXTENDS Integers

CONSTANTS RECORD, KB,         \* TLS_MAX_RECORD_SIZE, TLS_1_KB
          HEADER,             \* sizeof(struct phr_header)
          Reads,              \* what tls_read returns
          MaxReads            \* bound on the reads of a response

PACKET == RECORD + KB         \* TLS_MAX_PACKET_SIZE
ASSUME RecordLarger == KB \in Nat \ {0} /\ RECORD \in Nat /\ RECORD >= KB
ASSUME HeaderSize == HEADER \in Nat \ {0}
ASSUME ReadsAsAsked == Reads \subseteq 0 .. PACKET
ASSUME MaxReadsAssumption == MaxReads \in Nat

VARIABLES pc, request,        \* "GET", then "POST"
          allocated,          \* bytes of res.buffer, 0 for NULL
          capacity, size, status, offset,
          headers, numHeaders,
          reads, longest,     \* history: number of reads, and the longest
          broken,             \* history: connection, send or read failed
          noMemory            \* history: the buffer could not be allocated
response == <<allocated, capacity, size, status, offset, headers, numHeaders>>
history  == <<reads, longest, broken, noMemory>>
vars == <<pc, request, response, history>>

Init == /\ pc = "connect" /\ request = "GET"
        /\ allocated = 0 /\ capacity = 0 /\ size = 0 /\ status = 0 /\ offset = 0
        /\ headers = 0 /\ numHeaders = 0
        /\ reads = 0 /\ longest = 0 /\ broken = FALSE /\ noMemory = FALSE

(* Mutant: the padding is not allocated. *)
AllocationBare(c) == c
Allocation(c) == c + KB
Allocate(c) == /\ allocated' \in {Allocation(c), 0}
               /\ noMemory' = (noMemory \/ allocated' = 0)

(* The loop on tls_process until connected. *)
Connecting == pc = "connect" /\ UNCHANGED vars
Connected  == pc = "connect" /\ pc' = "send" /\ UNCHANGED <<request, response, history>>
ConnectFailed == /\ pc = "connect" /\ pc' = "report" /\ broken' = TRUE
                 /\ UNCHANGED <<request, response, reads, longest, noMemory>>

Send == /\ pc = "send" /\ pc' = "poll"
        /\ capacity' = 2 * RECORD /\ Allocate(capacity')
        /\ UNCHANGED <<request, size, status, offset, headers, numHeaders, reads, longest, broken>>
SendFailed == /\ pc = "send" /\ pc' = "report" /\ broken' = TRUE
              /\ UNCHANGED <<request, response, reads, longest, noMemory>>

(* https_read_response, each round: the state, then room, then the read.     *)
Disconnected == /\ pc = "poll" /\ pc' = "terminate"
                /\ UNCHANGED <<request, response, history>>
Grow == /\ pc = "poll" /\ pc' = "read"
        /\ IF size + RECORD >= capacity
           THEN /\ capacity' = capacity + (IF capacity > RECORD THEN capacity ELSE RECORD)
                /\ Allocate(capacity')
           ELSE UNCHANGED <<capacity, allocated, noMemory>>
        /\ UNCHANGED <<request, size, status, offset, headers, numHeaders, reads, longest, broken>>
Read(n) == /\ pc = "read" /\ pc' = "poll" /\ reads < MaxReads
           /\ allocated # 0 \/ n = 0
           /\ size' = size + n /\ reads' = reads + 1
           /\ longest' = IF n > longest THEN n ELSE longest
           /\ UNCHANGED <<request, allocated, capacity, status, offset, headers, numHeaders,
                          broken, noMemory>>
ReadFailed == /\ pc = "read" /\ pc' = "report" /\ broken' = TRUE
              /\ UNCHANGED <<request, response, reads, longest, noMemory>>
(* Bytes read to NULL + size, or the zero put there. *)
WriteThroughNull == /\ pc \in {"read", "terminate"} /\ allocated = 0 /\ pc' = "overrun"
                    /\ UNCHANGED <<request, response, history>>

(* The terminating zero, and the padding made part of the capacity.          *)
(* Mutant: the padding is forgotten.                                         *)
TerminateOnly == /\ pc = "terminate" /\ allocated # 0 /\ pc' = "place"
                 /\ size' = size + 1
                 /\ UNCHANGED <<request, allocated, capacity, status, offset, headers, numHeaders, history>>
Terminate == /\ pc = "terminate" /\ allocated # 0 /\ pc' = "place"
             /\ size' = size + 1 /\ capacity' = capacity + KB
             /\ UNCHANGED <<request, allocated, status, offset, headers, numHeaders, history>>
PlaceHeaders == /\ pc = "place" /\ pc' = "parse"
                /\ numHeaders' = (capacity - size) \div HEADER
                /\ headers' = size + (size % 8)
                /\ UNCHANGED <<request, allocated, capacity, size, status, offset, history>>

(* phr_parse_response: a status and a body, or an error.                     *)
Parse == /\ pc = "parse" /\ pc' = "report"
         /\ \/ status' = 200 /\ offset' \in {1, -1}
            \/ status' = 0 /\ offset' = -1
         /\ UNCHANGED <<request, allocated, capacity, size, headers, numHeaders, history>>

(* main: prints the response and frees it, or fails; after GET the POST.     *)
ReportFailure == /\ pc = "report" /\ status = 0 /\ pc' = "failed"
                 /\ UNCHANGED <<request, response, history>>
Report == /\ pc = "report" /\ status # 0
          /\ IF request = "GET" THEN request' = "POST" /\ pc' = "connect"
                                ELSE pc' = "done" /\ UNCHANGED request
          /\ allocated' = 0 /\ capacity' = 0 /\ size' = 0 /\ status' = 0 /\ offset' = 0
          /\ headers' = 0 /\ numHeaders' = 0
          /\ reads' = 0 /\ longest' = 0 /\ broken' = FALSE /\ noMemory' = FALSE

Next == \/ Connecting \/ Connected \/ ConnectFailed \/ Send \/ SendFailed
        \/ Disconnected \/ Grow \/ ReadFailed \/ WriteThroughNull \/ Terminate \/ PlaceHeaders \/ Parse
        \/ ReportFailure \/ Report
        \/ \E n \in Reads : Read(n)
Spec == Init /\ [][Next]_vars

-----------------------------------------------------------------------------
TypeOK == /\ pc \in {"connect", "send", "poll", "read", "terminate", "place",
                     "parse", "report", "done", "failed", "overrun"}
          /\ request \in {"GET", "POST"}
          /\ allocated \in Nat /\ capacity \in Nat /\ size \in Nat
          /\ status \in {0, 200} /\ offset \in -1 .. 1
          /\ headers \in Nat /\ numHeaders \in Nat
          /\ reads \in 0 .. MaxReads /\ longest \in 0 .. PACKET
          /\ broken \in BOOLEAN /\ noMemory \in BOOLEAN

(* After a response of any length in pieces of any size, growing once is     *)
(* enough: a whole packet can be read into the buffer, although the test     *)
(* asks for room for a record, which is shorter; the terminating zero is     *)
(* inside the buffer, and the room left for headers is not negative. Only a  *)
(* failed malloc or realloc, which the code does not check, leads to a write *)
(* anywhere else, and then the response is never parsed nor reported.        *)
WritesFit ==
  IF noMemory
  THEN pc \in {"poll", "read", "terminate", "report", "failed", "overrun"} /\ status = 0
  ELSE /\ pc = "read" => size + PACKET <= allocated
       /\ pc = "terminate" => size < allocated
       /\ pc = "place" => size <= capacity /\ capacity = allocated
       /\ pc # "overrun"

(* "At least 1kb / 32bytes = 32 headers" (line 69): true while no read       *)
(* returns more than a record.                                               *)
RoomForHeaders == pc = "parse" /\ longest <= RECORD => numHeaders >= KB \div HEADER

(* A request that broke off anywhere, as it stands in main. *)
BrokenIsFailure == broken => status = 0 /\ pc \in {"report", "failed"}

(* "Use remaining memory to store headers" (line 68): the header array is in *)
(* the buffer.                                                               *)
HeadersInBuffer == pc = "parse" => headers + numHeaders * HEADER <= allocated

(* The inductive form: between reads the response reaches at most into the   *)
(* padding, and without a buffer nothing comes that would make it grow.      *)
Buffer ==
  /\ pc \in {"connect", "send"} => allocated = 0 /\ capacity = 0 /\ size = 0
  /\ pc \in {"poll", "read", "terminate"} =>
       /\ capacity >= 2 * RECORD /\ size < capacity + KB
       /\ allocated = (IF noMemory THEN 0 ELSE capacity + KB)
  /\ pc = "read" \/ (pc = "poll" /\ noMemory) => size + RECORD < capacity
  /\ pc = "terminate" /\ longest <= RECORD => size < capacity
  /\ pc = "poll" /\ longest <= RECORD => size < capacity
  /\ pc = "place" => capacity = allocated /\ size <= capacity
  /\ pc = "place" /\ longest <= RECORD => size <= capacity - KB
  /\ noMemory => pc \in {"poll", "read", "terminate", "report", "failed", "overrun"}
  /\ pc = "overrun" => noMemory
Unanswered ==
  /\ pc \in {"connect", "send", "poll", "read", "terminate", "place", "parse"} => status = 0
  /\ noMemory => status = 0
IInv == TypeOK /\ Buffer /\ Unanswered /\ BrokenIsFailure /\ RoomForHeaders
=============================================================================
