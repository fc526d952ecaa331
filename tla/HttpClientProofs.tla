-------------------------- MODULE HttpClientProofs --------------------------
(* Theorems about the three HTTPS clients: for cute_tls, with every record   *)
(* size, padding not larger than a record, header size, and sequence of      *)
(* reads; for libcurl and xrequest, with every sequence of pieces.           *)
EXTENDS MCHttpClients, TLAPS

-----------------------------------------------------------------------------
(* cute_tls.                                                                 *)
LEMMA DivMonotone ==
  ASSUME NEW a \in Nat, NEW b \in Nat, NEW n \in Nat \ {0}, a <= b
  PROVE  a \div n <= b \div n /\ a \div n \in Nat /\ b \div n \in Nat
<1>1. /\ a = n * (a \div n) + (a % n) /\ a % n \in 0 .. n - 1 /\ a \div n \in Nat
      /\ b = n * (b \div n) + (b % n) /\ b % n \in 0 .. n - 1 /\ b \div n \in Nat
  BY SMT
<1>2. SUFFICES ASSUME a \div n >= b \div n + 1 PROVE FALSE
  BY <1>1
<1>3. n * (a \div n) >= n * (b \div n) + n
  BY <1>1, <1>2, SMT
<1> QED
  BY <1>1, <1>3

LEMMA InitInv == ASSUME Init PROVE IInv
<1>1. TypeOK /\ Buffer /\ Unanswered /\ RoomForHeaders
  <2>1. broken \in BOOLEAN /\ noMemory \in BOOLEAN
    BY Zenon DEF Init
  <2> QED
    BY <2>1, RecordLarger, MaxReadsAssumption DEF Init, TypeOK, Buffer, Unanswered, RoomForHeaders, PACKET
<1>2. BrokenIsFailure
  BY DEF Init, BrokenIsFailure
<1> QED
  BY <1>1, <1>2 DEF IInv

(* The history of failures, and that nothing is reported after one. *)
LEMMA BrokenStep ==
  ASSUME IInv, [Next]_vars PROVE broken' \in BOOLEAN /\ BrokenIsFailure'
<1>1. broken \in BOOLEAN /\ BrokenIsFailure
  BY DEF IInv, TypeOK
<1> USE <1>1 DEF BrokenIsFailure
<1>2. CASE ConnectFailed \/ SendFailed \/ ReadFailed
  <2>1. status = 0 /\ status' = status /\ pc' = "report" /\ broken' = TRUE
    BY <1>2 DEF ConnectFailed, SendFailed, ReadFailed, response, IInv, Unanswered
  <2> QED
    BY <2>1, Zenon
<1>3. CASE Report
  <2>1. broken' = FALSE
    BY <1>3 DEF Report
  <2> QED
    BY <2>1, Zenon
<1>4. CASE UNCHANGED vars \/ Connecting \/ ReportFailure
  <2>1. broken' = broken /\ status' = status /\ (pc' = pc \/ pc' = "failed")
    BY <1>4 DEF vars, response, history, Connecting, ReportFailure
  <2> QED
    BY <2>1, Zenon
<1>5. CASE \/ Connected \/ Send \/ Disconnected \/ Grow \/ Terminate \/ PlaceHeaders \/ Parse
           \/ WriteThroughNull \/ \E n \in Reads : Read(n)
  <2>1. broken' = broken /\ pc \notin {"report", "failed"}
    BY <1>5 DEF Connected, Send, Disconnected, Grow, Terminate, PlaceHeaders, Parse, Read,
                WriteThroughNull, response, history
  <2> QED
    BY <2>1, Zenon
<1> QED
  BY <1>2, <1>3, <1>4, <1>5, Zenon DEF Next

(* Memory has run out when the last allocation failed. *)
LEMMA Allocates ==
  ASSUME NEW c \in Nat, noMemory \in BOOLEAN, ~noMemory, Allocate(c)
  PROVE  /\ allocated' = (IF noMemory' THEN 0 ELSE c + KB)
         /\ noMemory' \in BOOLEAN /\ allocated' \in Nat
<1>1. c + KB > 0 /\ c + KB \in Nat
  BY RecordLarger
<1>2. allocated' \in {c + KB, 0}
  BY DEF Allocate, Allocation
<1>3. (noMemory' <=> allocated' = 0) /\ noMemory' \in BOOLEAN
  BY Zenon DEF Allocate
<1> QED
  BY <1>1, <1>2, <1>3

LEMMA MemoryStep ==
  ASSUME IInv, [Next]_vars PROVE noMemory' \in BOOLEAN
<1> USE DEF IInv, TypeOK
<1>1. CASE Send \/ Grow
  BY <1>1, Zenon DEF Send, Grow, Allocate
<1>2. CASE Report
  BY <1>2, Zenon DEF Report
<1>3. CASE \/ UNCHANGED vars \/ Connecting \/ Connected \/ ConnectFailed \/ SendFailed
           \/ Disconnected \/ ReadFailed \/ WriteThroughNull \/ Terminate \/ PlaceHeaders
           \/ Parse \/ ReportFailure \/ \E n \in Reads : Read(n)
  <2>1. noMemory' = noMemory
    BY <1>3 DEF vars, Connecting, Connected, ConnectFailed, SendFailed, Disconnected, ReadFailed,
       WriteThroughNull, Terminate, PlaceHeaders, Parse, ReportFailure, Read, history
  <2> QED
    BY <2>1, Zenon
<1> QED
  BY <1>1, <1>2, <1>3, Zenon DEF Next

LEMMA BufferStep ==
  ASSUME IInv, [Next]_vars PROVE TypeOK' /\ Buffer' /\ Unanswered' /\ RoomForHeaders'
<1>0. broken' \in BOOLEAN /\ noMemory' \in BOOLEAN
  BY BrokenStep, MemoryStep
<1> USE <1>0, RecordLarger, HeaderSize, ReadsAsAsked, MaxReadsAssumption
    DEF IInv, TypeOK, Buffer, Unanswered, RoomForHeaders, PACKET
<1>1. CASE Connecting \/ UNCHANGED vars
  BY <1>1 DEF Connecting, vars, response, history
<1>2. CASE Connected
  BY <1>2 DEF Connected, response, history
<1>3. CASE ConnectFailed
  BY <1>3 DEF ConnectFailed, response
<1>4. CASE Send
  <2>1. ~noMemory /\ capacity' = 2 * RECORD /\ Allocate(capacity') /\ capacity' \in Nat
    BY <1>4 DEF Send
  <2>2. allocated' = (IF noMemory' THEN 0 ELSE capacity' + KB) /\ allocated' \in Nat
    BY <2>1, Allocates
  <2> QED
    BY <1>4, <2>1, <2>2 DEF Send
<1>5. CASE SendFailed
  BY <1>5 DEF SendFailed, response
<1>6. CASE Disconnected
  BY <1>6 DEF Disconnected, response, history
<1>7. CASE Grow
  <2>1. CASE size + RECORD >= capacity
    <3>1. ~noMemory /\ capacity' = 2 * capacity /\ capacity' \in Nat /\ Allocate(capacity')
      BY <1>7, <2>1 DEF Grow
    <3>2. allocated' = (IF noMemory' THEN 0 ELSE capacity' + KB) /\ allocated' \in Nat
      BY <3>1, Allocates
    <3> QED
      BY <1>7, <2>1, <3>1, <3>2 DEF Grow
  <2>2. CASE size + RECORD < capacity
    BY <1>7, <2>2 DEF Grow
  <2> QED
    BY <2>1, <2>2
<1>8. ASSUME NEW n \in Reads, Read(n) PROVE TypeOK' /\ Buffer' /\ Unanswered' /\ RoomForHeaders'
  BY <1>8 DEF Read
<1>9. CASE ReadFailed
  BY <1>9 DEF ReadFailed, response
<1>10. CASE Terminate
  BY <1>10 DEF Terminate, history
<1>11. CASE PlaceHeaders
  BY <1>11, DivMonotone DEF PlaceHeaders, history
<1>12. CASE Parse
  BY <1>12 DEF Parse, history
<1>13. CASE ReportFailure
  BY <1>13 DEF ReportFailure, response, history
<1>14. CASE Report
  BY <1>14 DEF Report
<1>15. CASE WriteThroughNull
  BY <1>15 DEF WriteThroughNull, response, history
<1> QED
  BY <1>1, <1>2, <1>3, <1>4, <1>5, <1>6, <1>7, <1>8, <1>9, <1>10, <1>11, <1>12,
     <1>13, <1>14, <1>15 DEF Next

(* The inductive invariant: between two reads the response reaches at most   *)
(* into the padding, and a growth doubles a capacity of two records or more. *)
THEOREM InductiveInvariant == Spec => []IInv
<1>1. IInv /\ [Next]_vars => IInv'
  BY BrokenStep, BufferStep DEF IInv
<1>2. Init => IInv
  BY InitInv
<1> QED
  BY <1>1, <1>2, PTL DEF Spec

(* A whole packet always fits at a read, and the terminating zero at the     *)
(* end, however the response is cut, as long as memory could be allocated;   *)
(* when it could not, nothing is ever parsed or reported.                    *)
THEOREM WritesFitCorrect == Spec => []WritesFit
<1>1. IInv => WritesFit
  BY RecordLarger DEF IInv, TypeOK, Buffer, Unanswered, WritesFit, PACKET
<1> QED
  BY InductiveInvariant, <1>1, PTL

(* The comment's 32 headers, while no read returns more than a record. *)
THEOREM HeadersHaveRoom == Spec => []RoomForHeaders
<1>1. IInv => RoomForHeaders
  BY DEF IInv
<1> QED
  BY InductiveInvariant, <1>1, PTL

-----------------------------------------------------------------------------
(* libcurl. The body is one byte longer than what was received, or there is  *)
(* none and nothing was received.                                            *)
CurlInv ==
  /\ pc \in {"init", "perform", "result", "free", "done"}
  /\ size \in Nat /\ body \in Nat
  /\ body > 0 => body = size + 1 /\ zero = size
  /\ body = 0 => size = 0
  /\ pc \in {"init", "free", "done"} => body = 0
  /\ live = (IF pc = "done" THEN 0 ELSE 1) + (IF body > 0 THEN 1 ELSE 0)

LEMMA CurlInit == ASSUME Curl!Init PROVE CurlInv
  BY DEF Curl!Init, CurlInv

LEMMA CurlInvStep == ASSUME CurlInv, Curl!Next PROVE CurlInv'
<1> USE PieceSizes DEF CurlInv, Curl!res
<1>1. CASE Curl!Begin
  BY <1>1 DEF Curl!Begin
<1>2. CASE Curl!Skip
  BY <1>2 DEF Curl!Skip
<1>3. CASE Curl!Finish
  BY <1>3 DEF Curl!Finish
<1>4. CASE Curl!Cleanup
  BY <1>4 DEF Curl!Cleanup
<1>5. CASE Curl!Free
  BY <1>5 DEF Curl!Free
<1>6. CASE Curl!WriteNoMemory
  BY <1>6 DEF Curl!WriteNoMemory
<1>7. CASE Curl!Progress
  BY <1>7 DEF Curl!Progress
<1>8. ASSUME NEW n \in CurlPieces, Curl!Write(n) PROVE CurlInv'
  BY <1>8 DEF Curl!Write
<1>9. CASE Curl!Cancel
  BY <1>9 DEF Curl!Cancel
<1> QED
  BY <1>1, <1>2, <1>3, <1>4, <1>5, <1>6, <1>7, <1>8, <1>9 DEF Curl!Next, Curl!Main

-----------------------------------------------------------------------------
(* xrequest. The buffer is as large as main thinks and holds what was        *)
(* received; only the request that is cancelled runs with the flag set, and  *)
(* it never receives anything.                                               *)
XInv ==
  /\ pc \in {"transfer", "headers", "report", "free", "check", "done", "failed", "crashed"}
  /\ request \in {"GET", "POST", "CANCEL"}
  /\ size \in Nat /\ allocated \in Nat /\ capacity = allocated /\ size <= allocated
  /\ pc \in {"report", "free"} => offset \in Int /\ offset <= size
  /\ g_should_cancel <=> request = "CANCEL"
  /\ request = "CANCEL" => X!NoResponse /\ pc \in {"transfer", "check", "done"}

LEMMA XInit == ASSUME X!Init PROVE XInv
  BY DEF X!Init, X!NoResponse, XInv

LEMMA XNext == ASSUME XInv, X!Next PROVE XInv'
<1> USE PieceSizes DEF XInv, X!res, X!NoResponse
<1>1. CASE X!CallbackCancels
  BY <1>1 DEF X!CallbackCancels
<1>2. CASE X!TransferEnds
  BY <1>2 DEF X!TransferEnds
<1>3. CASE X!ParseResponseHeaders
  BY <1>3 DEF X!ParseResponseHeaders
<1>4. CASE X!Fail
  BY <1>4 DEF X!Fail
<1>5. CASE X!PrintResponse
  BY <1>5 DEF X!PrintResponse
<1>6. CASE X!FreeGet
  BY <1>6 DEF X!FreeGet, X!FreeResponse
<1>7. CASE X!FreePost
  BY <1>7 DEF X!FreePost, X!FreeResponse
<1>8. CASE X!CheckCancelled
  BY <1>8 DEF X!CheckCancelled
<1>9. ASSUME NEW n \in XPieces, X!Callback(n) PROVE XInv'
  BY <1>9 DEF X!Callback, X!TooSmall
<1>10. ASSUME NEW n \in XPieces, X!CallbackNoMemory(n) PROVE XInv'
  BY <1>10 DEF X!CallbackNoMemory
<1> QED
  BY <1>1, <1>2, <1>3, <1>4, <1>5, <1>6, <1>7, <1>8, <1>9, <1>10 DEF X!Next

-----------------------------------------------------------------------------
(* One of the three runs, and keeps its own invariant.                       *)
ClientsInv ==
  /\ client \in {"tls", "curl", "xrequest"}
  /\ IF client = "tls" THEN IInv ELSE ~noMemory
  /\ client = "curl" => CurlInv
  /\ client = "xrequest" => XInv

LEMMA ClientsStep == ASSUME ClientsInv, [ClientsNext]_allVars PROVE ClientsInv'
<1>1. CASE TlsStep
  <2>1. client = "tls" /\ client' = client /\ IInv /\ [Next]_vars
    BY <1>1 DEF TlsStep, ClientsInv
  <2>2. IInv'
    BY <2>1, BrokenStep, BufferStep DEF IInv
  <2>3. QED  BY <2>1, <2>2 DEF ClientsInv
<1>2. CASE CurlStep
  <2>1. client = "curl" /\ client' = client /\ CurlInv /\ Curl!Next /\ ~noMemory /\ ~noMemory'
    BY <1>2 DEF CurlStep, tlsOnly, ClientsInv
  <2>2. QED  BY <2>1, CurlInvStep DEF ClientsInv
<1>3. CASE XStep
  <2>1. client = "xrequest" /\ client' = client /\ XInv /\ X!Next /\ ~noMemory /\ ~noMemory'
    BY <1>3 DEF XStep, tlsOnly, ClientsInv
  <2>2. QED  BY <2>1, XNext DEF ClientsInv
<1>4. CASE UNCHANGED allVars
  <2>1. /\ UNCHANGED <<client, pc, request, size, status, allocated, capacity, offset,
                       headers, numHeaders, reads, longest, broken, noMemory, body, zero, live,
                       g_should_cancel>>
    BY <1>4 DEF allVars, sized, tlsOnly, curlOnly
  <2>2. IInv => IInv'
    BY <2>1 DEF IInv, TypeOK, Buffer, Unanswered, BrokenIsFailure, RoomForHeaders
  <2>3. (CurlInv => CurlInv') /\ (XInv => XInv')
    BY <2>1 DEF CurlInv, XInv, X!NoResponse
  <2>4. QED  BY <2>1, <2>2, <2>3 DEF ClientsInv
<1> QED
  BY <1>1, <1>2, <1>3, <1>4 DEF ClientsNext

THEOREM ClientsInvariant == ClientsSpec => []ClientsInv
<1>1. ClientsInit => ClientsInv
  BY InitInv, CurlInit, XInit DEF ClientsInit, ClientsInv
<1> QED
  BY <1>1, ClientsStep, PTL DEF ClientsSpec

(* cute_tls again, among the three: the others have no state in which it     *)
(* would write or place headers.                                             *)
THEOREM ClientsHaveRoom == ClientsSpec => [](WritesFit /\ RoomForHeaders)
<1>1. ClientsInv => WritesFit /\ RoomForHeaders
  <2> SUFFICES ASSUME ClientsInv PROVE WritesFit /\ RoomForHeaders
    OBVIOUS
  <2>1. CASE client = "tls"
    BY <2>1, RecordLarger DEF ClientsInv, IInv, TypeOK, Buffer, Unanswered, WritesFit, PACKET
  <2>2. CASE client # "tls"
    BY <2>2 DEF ClientsInv, CurlInv, XInv, WritesFit, RoomForHeaders
  <2>3. QED  BY <2>1, <2>2
<1> QED
  BY <1>1, ClientsInvariant, PTL

(* What the libcurl client prints is a string, after any cut into pieces,    *)
(* cancellation or failure to allocate.                                      *)
THEOREM BodyHasItsZero == ClientsSpec => []BodyIsString
<1>1. ClientsInv => BodyIsString
  BY DEF ClientsInv, CurlInv, BodyIsString, Curl!BodyIsString
<1> QED
  BY <1>1, ClientsInvariant, PTL

(* Every block of the libcurl client is freed once, on every path.           *)
THEOREM BlocksFreed == ClientsSpec => []BodyFreed
<1>1. ClientsInv => BodyFreed
  BY DEF ClientsInv, CurlInv, BodyFreed, Curl!BodyFreed
<1> QED
  BY <1>1, ClientsInvariant, PTL

(* The xrequest client's response lies in its buffer, and a request          *)
(* cancelled from the start leaves nothing behind.                           *)
THEOREM ResponseInBuffer == ClientsSpec => []BufferHoldsResponse
<1>1. ClientsInv => BufferHoldsResponse
  BY DEF ClientsInv, XInv, BufferHoldsResponse, X!BufferHoldsResponse, X!NoResponse
<1> QED
  BY <1>1, ClientsInvariant, PTL
=============================================================================
