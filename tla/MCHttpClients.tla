--------------------------- MODULE MCHttpClients ---------------------------
(* The three HTTPS clients: one of them runs, chosen at the start; variables *)
(* that only the others have keep their initial values.                      *)
EXTENDS TlsClient

CONSTANTS CurlPieces, MaxBody, XPieces, MaxSize
ASSUME PieceSizes == CurlPieces \subseteq Nat /\ XPieces \subseteq Nat
VARIABLES client, session, body, zero, cancel_request, code, live, g_should_cancel
Curl == INSTANCE CurlClient WITH Pieces <- CurlPieces
X == INSTANCE XRequestClient WITH Pieces <- XPieces

tlsOnly  == <<headers, numHeaders, reads, longest, broken, noMemory>>
curlOnly == <<session, body, zero, cancel_request, code, live>>
sized    == <<allocated, capacity, offset>>
allVars  == <<client, pc, request, size, status, sized, tlsOnly, curlOnly, g_should_cancel>>

TlsStep == client = "tls" /\ Next /\ UNCHANGED <<client, curlOnly, g_should_cancel>>
CurlStep == client = "curl" /\ Curl!Next /\ UNCHANGED <<client, sized, tlsOnly, g_should_cancel>>
XStep == client = "xrequest" /\ X!Next /\ UNCHANGED <<client, tlsOnly, curlOnly>>

ClientsInit ==
  /\ \/ client = "tls" /\ pc = "connect"
     \/ client = "curl" /\ pc = "init"
     \/ client = "xrequest" /\ pc = "transfer"
  /\ request = "GET" /\ X!NoResponse /\ g_should_cancel = FALSE
  /\ headers = 0 /\ numHeaders = 0 /\ reads = 0 /\ longest = 0
  /\ broken = FALSE /\ noMemory = FALSE
  /\ session = FALSE /\ body = 0 /\ zero = -1 /\ cancel_request = FALSE /\ code = "OK" /\ live = 1
  /\ client = "tls" => Init
  /\ client = "curl" => Curl!Init
  /\ client = "xrequest" => X!Init
ClientsNext == TlsStep \/ CurlStep \/ XStep
ClientsSpec == ClientsInit /\ [][ClientsNext]_allVars

-----------------------------------------------------------------------------
(* libcurl: the body printed is a string; it is freed once on every path.    *)
(* xrequest: the response lies in its buffer.                                *)
BodyIsString == client = "curl" => Curl!BodyIsString
BodyFreed == client = "curl" => Curl!BodyFreed
BufferHoldsResponse == client = "xrequest" => X!BufferHoldsResponse
=============================================================================
