--------------------------- MODULE XRequestClient ---------------------------
(* The HTTPS client on xrequest (examples/https_xrequest/main.c): a GET, a   *)
(* POST and a GET that the callback cancels. Each collects its response in   *)
(* a buffer that doubles, and parses it at the end.                          *)
(*                                                                           *)
(* External: xrequest calls the callback with pieces, some of them empty,    *)
(* until the transfer ends or the callback returns 1. Of phr_parse_response, *)
(* see HttpParser, only the outcome is looked at.                            *)
EXTENDS Integers

CONSTANTS Pieces,             \* sizes of the pieces, 0 for NULL
          MaxSize             \* bound on the response

VARIABLES pc, request,        \* "GET", "POST", "CANCEL"
          allocated,          \* bytes of res.buffer, 0 for NULL
          capacity, size, status, offset, g_should_cancel
res  == <<allocated, capacity, size, status, offset>>
vars == <<pc, request, res, g_should_cancel>>

NoResponse == allocated = 0 /\ capacity = 0 /\ size = 0 /\ status = 0 /\ offset = 0
Init == pc = "transfer" /\ request = "GET" /\ NoResponse /\ g_should_cancel = FALSE

(* my_cb_xreq. Mutant: the piece alone is compared with the capacity.        *)
TooSmallForPiece(n) == n > capacity
TooSmall(n) == size + n > capacity
Callback(n) ==
  /\ pc = "transfer" /\ ~g_should_cancel /\ size + n <= MaxSize
  /\ size' = size + n
  /\ IF n > 0 /\ TooSmall(n) THEN capacity' = 2 * (size + n) /\ allocated' = capacity'
                             ELSE UNCHANGED <<capacity, allocated>>
  /\ UNCHANGED <<pc, request, status, offset, g_should_cancel>>
(* realloc returns NULL, which is written to.                                *)
CallbackNoMemory(n) == /\ pc = "transfer" /\ ~g_should_cancel /\ n > 0 /\ TooSmall(n)
                       /\ pc' = "crashed" /\ UNCHANGED <<request, res, g_should_cancel>>
CallbackCancels == /\ pc = "transfer" /\ g_should_cancel
                   /\ pc' = "check" /\ UNCHANGED <<request, res, g_should_cancel>>
(* xrequest returns, for whatever reason; nothing looks at how it went.      *)
TransferEnds == /\ pc = "transfer" /\ pc' = (IF request = "CANCEL" THEN "check" ELSE "headers")
                /\ UNCHANGED <<request, res, g_should_cancel>>

ParseResponseHeaders ==
  /\ pc = "headers" /\ pc' = "report"
  /\ \/ size > 0 /\ status' = 200 /\ offset' \in {-2, -1} \cup 1 .. size
     \/ status' = 0 /\ offset' \in {-2, -1}
  /\ UNCHANGED <<request, allocated, capacity, size, g_should_cancel>>
Fail == /\ pc = "report" /\ status = 0
        /\ pc' = "failed" /\ UNCHANGED <<request, res, g_should_cancel>>
(* Prints the headers, and the body if there is one, from the buffer.        *)
PrintResponse == /\ pc = "report" /\ status # 0
                 /\ pc' = "free" /\ UNCHANGED <<request, res, g_should_cancel>>
FreeResponse == allocated' = 0 /\ capacity' = 0 /\ size' = 0 /\ status' = 0 /\ offset' = 0
FreeGet == /\ pc = "free" /\ request = "GET" /\ FreeResponse
           /\ request' = "POST" /\ pc' = "transfer" /\ UNCHANGED g_should_cancel
FreePost == /\ pc = "free" /\ request = "POST" /\ FreeResponse
            /\ request' = "CANCEL" /\ pc' = "transfer" /\ g_should_cancel' = TRUE
CheckCancelled == /\ pc = "check" /\ UNCHANGED <<request, res, g_should_cancel>>
                  /\ pc' = IF allocated # 0 \/ size # 0 \/ capacity # 0 THEN "failed" ELSE "done"

Next == \/ CallbackCancels \/ TransferEnds \/ ParseResponseHeaders \/ Fail
        \/ PrintResponse \/ FreeGet \/ FreePost \/ CheckCancelled
        \/ \E n \in Pieces : Callback(n) \/ CallbackNoMemory(n)
Spec == Init /\ [][Next]_vars

-----------------------------------------------------------------------------
(* However the response is cut, what was received lies in the buffer, the    *)
(* body that is printed too, and a cancelled request leaves nothing behind   *)
(* from the ones before it.                                                  *)
BufferHoldsResponse ==
  /\ size <= allocated /\ capacity = allocated
  /\ pc = "free" /\ offset > 0 => offset <= size
  /\ request = "CANCEL" => NoResponse /\ pc # "failed"
=============================================================================
