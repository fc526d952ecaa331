----------------------------- MODULE CurlClient -----------------------------
(* The HTTPS client on libcurl (examples/https_curl/main.c): a GET and a     *)
(* POST into the same https_response, whose cancel_request another thread    *)
(* may set at any time (it is atomic for that purpose).                      *)
(*                                                                           *)
(* External: curl_easy_perform calls the write callback with pieces of the   *)
(* body and the progress callback again and again, and ends the transfer     *)
(* when the one takes less than it was given or the other returns 1. The     *)
(* malloc of the https_response is not checked: the model begins behind it.  *)
EXTENDS Integers

CONSTANTS Pieces,       \* sizes of the pieces
          MaxBody       \* bound on the body

VARIABLES pc, request, session,
          body,         \* bytes allocated for res->body, 0 for NULL
          size, zero,   \* res->size, and where the terminating zero is, -1 for nowhere
          status, cancel_request,
          code,         \* of curl_easy_perform
          live          \* allocated blocks: res, and bodies
res  == <<session, body, size, zero, status>>
vars == <<pc, request, res, cancel_request, code, live>>

Init == /\ pc = "init" /\ request = "GET" /\ session = FALSE
        /\ body = 0 /\ size = 0 /\ zero = -1 /\ status = 0 /\ cancel_request = FALSE
        /\ code = "OK" /\ live = 1

(* curl_easy_init may fail, and the request is skipped. *)
Begin == /\ pc = "init" /\ session' = TRUE /\ pc' = "perform" /\ code' = "OK"
         /\ UNCHANGED <<request, body, size, zero, status, cancel_request, live>>
Skip == /\ pc = "init"
        /\ IF request = "GET" THEN request' = "POST" /\ UNCHANGED pc
                              ELSE pc' = "free" /\ UNCHANGED request
        /\ UNCHANGED <<res, cancel_request, code, live>>

(* https_request_cb with n bytes. Mutant: the zero has no room.              *)
WriteTight(n) == /\ pc = "perform" /\ size + n <= MaxBody
                 /\ body' = size + n /\ live' = live + (IF body = 0 THEN 1 ELSE 0)
                 /\ size' = size + n /\ zero' = size'
                 /\ UNCHANGED <<pc, request, session, status, cancel_request, code>>
Write(n) == /\ pc = "perform" /\ size + n <= MaxBody
            /\ body' = size + n + 1 /\ live' = live + (IF body = 0 THEN 1 ELSE 0)
            /\ size' = size + n /\ zero' = size'
            /\ UNCHANGED <<pc, request, session, status, cancel_request, code>>

(* It could not be made longer: it returns 0. Mutant: the old one is lost.   *)
WriteNoMemoryLosing == /\ pc = "perform" /\ pc' = "result" /\ code' = "WRITE_ERROR"
                       /\ body' = 0 /\ status' \in {0, 200}
                       /\ UNCHANGED <<request, session, size, zero, cancel_request, live>>
WriteNoMemory == /\ pc = "perform" /\ pc' = "result" /\ code' = "WRITE_ERROR"
                 /\ status' \in {0, 200}
                 /\ UNCHANGED <<request, session, body, size, zero, cancel_request, live>>

(* https_progress_callback. *)
Progress == /\ pc = "perform" /\ cancel_request /\ pc' = "result"
            /\ code' = "ABORTED" /\ status' \in {0, 200}
            /\ UNCHANGED <<request, session, body, size, zero, cancel_request, live>>

(* The transfer ends by itself, well or not. *)
Finish == /\ pc = "perform" /\ pc' = "result"
          /\ \/ code' = "OK" /\ status' = 200
             \/ code' = "FAILED" /\ status' \in {0, 200}
          /\ UNCHANGED <<request, session, body, size, zero, cancel_request, live>>

(* main, after the request: the body is printed if all went well and freed   *)
(* in any case.                                                              *)
Cleanup == /\ pc = "result" /\ body' = 0 /\ live' = live - (IF body = 0 THEN 0 ELSE 1)
           /\ session' = FALSE /\ size' = 0 /\ status' = 0 /\ zero' = -1
           /\ cancel_request' = FALSE
           /\ IF request = "GET" THEN request' = "POST" /\ pc' = "init"
                                 ELSE pc' = "free" /\ UNCHANGED request
           /\ UNCHANGED code
Free == /\ pc = "free" /\ pc' = "done" /\ live' = live - 1
        /\ UNCHANGED <<request, res, cancel_request, code>>

(* The other thread. *)
Cancel == /\ pc \notin {"free", "done"} /\ ~cancel_request /\ cancel_request' = TRUE
          /\ UNCHANGED <<pc, request, res, code, live>>

Main == Begin \/ Skip \/ Finish \/ Cleanup \/ Free \/ WriteNoMemory \/ Progress
        \/ \E n \in Pieces : Write(n)
Next == Main \/ Cancel
Spec == Init /\ [][Next]_vars

-----------------------------------------------------------------------------
(* What is printed is a string: a body has its zero right behind its bytes   *)
(* and inside the block, after any cut into pieces, also empty ones, and     *)
(* after a transfer that was cancelled or ran out of memory.                 *)
BodyIsString == body > 0 => zero = size /\ zero < body

(* Every block is freed once, on every path through failures and             *)
(* cancellation: the only body is the one res points to, and in the end      *)
(* nothing is left.                                                          *)
BodyFreed == /\ live = (IF pc = "done" THEN 0 ELSE 1) + (IF body > 0 THEN 1 ELSE 0)
             /\ pc \in {"init", "done"} => body = 0 /\ size = 0
=============================================================================
