---------------------------- MODULE GuiLifecycle ----------------------------
(* The GUI of templates/cplug_pugl_nanovg/src/plugin.c: the view's parent    *)
(* window, NanoVG context, framebuffer, timer and size.                      *)
(*                                                                           *)
(* All of it runs on the main thread, but pugl dispatches PUGL_CONFIGURE     *)
(* from inside calls as well as from the event loop (creating, showing or    *)
(* resizing a native window sends it at once on some platforms, later on     *)
(* others), so Configure may come between any two steps of a call. REALIZE   *)
(* and UNREALIZE are dispatched by puglRealize, puglUnrealize, puglFreeView. *)
(* pugl is not in the repository: whether puglShow realizes a view that has  *)
(* no window is left open.  A failed my_assert stops the program: modelled   *)
(* for puglRealize, not for the context and framebuffer of REALIZE.          *)
EXTENDS Integers

CONSTANTS Sizes,        \* sizes the host asks for
          DefaultSize   \* of a new GUI

NULL == "NULL"
ASSUME SizesAssumption == DefaultSize \in Sizes /\ NULL \notin Sizes

VARIABLES alive,        \* the MyGUI exists
          pc, arg,      \* step and argument of the running call
          parent,       \* puglGetParentWindow(gui->view) is set
          realized, timer,
          nvg,          \* gui->nvg is set
          fb,           \* size of gui->mainFramebuffer, NULL for 0
          size,         \* gui->width, gui->height
          native,       \* a native window exists
          pending,      \* a PUGL_CONFIGURE is due
          refused,      \* the last puglSetFrame failed
          contexts, framebuffers   \* created and not deleted

view == <<parent, realized, timer, native>>
graphics == <<nvg, fb, contexts, framebuffers>>
vars == <<alive, pc, arg, view, graphics, size, pending, refused>>

Created(f) == IF f = NULL THEN 0 ELSE 1

Init == /\ alive = FALSE /\ pc = "idle" /\ arg = NULL
        /\ parent = FALSE /\ realized = FALSE /\ timer = FALSE /\ native = FALSE
        /\ nvg = FALSE /\ fb = NULL /\ contexts = 0 /\ framebuffers = 0
        /\ size = DefaultSize /\ pending = FALSE /\ refused = FALSE

CreateGUI == /\ ~alive /\ alive' = TRUE /\ size' = DefaultSize
             /\ UNCHANGED <<pc, arg, view, graphics, pending, refused>>

-----------------------------------------------------------------------------
(* Handlers of myPuglEventFunc.                                              *)

HandleRealize == /\ nvg' = TRUE /\ contexts' = contexts + 1
                 /\ fb' = size /\ framebuffers' = framebuffers + 1

(* Deleting framebuffer 0 deletes nothing. *)
HandleUnrealize == /\ nvg' = FALSE /\ contexts' = contexts - 1
                   /\ fb' = NULL /\ framebuffers' = framebuffers - Created(fb)

(* PUGL_CONFIGURE. Creating the framebuffer may fail, and is not asserted.   *)
(* Mutant: only the view's bounds are set.                                   *)
ConfigureBounds == /\ alive /\ pc # "stopped" /\ pending /\ pending' = FALSE
                   /\ UNCHANGED <<alive, pc, arg, view, graphics, size, refused>>
(* Mutant: no test for a context. *)
ConfigureAlways ==
  /\ alive /\ pc # "stopped" /\ pending /\ pending' = FALSE
  /\ \E created \in {size, NULL} :
          /\ fb' = created
          /\ framebuffers' = (framebuffers - Created(fb)) + Created(created)
          /\ UNCHANGED <<nvg, contexts>>
  /\ UNCHANGED <<alive, pc, arg, view, size, refused>>
Configure ==
  /\ alive /\ pc # "stopped" /\ pending /\ pending' = FALSE
  /\ \/ /\ nvg
        /\ \E created \in {size, NULL} :
             /\ fb' = created
             /\ framebuffers' = (framebuffers - Created(fb)) + Created(created)
        /\ UNCHANGED <<nvg, contexts>>
     \/ ~nvg /\ UNCHANGED graphics
  /\ UNCHANGED <<alive, pc, arg, view, size, refused>>

(* The window is moved, exposed or otherwise touched by the desktop. *)
WindowTouched == /\ native /\ pc # "stopped" /\ pending' = TRUE
                 /\ UNCHANGED <<alive, pc, arg, view, graphics, size, refused>>

-----------------------------------------------------------------------------
(* cplug_setParent(w), w a window or NULL.                                   *)
SetParent(w) == /\ alive /\ pc = "idle" /\ arg' = w
                /\ pc' = IF parent THEN "stop" ELSE "attach"
                /\ UNCHANGED <<alive, view, graphics, size, pending, refused>>

(* Mutant: the timer is left running. *)
StopTimerNot == /\ pc = "stop" /\ pc' = "detach"
                /\ UNCHANGED <<alive, arg, view, graphics, size, pending, refused>>
StopTimer == /\ pc = "stop" /\ pc' = "detach" /\ timer' = FALSE
             /\ UNCHANGED <<alive, arg, parent, realized, native, graphics, size, pending, refused>>

Detach == /\ pc = "detach" /\ pc' = "unrealize" /\ parent' = FALSE
          /\ UNCHANGED <<alive, arg, realized, timer, native, graphics, size, pending, refused>>

Unrealize == /\ pc = "unrealize" /\ pc' = "attach"
             /\ realized' = FALSE /\ native' = FALSE /\ pending' = FALSE
             /\ HandleUnrealize
             /\ UNCHANGED <<alive, arg, parent, timer, size, refused>>

AttachNothing == /\ pc = "attach" /\ arg = NULL /\ pc' = "idle"
                 /\ UNCHANGED <<alive, arg, view, graphics, size, pending, refused>>

Attach == /\ pc = "attach" /\ arg # NULL /\ pc' = "create" /\ parent' = TRUE
          /\ UNCHANGED <<alive, arg, realized, timer, native, graphics, size, pending, refused>>

(* puglRealize: the native window, with its first CONFIGURE, then REALIZE. *)
CreateWindow == /\ pc = "create" /\ ~realized
                /\ pc' = "realize" /\ native' = TRUE /\ pending' = TRUE
                /\ UNCHANGED <<alive, arg, parent, realized, timer, graphics, size, refused>>

(* A view that was realized without a parent is refused: the assertion.      *)
RealizeRefused == /\ pc = "create" /\ realized /\ pc' = "stopped"
                  /\ UNCHANGED <<alive, arg, view, graphics, size, pending, refused>>

Realize == /\ pc = "realize" /\ pc' = "start" /\ realized' = TRUE
           /\ HandleRealize
           /\ UNCHANGED <<alive, arg, parent, timer, native, size, pending, refused>>

StartTimer == /\ pc = "start" /\ pc' = "idle" /\ timer' = TRUE
              /\ UNCHANGED <<alive, arg, parent, realized, native, graphics, size, pending, refused>>

-----------------------------------------------------------------------------
(* cplug_setSize(s): the fields first, then puglSetFrame, which may fail.    *)
SetSize(s) == /\ alive /\ pc = "idle" /\ pc' = "frame" /\ size' = s
              /\ UNCHANGED <<alive, arg, view, graphics, pending, refused>>

SetFrame == /\ pc = "frame" /\ pc' = "idle"
            /\ \/ refused' = FALSE /\ pending' = (pending \/ native)
               \/ refused' = TRUE /\ UNCHANGED pending
            /\ UNCHANGED <<alive, arg, view, graphics, size>>

(* cplug_setVisible, at any moment.  Without a window pugl does nothing, or  *)
(* showing realizes the view, with or without a first CONFIGURE still due.   *)
SetVisible ==
  /\ alive /\ pc = "idle"
  /\ \/ realized /\ pending' = TRUE /\ UNCHANGED <<view, graphics>>
     \/ ~realized /\ UNCHANGED <<view, graphics, pending>>
     \/ /\ ~realized /\ realized' = TRUE /\ native' = TRUE /\ pending' \in BOOLEAN
        /\ HandleRealize /\ UNCHANGED <<parent, timer>>
  /\ UNCHANGED <<alive, pc, arg, size, refused>>

(* cplug_destroyGUI, whether or not the parent was taken away before:        *)
(* puglFreeView unrealizes the view.                                         *)
DestroyGUI ==
  /\ alive /\ pc = "idle" /\ alive' = FALSE
  /\ IF realized THEN HandleUnrealize ELSE UNCHANGED graphics
  /\ parent' = FALSE /\ realized' = FALSE /\ timer' = FALSE /\ native' = FALSE
  /\ pending' = FALSE /\ refused' = FALSE
  /\ UNCHANGED <<pc, arg, size>>

Call == \/ StopTimer \/ Detach \/ Unrealize \/ AttachNothing \/ Attach
        \/ CreateWindow \/ RealizeRefused \/ Realize \/ StartTimer \/ SetFrame
Stopped == pc = "stopped" /\ UNCHANGED vars

Next == \/ Stopped \/ CreateGUI \/ DestroyGUI \/ SetVisible \/ Configure \/ WindowTouched \/ Call
        \/ \E w \in {NULL, "window"} : SetParent(w)
        \/ \E s \in Sizes : SetSize(s)

(* Calls return, and pugl delivers the events that are due. *)
Spec == Init /\ [][Next]_vars /\ WF_vars(Call) /\ WF_vars(Configure)

-----------------------------------------------------------------------------
TypeOK == /\ alive \in BOOLEAN /\ parent \in BOOLEAN /\ realized \in BOOLEAN
          /\ timer \in BOOLEAN /\ native \in BOOLEAN /\ nvg \in BOOLEAN
          /\ pending \in BOOLEAN /\ refused \in BOOLEAN
          /\ pc \in {"idle", "stop", "detach", "unrealize", "attach", "create",
                     "realize", "start", "frame", "stopped"}
          /\ arg \in {NULL, "window"} /\ size \in Sizes /\ fb \in Sizes \cup {NULL}
          /\ contexts \in 0..1 /\ framebuffers \in 0..1

(* Whenever the timer runs, and so may tick, draw and present, there is a    *)
(* NanoVG context, through any sequence of re-parenting and configuring.     *)
DrawsWithContext == timer => nvg /\ realized

(* Nothing leaks and nothing is deleted twice: what exists is what the GUI   *)
(* points to, a framebuffer exists only with the context it belongs to, and  *)
(* nothing outlives the GUI, destroyed with its parent still set or not.     *)
NoLeak == /\ contexts = (IF nvg THEN 1 ELSE 0)
          /\ framebuffers = Created(fb)
          /\ fb # NULL => nvg
          /\ nvg => alive /\ realized

(* What they rest on: where in a call each of them stands. Between calls a   *)
(* view with a parent is realized and ticking, and one without never ticks.  *)
Phase ==
  /\ pc \in {"idle", "frame"} => (parent <=> timer) /\ (parent => realized)
  /\ pc = "stop" => parent /\ realized
  /\ pc = "detach" => realized /\ ~timer
  /\ pc = "unrealize" => ~parent /\ realized /\ ~timer
  /\ pc \in {"attach", "create", "realize"} => ~timer /\ (parent <=> pc # "attach")
  /\ pc = "realize" => ~realized
  /\ pc = "start" => parent /\ realized
  /\ pc = "stopped" => ~timer
  /\ nvg <=> realized
  /\ pc # "idle" => alive
IInv == TypeOK /\ Phase /\ DrawsWithContext /\ NoLeak

(* The framebuffer follows the size the host asked for, unless the window    *)
(* system refuses the size, the framebuffer cannot be created or the program *)
(* stops at its assertion.                                                   *)
FramebufferFollows ==
  (fb # NULL /\ fb # size /\ ~refused) ~> 
     (fb = size \/ fb = NULL \/ refused \/ pc = "stopped")
=============================================================================
