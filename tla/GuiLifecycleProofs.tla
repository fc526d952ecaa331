------------------------- MODULE GuiLifecycleProofs -------------------------
(* Theorems about GuiLifecycle, for any set of sizes. *)
EXTENDS GuiLifecycle, TLAPS

LEMMA InitInv == ASSUME Init PROVE IInv
<1>1. TypeOK
  <2>1. 0 \in 0..1
    OBVIOUS
  <2> QED
    BY <2>1, SizesAssumption, Zenon DEF Init, TypeOK
<1>2. Phase
  BY DEF Init, Phase
<1>3. DrawsWithContext
  BY DEF Init, DrawsWithContext
<1>4. NoLeak
  BY DEF Init, NoLeak, Created
<1> QED
  BY <1>1, <1>2, <1>3, <1>4 DEF IInv

(* Unrealizing deletes the context and the framebuffer, where there is one. *)
LEMMA UnrealizeDeletes ==
  ASSUME IInv, realized, HandleUnrealize
  PROVE  contexts' = 0 /\ framebuffers' = 0 /\ ~nvg' /\ nvg' \in BOOLEAN /\ fb' = NULL
<1>1. nvg /\ NoLeak
  BY DEF IInv, Phase
<1>2. contexts = 1 /\ framebuffers = Created(fb) /\ Created(fb) \in 0..1
  BY <1>1 DEF NoLeak, Created
<1>3. contexts' = 0 /\ framebuffers' = 0
  BY <1>2 DEF HandleUnrealize
<1> QED
  BY <1>3, Zenon DEF HandleUnrealize

(* The calls of setParent, step by step. *)
LEMMA CallStep == ASSUME IInv, Call PROVE IInv'
<1> USE SizesAssumption
    DEF IInv, TypeOK, Phase, DrawsWithContext, NoLeak, Created
<1>1. CASE StopTimer
  BY <1>1 DEF StopTimer, graphics
<1>2. CASE Detach
  BY <1>2 DEF Detach, graphics
<1>3. CASE Unrealize
  <2>1. realized /\ HandleUnrealize
    BY <1>3 DEF Unrealize
  <2>2. contexts' = 0 /\ framebuffers' = 0 /\ ~nvg' /\ nvg' \in BOOLEAN /\ fb' = NULL
    <3> HIDE DEF IInv
    <3> QED
      BY <2>1, UnrealizeDeletes, Zenon
  <2>3. 0 \in 0..1
    OBVIOUS
  <2> QED
    BY <1>3, <2>2, <2>3, Zenon DEF Unrealize
<1>4. CASE AttachNothing
  BY <1>4 DEF AttachNothing, view, graphics
<1>5. CASE Attach
  BY <1>5 DEF Attach, graphics
<1>6. CASE CreateWindow
  BY <1>6 DEF CreateWindow, graphics
<1>7. CASE Realize
  BY <1>7 DEF Realize, HandleRealize
<1>8. CASE StartTimer
  BY <1>8 DEF StartTimer, graphics
<1>9. CASE SetFrame
  BY <1>9 DEF SetFrame, view, graphics
<1>10. CASE RealizeRefused
  BY <1>10 DEF RealizeRefused, view, graphics
<1> QED
  BY <1>1, <1>2, <1>3, <1>4, <1>5, <1>6, <1>7, <1>8, <1>9, <1>10 DEF Call

(* What the host and pugl begin, at any moment. *)
LEMMA OtherStep ==
  ASSUME IInv, [Next]_vars, ~Call PROVE IInv'
<1> USE SizesAssumption
    DEF IInv, TypeOK, Phase, DrawsWithContext, NoLeak, Created
<1>1. CASE CreateGUI
  BY <1>1 DEF CreateGUI, view, graphics
<1>2. CASE DestroyGUI
  <2>1. CASE realized
    <3>1. HandleUnrealize
      BY <1>2, <2>1 DEF DestroyGUI
    <3>2. contexts' = 0 /\ framebuffers' = 0 /\ ~nvg' /\ nvg' \in BOOLEAN /\ fb' = NULL
      <4> HIDE DEF IInv
      <4> QED
        BY <2>1, <3>1, UnrealizeDeletes, Zenon
    <3>3. 0 \in 0..1
      OBVIOUS
    <3> QED
      BY <1>2, <2>1, <3>2, <3>3, Zenon DEF DestroyGUI
  <2>2. CASE ~realized
    BY <1>2, <2>2 DEF DestroyGUI, graphics
  <2> QED
    BY <2>1, <2>2
<1>3. CASE SetVisible
  <2>1. CASE UNCHANGED <<view, graphics>>
    BY <1>3, <2>1 DEF SetVisible, view, graphics
  <2>2. CASE ~realized /\ HandleRealize
    <3>1. ~nvg /\ contexts = 0 /\ framebuffers = 0
      BY <2>2
    <3>2. /\ contexts' = 1 /\ framebuffers' = 1 /\ nvg' = TRUE /\ fb' = size
          /\ pending' \in BOOLEAN /\ realized' = TRUE /\ native' = TRUE
          /\ alive' = alive /\ alive /\ pc' = pc /\ pc = "idle" /\ arg' = arg /\ size' = size
          /\ refused' = refused /\ parent' = parent /\ timer' = timer
      BY <1>3, <2>2, <3>1 DEF SetVisible, HandleRealize, view, graphics
    <3>3. 1 \in 0..1 /\ size # NULL
      OBVIOUS
    <3> QED
      BY <3>2, <3>3, Zenon
  <2> QED
    BY <1>3, <2>1, <2>2, Zenon DEF SetVisible
<1>4. CASE Configure
  <2>1. CASE nvg
    <3>1. fb' \in {size, NULL} /\ nvg' = nvg /\ contexts' = contexts
      BY <1>4, <2>1 DEF Configure
    <3>2. framebuffers' = Created(fb') /\ framebuffers' \in 0..1
      BY <1>4, <2>1 DEF Configure
    <3> QED
      BY <1>4, <2>1, <3>1, <3>2 DEF Configure, view
  <2>2. CASE ~nvg
    <3>1. UNCHANGED graphics /\ pending' \in BOOLEAN
      BY <1>4, <2>2, Zenon DEF Configure
    <3> QED
      BY <1>4, <3>1, Zenon DEF Configure, view, graphics
  <2> QED
    BY <2>1, <2>2
<1>5. CASE WindowTouched
  BY <1>5 DEF WindowTouched, view, graphics
<1>6. ASSUME NEW w \in {NULL, "window"}, SetParent(w) PROVE IInv'
  BY <1>6 DEF SetParent, view, graphics
<1>7. ASSUME NEW s \in Sizes, SetSize(s) PROVE IInv'
  BY <1>7 DEF SetSize, view, graphics
<1>8. CASE UNCHANGED vars
  BY <1>8 DEF vars, view, graphics
<1>9. CASE Stopped
  BY <1>9 DEF Stopped, vars, view, graphics
<1> QED
  BY <1>1, <1>2, <1>3, <1>4, <1>5, <1>6, <1>7, <1>8, <1>9 DEF Next

(* The inductive invariant: every state of a call fixes what exists. *)
THEOREM InductiveInvariant == Spec => []IInv
<1>1. IInv /\ [Next]_vars => IInv'
  BY CallStep, OtherStep
<1> QED
  BY InitInv, <1>1, PTL DEF Spec

(* For any sequence of calls and events, contexts and framebuffers are       *)
(* neither leaked nor deleted twice.                                         *)
THEOREM NothingLeaks == Spec => []NoLeak
<1>1. IInv => NoLeak
  BY DEF IInv
<1> QED
  BY InductiveInvariant, <1>1, PTL

(* The timer never ticks without a context. *)
THEOREM TicksDraw == Spec => []DrawsWithContext
<1>1. IInv => DrawsWithContext
  BY DEF IInv
<1> QED
  BY InductiveInvariant, <1>1, PTL
=============================================================================
