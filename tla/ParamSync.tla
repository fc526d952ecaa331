----------------------------- MODULE ParamSync -----------------------------
(***************************************************************************)
(* How the copies of a parameter are kept together                         *)
(* (templates/cplug_pugl_nanovg/src/plugin.c): the audio thread's          *)
(* paramValuesAudio, the main thread's paramValuesMain that the GUI draws, *)
(* the host's own idea of the value, and a saved preset.  Events travel    *)
(* main -> audio -> host and, when a GUI is attached, audio -> main.       *)
(*                                                                         *)
(* The two rings are FIFO channels of capacity Size - 1, which is what     *)
(* EventQueue shows of the code of the rings; a send to a full one sets    *)
(* void, and the model stops there: EventQueue says what happens next.     *)
(* A value is a number or NaN, which passes every clamp; normalising NaN   *)
(* runs into an assertion of the code, which sets void too.                *)
(***************************************************************************)
EXTENDS Integers, Sequences, FiniteSets

CONSTANTS
    NumParams,          \* kParameterCount
    MinValue, MaxValue, \* ParamInfo.min and .max of each parameter
    InitAudio,          \* paramValuesAudio as cplug_createPlugin leaves it
    Presets,            \* presets from outside: any values at all, the size is right
    NaN,                \* not a number
    Capacity,           \* CPLUG_EVENT_QUEUE_SIZE - 1
    Delta,              \* vertical mouse travel, in steps of the parameter
    HostValue,          \* values a host may send, in range, out of it or NaN
    StoresGuiPointer,   \* does creating a GUI set MyPlugin.gui?  FALSE in the
                        \* pugl template, TRUE in the window template; a set
    MaxSends, MaxHostSets, MaxOpens     \* bounds of one behaviour, by storesGui

Param == 0..(NumParams - 1)

ValueRange(p) == MinValue[p]..MaxValue[p]

Value == Int \cup {NaN}

ASSUME ParamAssumption ==
    /\ NumParams \in Nat \ {0} /\ Capacity \in Nat \ {0}
    /\ MinValue \in [Param -> Int] /\ MaxValue \in [Param -> Int]
    /\ \A p \in Param : /\ MinValue[p] < MaxValue[p]
                        /\ InitAudio[p] \in ValueRange(p)
    /\ InitAudio \in [Param -> Int] /\ Presets \subseteq [Param -> Value]
    /\ Delta \subseteq Int /\ HostValue \subseteq Value /\ NaN \notin Int
    /\ StoresGuiPointer \subseteq BOOLEAN
    /\ {MaxSends, MaxHostSets, MaxOpens} \subseteq [StoresGuiPointer -> Nat]

VARIABLES
    storesGui,          \* which template it is; never changes
    audio, main,        \* paramValuesAudio, paramValuesMain
    toAudio, toMain,    \* the two rings, oldest event first
    preset,             \* the bytes saveState wrote last
    vals,               \* loadState's local copy of what it was given to read
    guiOpen, guiPtr,    \* a MyGUI exists; MyPlugin.gui is not NULL
    dragging, dragStart,    \* MyGUI.mouseDragging, the value the drag began at
    mpc, mi,            \* main thread: inside loadState or saveState, at which parameter
    apc, aleft,         \* audio thread: inside cplug_process, events left of its snapshot
    hostVal, hostDepth, \* host: value it knows, gestures it sees open
    synced, abandoned, given,   \* history, see below
    void,               \* a ring was full, or an assertion failed
    sends, hostSets, opens

rings == <<toAudio, toMain, void, sends>>
gui   == <<guiOpen, guiPtr, dragging, dragStart, opens>>
load  == <<mpc, mi, preset, vals, given>>
proc  == <<apc, aleft>>
host  == <<hostVal, hostDepth, hostSets>>
vars  == <<storesGui, audio, main, rings, gui, load, proc, host, synced, abandoned>>

Event == [type : {"BEGIN", "UPDATE", "END"}, id : Param, value : Value]

Begin(p)     == [type |-> "BEGIN",  id |-> p, value |-> 0]
End(p)       == [type |-> "END",    id |-> p, value |-> 0]
Update(p, v) == [type |-> "UPDATE", id |-> p, value |-> v]

(* Mutant: no upper bound. *)
ClampBelow(p, v) == IF v = NaN THEN v
                    ELSE IF v < MinValue[p] THEN MinValue[p] ELSE v

(* The clamp of cplug_setParameterValue and of the GUI's normalising. *)
Clamp(p, v) == IF v = NaN THEN v
               ELSE IF v < MinValue[p] THEN MinValue[p]
               ELSE IF v > MaxValue[p] THEN MaxValue[p] ELSE v

UpdatesOf(p, fifo) == {i \in 1..Len(fifo) : fifo[i].type = "UPDATE" /\ fifo[i].id = p}

Latest(positions) == CHOOSE i \in positions : \A j \in positions : j <= i

(* The value a copy of p will have when all of fifo has been applied to it. *)
Final(p, fifo, value) ==
    IF UpdatesOf(p, fifo) = {} THEN value ELSE fifo[Latest(UpdatesOf(p, fifo))].value

Init ==
    /\ storesGui \in StoresGuiPointer
    /\ audio = InitAudio /\ main = [p \in Param |-> 0]
    /\ toAudio = <<>> /\ toMain = <<>> /\ preset = InitAudio
    /\ vals = InitAudio /\ given = [p \in Param |-> {}]
    /\ guiOpen = FALSE /\ guiPtr = FALSE /\ dragging = FALSE /\ dragStart = 0
    /\ mpc = "idle" /\ mi = 0 /\ apc = "idle" /\ aleft = 0
    /\ hostVal = InitAudio /\ hostDepth = 0
    /\ synced = [p \in Param |-> InitAudio[p] = 0] /\ abandoned = 0
    /\ void = FALSE /\ sends = 0 /\ hostSets = 0 /\ opens = 0

-----------------------------------------------------------------------------
(* Sends.  The producer has no test for a full ring.                       *)
SendParamEventFromMain(e) ==
    /\ sends < MaxSends[storesGui] /\ sends' = sends + 1
    /\ IF Len(toAudio) < Capacity
       THEN toAudio' = Append(toAudio, e) /\ void' = void
       ELSE toAudio' = toAudio /\ void' = TRUE
    /\ UNCHANGED toMain

SendParamEventFromAudio(e) ==
    /\ IF Len(toMain) < Capacity
       THEN toMain' = Append(toMain, e) /\ void' = void
       ELSE toMain' = toMain /\ void' = TRUE
    /\ UNCHANGED <<toAudio, sends>>

-----------------------------------------------------------------------------
(* Main thread: the GUI                                                    *)
CreateGUI ==
    /\ mpc = "idle" /\ ~guiOpen /\ opens < MaxOpens[storesGui]
    /\ guiOpen' = TRUE /\ opens' = opens + 1
    /\ guiPtr' = storesGui
    /\ dragging' = FALSE /\ dragStart' = 0
    /\ UNCHANGED <<audio, main, rings, load, proc, host, synced, abandoned>>

(* Freed in the middle of a drag, the GUI never sends the END.             *)
DestroyGUI ==
    /\ mpc = "idle" /\ guiOpen
    /\ guiOpen' = FALSE /\ guiPtr' = FALSE
    /\ abandoned' = abandoned + (IF dragging THEN 1 ELSE 0)
    /\ dragging' = FALSE /\ dragStart' = 0
    /\ UNCHANGED <<audio, main, rings, opens, load, proc, host, synced>>

(* Any button; a second one pressed during a drag starts a second gesture. *)
(* The drag begins at the normalised value, which is in range.             *)
HandleMouseDown ==
    /\ mpc = "idle" /\ guiOpen /\ audio[0] # NaN
    /\ SendParamEventFromMain(Begin(0))
    /\ dragging' = TRUE /\ dragStart' = Clamp(0, audio[0])
    /\ abandoned' = abandoned + (IF dragging THEN 1 ELSE 0)
    /\ UNCHANGED <<audio, main, guiOpen, guiPtr, opens, load, proc, host, synced>>

(* A button pressed, or a frame drawn: the assertion on NaN.               *)
NormaliseFails ==
    /\ mpc = "idle" /\ guiOpen /\ NaN \in {audio[0], main[0]}
    /\ void' = TRUE
    /\ UNCHANGED <<audio, main, toAudio, toMain, sends, gui, load, proc, host, synced,
                   abandoned>>

HandleMouseMove(dy) ==
    /\ mpc = "idle" /\ guiOpen /\ dragging
    /\ LET v == Clamp(0, dragStart + dy) IN
        /\ main' = [main EXCEPT ![0] = v]
        /\ SendParamEventFromMain(Update(0, v))
    /\ synced' = [synced EXCEPT ![0] = UpdatesOf(0, toMain) = {}]
    /\ UNCHANGED <<audio, gui, load, proc, host, abandoned>>

(* Mutant: END sent for every release of a button. *)
HandleMouseUpAlways ==
    /\ mpc = "idle" /\ guiOpen
    /\ SendParamEventFromMain(End(0))
    /\ dragging' = FALSE
    /\ UNCHANGED <<audio, main, guiOpen, guiPtr, dragStart, opens, load, proc, host,
                   synced, abandoned>>

HandleMouseUp ==
    /\ mpc = "idle" /\ guiOpen /\ dragging
    /\ SendParamEventFromMain(End(0))
    /\ dragging' = FALSE
    /\ UNCHANGED <<audio, main, guiOpen, guiPtr, dragStart, opens, load, proc, host,
                   synced, abandoned>>

(* Mutant: the events are taken and not applied. *)
TickGUIDiscards ==
    /\ mpc = "idle" /\ guiOpen /\ toMain # <<>>
    /\ toMain' = <<>>
    /\ UNCHANGED <<audio, main, toAudio, void, sends, gui, load, proc, host, synced, abandoned>>

(* The timer of the view: drain the audio thread's events, then redraw.    *)
TickGUI ==
    /\ mpc = "idle" /\ guiOpen /\ toMain # <<>>
    /\ main' = [p \in Param |-> Final(p, toMain, main[p])]
    /\ toMain' = <<>>
    /\ UNCHANGED <<audio, toAudio, void, sends, gui, load, proc, host, synced, abandoned>>

-----------------------------------------------------------------------------
(* Main thread: state.  Both loops visit the parameters one by one while   *)
(* the audio thread runs.                                                  *)
(* What it reads was saved here or comes from outside.  Bytes of another   *)
(* size are left alone; of the right size they are taken as they are.      *)
LoadStateBegin(v) ==
    /\ mpc = "idle" /\ sends + NumParams <= MaxSends[storesGui]
    /\ mpc' = "write" /\ mi' = 0 /\ vals' = v
    /\ UNCHANGED <<audio, main, rings, gui, preset, given, proc, host, synced, abandoned>>

(* Mutant: the main copy is forgotten. *)
LoadStateWriteAudio ==
    /\ mpc = "write"
    /\ audio' = [audio EXCEPT ![mi] = vals[mi]]
    /\ given' = [given EXCEPT ![mi] = @ \cup ({vals[mi]} \ ValueRange(mi))]
    /\ mpc' = "send"
    /\ UNCHANGED <<main, rings, gui, mi, preset, vals, proc, host, synced, abandoned>>

LoadStateWrite ==
    /\ mpc = "write"
    /\ audio' = [audio EXCEPT ![mi] = vals[mi]]
    /\ main' = [main EXCEPT ![mi] = vals[mi]]
    /\ given' = [given EXCEPT ![mi] = @ \cup ({vals[mi]} \ ValueRange(mi))]
    /\ mpc' = "send"
    /\ UNCHANGED <<rings, gui, mi, preset, vals, proc, host, synced, abandoned>>

LoadStateSend ==
    /\ mpc = "send"
    /\ SendParamEventFromMain(Update(mi, vals[mi]))
    /\ synced' = [synced EXCEPT ![mi] = UpdatesOf(mi, toMain) = {}]
    /\ mi' = mi + 1
    /\ mpc' = IF mi + 1 = NumParams THEN "idle" ELSE "write"
    /\ vals' = IF mi + 1 = NumParams THEN InitAudio ELSE vals
    /\ UNCHANGED <<audio, main, gui, preset, given, proc, host, abandoned>>

SaveStateBegin ==
    /\ mpc = "idle" /\ mpc' = "save" /\ mi' = 0
    /\ UNCHANGED <<audio, main, rings, gui, preset, vals, given, proc, host, synced, abandoned>>

SaveStateParam ==
    /\ mpc = "save"
    /\ preset' = [preset EXCEPT ![mi] = audio[mi]]
    /\ mi' = mi + 1
    /\ mpc' = IF mi + 1 = NumParams THEN "idle" ELSE "save"
    /\ UNCHANGED <<audio, main, rings, gui, vals, given, proc, host, synced, abandoned>>

-----------------------------------------------------------------------------
(* Mutant: the newest event is left out. *)
ProcessBeginShort ==
    /\ apc = "idle"
    /\ apc' = "drain" /\ aleft' = IF toAudio = <<>> THEN 0 ELSE Len(toAudio) - 1
    /\ UNCHANGED <<audio, main, rings, gui, load, host, synced, abandoned>>

(* Audio thread: cplug_process                                             *)
ProcessBegin ==
    /\ apc = "idle"
    /\ apc' = "drain" /\ aleft' = Len(toAudio)
    /\ UNCHANGED <<audio, main, rings, gui, load, host, synced, abandoned>>

(* Mutant: an UPDATE is applied but not passed on. *)
DrainEventSilently ==
    /\ apc = "drain" /\ aleft > 0
    /\ LET e == Head(toAudio) IN
        /\ audio' = IF e.type = "UPDATE" THEN [audio EXCEPT ![e.id] = e.value] ELSE audio
        /\ hostDepth' = hostDepth + (CASE e.type = "BEGIN" -> 1
                                       [] e.type = "END" -> -1
                                       [] OTHER -> 0)
    /\ toAudio' = Tail(toAudio) /\ aleft' = aleft - 1
    /\ UNCHANGED <<main, toMain, void, sends, gui, load, apc, hostVal, hostSets, synced,
                   abandoned>>

(* One event: an UPDATE is stored as it is, any event goes on to the host. *)
DrainEvent ==
    /\ apc = "drain" /\ aleft > 0
    /\ LET e == Head(toAudio) IN
        /\ audio' = IF e.type = "UPDATE" THEN [audio EXCEPT ![e.id] = e.value] ELSE audio
        /\ hostVal' = IF e.type = "UPDATE" THEN [hostVal EXCEPT ![e.id] = e.value] ELSE hostVal
        /\ hostDepth' = hostDepth + (CASE e.type = "BEGIN" -> 1
                                       [] e.type = "END" -> -1
                                       [] OTHER -> 0)
    /\ toAudio' = Tail(toAudio) /\ aleft' = aleft - 1
    /\ UNCHANGED <<main, toMain, void, sends, gui, load, apc, hostSets, synced, abandoned>>

DrainEnd ==
    /\ apc = "drain" /\ aleft = 0
    /\ apc' = "events"
    /\ UNCHANGED <<audio, main, rings, gui, load, aleft, host, synced, abandoned>>

(* A parameter event of the host in the block: cplug_setParameterValue.    *)
SetParameterValue(p, v) ==
    /\ apc = "events" /\ hostSets < MaxHostSets[storesGui]
    /\ hostSets' = hostSets + 1
    /\ hostVal' = [hostVal EXCEPT ![p] = v]
    /\ audio' = [audio EXCEPT ![p] = Clamp(p, v)]
    /\ IF guiPtr THEN SendParamEventFromAudio(Update(p, Clamp(p, v)))
                 ELSE UNCHANGED rings
    /\ synced' = [synced EXCEPT ![p] = guiPtr /\ UpdatesOf(p, toAudio) = {}]
    /\ given' = [given EXCEPT ![p] = @ \cup ({v} \cap {NaN})]
    /\ UNCHANGED <<main, gui, mpc, mi, preset, vals, proc, hostDepth, abandoned>>

ProcessEnd ==
    /\ apc = "events"
    /\ apc' = "idle"
    /\ UNCHANGED <<audio, main, rings, gui, load, aleft, host, synced, abandoned>>

-----------------------------------------------------------------------------
MainStep ==
    \/ CreateGUI \/ DestroyGUI
    \/ HandleMouseDown \/ NormaliseFails \/ (\E dy \in Delta : HandleMouseMove(dy)) \/ HandleMouseUp
    \/ TickGUI
    \/ (\E v \in {preset} \cup Presets : LoadStateBegin(v))
    \/ LoadStateWrite \/ LoadStateSend
    \/ SaveStateBegin \/ SaveStateParam

ProcessStep == ProcessBegin \/ DrainEvent \/ DrainEnd \/ ProcessEnd

AudioStep ==
    ProcessStep \/ \E p \in Param : \E v \in HostValue : SetParameterValue(p, v)

Next == \/ ~void /\ (MainStep \/ AudioStep) /\ UNCHANGED storesGui
        \/ void /\ UNCHANGED vars

Spec == Init /\ [][Next]_vars

(* The host keeps calling cplug_process, a call of loadState or saveState   *)
(* returns, and the view's timer is served as one event among others of     *)
(* the main loop, which a host busy saving does not starve.  Nothing makes  *)
(* a user or a host act.                                                    *)
FairSpec ==
    /\ Spec
    /\ WF_vars(~void /\ ProcessStep /\ UNCHANGED storesGui)
    /\ WF_vars(~void /\ (LoadStateWrite \/ LoadStateSend \/ SaveStateParam) /\ UNCHANGED storesGui)
    /\ SF_vars(~void /\ TickGUI /\ UNCHANGED storesGui)

-----------------------------------------------------------------------------
Loading(p) == mpc = "send" /\ mi = p

TypeOK ==
    /\ {audio, main, preset, vals, hostVal} \subseteq [Param -> Value]
    /\ toAudio \in Seq(Event) /\ Len(toAudio) <= Capacity
    /\ toMain \in Seq(Event) /\ Len(toMain) <= Capacity
    /\ guiOpen \in BOOLEAN /\ guiPtr \in BOOLEAN /\ dragging \in BOOLEAN
    /\ dragStart \in Int
    /\ mpc \in {"idle", "write", "send", "save"} /\ mi \in 0..NumParams
    /\ mpc # "idle" => mi \in Param
    /\ apc \in {"idle", "drain", "events"} /\ aleft \in 0..Len(toAudio)
    /\ hostDepth \in Int /\ given \in [Param -> SUBSET Value]
    /\ synced \in [Param -> BOOLEAN] /\ abandoned \in Nat
    /\ void \in BOOLEAN /\ sends \in Nat /\ hostSets \in Nat /\ opens \in Nat

(* AudioInRange: the drain and loadState store what they are given without *)
(* a clamp; still the audio thread and the saved preset hold a value out   *)
(* of its parameter's range only if a preset brought that value for that   *)
(* parameter before (or the host NaN).  given[p] is the set of these.      *)
Allowed(p) == ValueRange(p) \cup given[p]

AudioInRange == \A p \in Param : audio[p] \in Allowed(p) /\ preset[p] \in Allowed(p)

(* Agreement: when everything in flight has been applied the audio thread  *)
(* and the GUI will hold the same value.  synced[p] says that the last     *)
(* writer of p had its value sent to the other side and that nothing older *)
(* was on its way to the writer.                                           *)
Agreement ==
    \A p \in Param : (synced[p] /\ ~void /\ ~Loading(p)) =>
        Final(p, toAudio, audio[p]) = Final(p, toMain, main[p])

(* HostAgreement: the same for the host: what it will know when the drain  *)
(* has passed everything on is what the audio thread will use, as it is or *)
(* clamped.                                                                *)
HostAgreement ==
    \A p \in Param : (~void /\ ~Loading(p)) =>
        LET known == Final(p, toAudio, hostVal[p]) IN
        Final(p, toAudio, audio[p]) \in {known, Clamp(p, known)}

Count(type, fifo) == Cardinality({i \in 1..Len(fifo) : fifo[i].type = type})

(* GestureAccounting: every gesture the host sees is the drag in progress  *)
(* or one given up (a second button pressed, the GUI closed); the host     *)
(* never sees an END without its BEGIN.                                    *)
GestureAccounting ==
    ~void => /\ hostDepth >= 0
             /\ hostDepth + Count("BEGIN", toAudio) - Count("END", toAudio)
                    = abandoned + (IF dragging THEN 1 ELSE 0)

(* HostEventuallyAgrees: once users and hosts leave the plugin alone, the  *)
(* host comes to know every value the audio thread uses and stays there.   *)
HostEventuallyAgrees ==
    <>[](void \/ \A p \in Param : /\ audio[p] \in {hostVal[p], Clamp(p, hostVal[p])}
                                  /\ UpdatesOf(p, toAudio) = {})

(* GuiCatchesUp: an open GUI comes to show the audio thread's value of     *)
(* every parameter whose last write was sent to it.                        *)
GuiCatchesUp ==
    <>[](void \/ ~guiOpen \/ \A p \in Param : synced[p] => main[p] = audio[p])

(* IncomingUpdateSentToGui: "Send incoming param update to GUI" (the       *)
(* comment in cplug_setParameterValue): a host's change of a parameter is  *)
(* put on the way to an open GUI.                                          *)
IncomingUpdateSentToGui ==
    [][(hostSets' # hostSets /\ guiOpen) => (toMain' # toMain \/ void')]_vars
=============================================================================
