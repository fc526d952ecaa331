-------------------------- MODULE HotReloadProofs --------------------------
(* Theorems about the hot reload programs: for any number of edits and any   *)
(* size of the notification buffer, the loop calls the library it loaded and *)
(* no change is forgotten.  First each program, then whichever runs.         *)
EXTENDS MCHotReload, SequenceTheorems, TLAPS

-----------------------------------------------------------------------------
(* Windows                                                                   *)

(* libfunc belongs to the library loaded wherever the loop can call it.      *)
Loaded == pc \in {"test", "swap", "call"} => lib # NULL /\ libfunc = lib

LEMMA LoadedStep == Loaded /\ [Win!Next]_(Win!vars) => Loaded'
<1> SUFFICES ASSUME Loaded, [Win!Next]_(Win!vars) PROVE Loaded'
  OBVIOUS
<1> USE DEF Loaded, Win!mvars, Win!libs, Win!wvars, Win!flags, Win!env
<1>1. CASE UNCHANGED Win!vars
  BY <1>1 DEF Win!vars
<1>2. CASE Win!Main
  <2>1. CASE Win!FirstLoad \/ Win!Reload
    BY <2>1 DEF Win!FirstLoad, Win!Reload, Win!Load
  <2>2. CASE Win!TestExit \/ Win!SwapFlag \/ Win!Call
    BY <2>2 DEF Win!TestExit, Win!SwapFlag, Win!Call
  <2>3. CASE Win!Free \/ Win!BuildBegin \/ Win!BuildEnd \/ Win!StopWatch \/ Win!JoinAndFree
    BY <2>3 DEF Win!Free, Win!BuildBegin, Win!BuildEnd, Win!StopWatch, Win!JoinAndFree
  <2>4. QED  BY <1>2, <2>1, <2>2, <2>3 DEF Win!Main
<1>3. CASE Win!Watch \/ Win!Edit \/ Win!OtherChange \/ Win!CtrlC
  <2>1. UNCHANGED <<pc, lib, libfunc>>
    BY <1>3 DEF Win!Watch, Win!OpenDirectory, Win!TestExitWatch, Win!WaitTimesOut, Win!WaitReturns, Win!WalkBuffer,
       Win!QueueNext, Win!Edit, Win!OtherChange, Win!CtrlC
  <2>2. QED  BY <2>1
<1>4. QED  BY <1>1, <1>2, <1>3 DEF Win!Next

LEMMA WinInitLoaded == Win!Init => Loaded
BY DEF Win!Init, Loaded

(* The loop only ever calls a function of the library it has loaded.         *)
THEOREM LoadedLibraryCalled == Win!Spec => []Win!CallsLoadedLibrary
<1>1. Win!Init => Loaded
  BY WinInitLoaded
<1>2. Loaded => Win!CallsLoadedLibrary
  BY DEF Loaded, Win!CallsLoadedLibrary
<1>3. QED  BY <1>1, <1>2, LoadedStep, PTL DEF Win!Spec

(* The changes: what is not lost fits in the buffer.                         *)
Action == {"modified", "other"}
WatchInv ==
  /\ unseen \in Seq(Action) /\ src \in Nat
  /\ ~lost => Len(unseen) <= Room
  /\ Win!ChangeRemembered

(* A step that takes no notification away and sees no newer source.          *)
LEMMA StillRemembered ==
  ASSUME WatchInv, UNCHANGED <<src, unseen>>, lost => lost', Win!Running' => Win!Running,
         Win!Watching' => Win!Watching /\ missed' = missed, building' = building,
         wpc = "walk" => (wpc' = "walk" /\ infobuffer' = infobuffer), rebuild => rebuild',
         pc \in {"free", "build"} => pc' \in {"free", "build"}
  PROVE  WatchInv'
<1>1. unseen' \in Seq(Action) /\ src' \in Nat /\ (~lost' => Len(unseen') <= Room)
  BY DEF WatchInv
<1>2. Win!ChangeRemembered'
  BY DEF WatchInv, Win!ChangeRemembered, Win!Holds
<1>3. QED  BY <1>1, <1>2 DEF WatchInv

LEMMA MainRemembers == ASSUME WatchInv, Win!Main PROVE WatchInv'
<1> USE DEF Win!mvars, Win!libs, Win!wvars, Win!flags, Win!env
<1>1. CASE Win!FirstLoad \/ Win!Reload \/ Win!TestExit \/ Win!Free \/ Win!BuildEnd \/ Win!Call \/ Win!StopWatch \/ Win!JoinAndFree
  <2>1. /\ UNCHANGED <<src, unseen, wpc, missed, building, infobuffer, rebuild>> /\ (lost => lost')
        /\ pc \notin {"done", "break"} /\ (pc \in {"free", "build"} => pc' = "build")
    BY <1>1 DEF Win!FirstLoad, Win!Reload, Win!Load, Win!TestExit, Win!Free, Win!BuildEnd, Win!Call, Win!StopWatch, Win!JoinAndFree
  <2>2. QED  BY <2>1, StillRemembered DEF Win!Watching, Win!Running
<1>2. CASE Win!SwapFlag
  <2>1. /\ UNCHANGED <<src, unseen, lost, wpc, missed, building, infobuffer>> /\ pc = "swap"
        /\ (rebuild => pc' = "free")
    BY <1>2 DEF Win!SwapFlag
  <2>2. Win!ChangeRemembered'
    BY <2>1 DEF WatchInv, Win!ChangeRemembered, Win!Holds, Win!Watching, Win!Running
  <2>3. QED  BY <2>1, <2>2 DEF WatchInv
<1>3. CASE Win!BuildBegin
  <2>1. UNCHANGED <<src, unseen, lost>> /\ (building' = src \/ ~Win!Running')
    BY <1>3 DEF Win!BuildBegin, Win!Running
  <2>2. Win!ChangeRemembered'
    BY <2>1 DEF WatchInv, Win!ChangeRemembered
  <2>3. QED  BY <2>1, <2>2 DEF WatchInv
<1>4. QED  BY <1>1, <1>2, <1>3 DEF Win!Main

LEMMA WatchRemembers == ASSUME WatchInv, Room \in Nat, Win!Watch PROVE WatchInv'
<1> USE DEF Win!mvars, Win!libs, Win!wvars, Win!flags, Win!env
<1>1. CASE Win!OpenDirectory
  <2>1. UNCHANGED <<src, unseen, lost>> /\ (missed' = src \/ ~Win!Watching')
    BY <1>1 DEF Win!OpenDirectory, Win!Watching
  <2>2. Win!ChangeRemembered'
    BY <2>1 DEF WatchInv, Win!ChangeRemembered
  <2>3. QED  BY <2>1, <2>2 DEF WatchInv
<1>2. CASE Win!TestExitWatch \/ Win!WaitTimesOut \/ Win!QueueNext
  <2>1. /\ UNCHANGED <<src, unseen, lost, missed, building, infobuffer, rebuild, pc>>
        /\ wpc \in {"test", "wait", "queue"}
    BY <1>2 DEF Win!TestExitWatch, Win!WaitTimesOut, Win!QueueNext
  <2>2. QED  BY <2>1, StillRemembered DEF Win!Watching, Win!Running
<1>3. CASE Win!WaitReturns
  <2>1. /\ UNCHANGED <<src, lost, missed, building, rebuild, pc>> /\ unseen' = <<>>
        /\ wpc = "wait" /\ wpc' = "walk" /\ (Len(unseen) <= Room => infobuffer' = unseen)
    BY <1>3 DEF Win!WaitReturns
  <2>2. Win!ChangeRemembered'
    BY <2>1 DEF WatchInv, Win!ChangeRemembered, Win!Holds, Win!Watching, Win!Running
  <2>3. unseen' \in Seq(Action) /\ Len(unseen') <= Room
    BY <2>1, EmptySeq
  <2>4. QED  BY <2>1, <2>2, <2>3 DEF WatchInv
<1>4. CASE Win!WalkBuffer
  <2>1. /\ UNCHANGED <<src, unseen, lost, missed, building, infobuffer, pc>> /\ wpc = "walk"
        /\ (rebuild \/ Win!Holds(infobuffer, "modified") => rebuild')
    BY <1>4 DEF Win!WalkBuffer, Win!Holds
  <2>2. Win!ChangeRemembered'
    BY <2>1 DEF WatchInv, Win!ChangeRemembered, Win!Holds, Win!Watching, Win!Running
  <2>3. QED  BY <2>1, <2>2 DEF WatchInv
<1>5. QED  BY <1>1, <1>2, <1>3, <1>4 DEF Win!Watch

LEMMA NotifyKeeps ==
  ASSUME WatchInv, Room \in Nat, NEW a \in Action, Win!Notify(a)
  PROVE  /\ unseen' \in Seq(Action) /\ (~lost' => ~lost /\ Len(unseen') <= Room)
         /\ Win!Watching /\ ~lost' => Win!Holds(unseen', a)
         /\ \A x : Win!Holds(unseen, x) => Win!Holds(unseen', x)
<1>1. unseen \in Seq(Action) /\ Len(unseen) \in Nat
  BY LenProperties DEF WatchInv
<1>2. CASE Win!Watching /\ Len(unseen) <= Room
  <2>1. /\ unseen' = Append(unseen, a) /\ Append(unseen, a) \in Seq(Action)
        /\ Len(Append(unseen, a)) = Len(unseen) + 1 /\ Append(unseen, a)[Len(unseen) + 1] = a
        /\ \A i \in 1 .. Len(unseen) : Append(unseen, a)[i] = unseen[i]
    BY <1>1, <1>2 DEF Win!Notify
  <2>2. ~lost' => ~lost /\ ~(Len(unseen) >= Room)
    BY <1>2 DEF Win!Notify
  <2>3. Len(unseen) + 1 \in 1 .. Len(unseen')
    BY <1>1, <2>1
  <2>4. 1 .. Len(unseen) \subseteq 1 .. Len(unseen')
    BY <1>1, <2>1
  <2>5. QED  BY <1>1, <2>1, <2>2, <2>3, <2>4 DEF Win!Holds
<1>3. CASE ~(Win!Watching /\ Len(unseen) <= Room)
  <2>1. unseen' = unseen /\ (~lost' => ~lost /\ ~(Win!Watching /\ Len(unseen) >= Room))
    BY <1>3 DEF Win!Notify
  <2>2. QED  BY <1>1, <1>3, <2>1 DEF WatchInv
<1>4. QED  BY <1>2, <1>3

LEMMA SurroundingsRemember ==
  ASSUME WatchInv, Room \in Nat, Win!Edit \/ Win!OtherChange \/ Win!CtrlC PROVE WatchInv'
<1> USE DEF Win!mvars, Win!libs, Win!wvars, Win!flags, Win!env
<1>1. CASE Win!Edit
  <2>1. /\ src' = src + 1 /\ Win!Notify("modified")
        /\ UNCHANGED <<pc, wpc, infobuffer, rebuild, building, missed>>
    BY <1>1 DEF Win!Edit
  <2>2. /\ unseen' \in Seq(Action) /\ (~lost' => ~lost /\ Len(unseen') <= Room)
        /\ Win!Watching /\ ~lost' => Win!Holds(unseen', "modified")
    BY <2>1, NotifyKeeps DEF Action
  <2>3. Win!ChangeRemembered'
    BY <2>1, <2>2 DEF Win!ChangeRemembered, Win!Holds, Win!Watching
  <2>4. QED  BY <2>1, <2>2, <2>3 DEF WatchInv
<1>2. CASE Win!OtherChange
  <2>1. Win!Notify("other") /\ UNCHANGED <<pc, wpc, infobuffer, rebuild, src, building, missed>>
    BY <1>2 DEF Win!OtherChange
  <2>2. /\ unseen' \in Seq(Action) /\ (~lost' => ~lost /\ Len(unseen') <= Room)
        /\ Win!Holds(unseen, "modified") => Win!Holds(unseen', "modified")
    BY <2>1, NotifyKeeps DEF Action
  <2>3. Win!ChangeRemembered'
    BY <2>1, <2>2 DEF WatchInv, Win!ChangeRemembered, Win!Holds, Win!Watching, Win!Running
  <2>4. QED  BY <2>1, <2>2, <2>3 DEF WatchInv
<1>3. CASE Win!CtrlC
  <2>1. UNCHANGED <<src, unseen, lost, wpc, missed, building, infobuffer, rebuild, pc>>
    BY <1>3 DEF Win!CtrlC
  <2>2. QED  BY <2>1, StillRemembered DEF Win!Watching, Win!Running
<1>4. QED  BY <1>1, <1>2, <1>3

LEMMA WinInitRemembered == ASSUME Room \in Nat PROVE Win!Init => WatchInv
<1>1. <<>> \in Seq(Action) /\ Len(<<>>) = 0
  BY EmptySeq
<1>2. QED  BY <1>1 DEF Win!Init, WatchInv, Win!ChangeRemembered, Win!Watching

LEMMA WatchInvStep ==
  ASSUME Room \in Nat PROVE WatchInv /\ [Win!Next]_(Win!vars) => WatchInv'
<1> SUFFICES ASSUME WatchInv, [Win!Next]_(Win!vars) PROVE WatchInv'
  OBVIOUS
<1>1. CASE UNCHANGED Win!vars
  <2>1. UNCHANGED <<src, unseen, lost, wpc, missed, building, infobuffer, rebuild, pc>>
    BY <1>1 DEF Win!vars, Win!mvars, Win!wvars, Win!flags, Win!env
  <2>2. QED  BY <2>1, StillRemembered DEF Win!Watching, Win!Running
<1>2. QED  BY <1>1, MainRemembers, WatchRemembers, SurroundingsRemember DEF Win!Next

(* Unless the buffer overflowed, a change no build has begun with is with    *)
(* the system, in the buffer, in the flag, or about to be built.             *)
THEOREM ChangesRemembered == ASSUME Room \in Nat PROVE Win!Spec => []Win!ChangeRemembered
<1>1. WatchInv => Win!ChangeRemembered
  BY DEF WatchInv
<1>2. QED  BY <1>1, WinInitRemembered, WatchInvStep, PTL DEF Win!Spec
-----------------------------------------------------------------------------
(* macOS                                                                     *)
MacTypes == src \in Nat /\ disk \in Nat /\ building \in Nat /\ missed \in Nat

(* Both pointers are set in the loop and none is before a library is loaded. *)
MacLoaded ==
  /\ pc \in {"watch", "test", "swap", "call"} => lib # NULL /\ libfunc = lib
  /\ pc \in {"load", "build", "building", "reload"} => lib = NULL /\ libfunc = NULL

LEMMA MacTypesStep == MacTypes /\ [Mac!Next]_(Mac!vars) => MacTypes'
<1> SUFFICES ASSUME MacTypes, [Mac!Next]_(Mac!vars) PROVE MacTypes'
  OBVIOUS
<1> USE DEF MacTypes, Mac!env
<1>1. CASE Mac!StartStream \/ Mac!BuildBegin \/ Mac!Edit
  BY <1>1 DEF Mac!StartStream, Mac!BuildBegin, Mac!Edit
<1>2. CASE Mac!BuildEnd
  <2>1. disk' \in building .. src \/ disk' = disk
    BY <1>2 DEF Mac!BuildEnd
  <2>2. UNCHANGED <<src, building, missed>>
    BY <1>2 DEF Mac!BuildEnd
  <2>3. QED  BY <2>1, <2>2
<1>3. CASE UNCHANGED Mac!env
  BY <1>3
<1>4. QED
  BY <1>1, <1>2, <1>3 DEF Mac!vars, Mac!Next, Mac!Main, Mac!FirstLoad, Mac!Reload, Mac!LoadLibs,
     Mac!TestExit, Mac!SwapFlag, Mac!Unload, Mac!Call, Mac!Cleanup, Mac!FseventCb, Mac!OtherEvent,
     Mac!CtrlC

LEMMA MacLoadedStep ==
  ASSUME NULL \notin Nat PROVE MacTypes /\ MacLoaded /\ [Mac!Next]_(Mac!vars) => MacLoaded'
<1> SUFFICES ASSUME MacTypes, MacLoaded, [Mac!Next]_(Mac!vars) PROVE MacLoaded'
  OBVIOUS
<1> USE DEF MacLoaded, Mac!libs, Mac!Return
<1>1. CASE UNCHANGED Mac!vars
  BY <1>1 DEF Mac!vars
<1>2. CASE Mac!FirstLoad \/ Mac!Reload
  BY <1>2 DEF Mac!FirstLoad, Mac!Reload, Mac!LoadLibs, MacTypes
<1>3. CASE Mac!StartStream \/ Mac!TestExit \/ Mac!SwapFlag \/ Mac!BuildBegin \/ Mac!BuildEnd \/ Mac!Call
  BY <1>3 DEF Mac!StartStream, Mac!TestExit, Mac!SwapFlag, Mac!BuildBegin, Mac!BuildEnd, Mac!Call
<1>4. CASE Mac!Unload \/ Mac!Cleanup
  BY <1>4 DEF Mac!Unload, Mac!Cleanup, Mac!UnloadLibs
<1>5. CASE Mac!FseventCb \/ Mac!Edit \/ Mac!OtherEvent \/ Mac!CtrlC
  BY <1>5 DEF Mac!FseventCb, Mac!Edit, Mac!OtherEvent, Mac!CtrlC
<1>6. QED  BY <1>1, <1>2, <1>3, <1>4, <1>5 DEF Mac!Next, Mac!Main

LEMMA MacInitLoaded == Mac!Init => MacTypes /\ MacLoaded
BY DEF Mac!Init, MacTypes, MacLoaded

(* The loop calls the library it has loaded, and load_libs never finds one   *)
(* still loaded.                                                             *)
THEOREM MacLoadedLibraryCalled == ASSUME NULL \notin Nat PROVE Mac!Spec => []Mac!CallsLoadedLibrary
<1>1. Mac!Init => MacTypes /\ MacLoaded
  BY MacInitLoaded
<1>2. MacLoaded => Mac!CallsLoadedLibrary
  BY DEF MacLoaded, Mac!CallsLoadedLibrary
<1>3. QED  BY <1>1, <1>2, MacTypesStep, MacLoadedStep, PTL DEF Mac!Spec

LEMMA MacRemembers == MacTypes /\ Mac!ChangeRemembered /\ [Mac!Next]_(Mac!vars) => Mac!ChangeRemembered'
<1> SUFFICES ASSUME MacTypes, Mac!ChangeRemembered, [Mac!Next]_(Mac!vars) PROVE Mac!ChangeRemembered'
  OBVIOUS
<1> USE DEF MacTypes, Mac!ChangeRemembered, Mac!libs, Mac!env, Mac!Return
<1>1. CASE UNCHANGED Mac!vars
  BY <1>1 DEF Mac!vars
<1>2. CASE Mac!FirstLoad \/ Mac!Reload
  BY <1>2 DEF Mac!FirstLoad, Mac!Reload, Mac!LoadLibs
<1>3. CASE Mac!StartStream \/ Mac!BuildBegin
  <2>1. src' = src /\ (missed' = src \/ building' = src)
    BY <1>3 DEF Mac!StartStream, Mac!BuildBegin
  <2>2. ~(src > src)
    OBVIOUS
  <2>3. ~(src' > missed' /\ src' > building')
    BY <2>1, <2>2
  <2>4. QED  BY <2>3
<1>4. CASE Mac!TestExit \/ Mac!SwapFlag \/ Mac!BuildEnd \/ Mac!Call \/ Mac!Unload \/ Mac!Cleanup
  BY <1>4 DEF Mac!TestExit, Mac!SwapFlag, Mac!BuildEnd, Mac!Call, Mac!Unload, Mac!Cleanup
<1>5. CASE Mac!FseventCb \/ Mac!Edit \/ Mac!OtherEvent \/ Mac!CtrlC
  BY <1>5 DEF Mac!FseventCb, Mac!Edit, Mac!OtherEvent, Mac!CtrlC
<1>6. QED  BY <1>1, <1>2, <1>3, <1>4, <1>5 DEF Mac!Next, Mac!Main

LEMMA MacInitRemembered == Mac!Init => MacTypes /\ Mac!ChangeRemembered
BY DEF Mac!Init, MacTypes, Mac!ChangeRemembered

(* A change no build has begun with is still to be delivered, or the flag is *)
(* up, or the build has yet to begin.                                        *)
THEOREM MacChangesRemembered == Mac!Spec => []Mac!ChangeRemembered
BY MacInitRemembered, MacTypesStep, MacRemembers, PTL DEF Mac!Spec
-----------------------------------------------------------------------------
(* Either program                                                            *)
LoadedInv == IF platform = "mac" THEN MacTypes /\ MacLoaded ELSE Loaded
RememberedInv == IF platform = "mac" THEN MacTypes /\ Mac!ChangeRemembered ELSE WatchInv

(* A step of the composition is a step of the program that runs.             *)
LEMMA StepOfOne ==
  ASSUME [Next]_vars
  PROVE  /\ platform' = platform
         /\ platform = "mac" => [Mac!Next]_(Mac!vars)
         /\ platform # "mac" => [Win!Next]_(Win!vars)
<1>1. CASE MacAction(Mac!Next)
  BY <1>1 DEF MacAction
<1>2. CASE WinAction(Win!Next)
  BY <1>2 DEF WinAction
<1>3. CASE UNCHANGED vars
  BY <1>3 DEF vars, macOnly, winOnly, Mac!vars, Mac!libs, Mac!env,
     Win!vars, Win!mvars, Win!libs, Win!wvars, Win!flags, Win!env
<1>4. QED  BY <1>1, <1>2, <1>3 DEF Next

(* On both platforms the loop only calls a function of the library loaded.   *)
THEOREM ProgramsCallLoaded == ASSUME NULL \notin Nat PROVE FairSpec => []CallsLoadedLibrary
<1>1. Init => LoadedInv
  BY MacInitLoaded, WinInitLoaded DEF Init, LoadedInv
<1>2. LoadedInv /\ [Next]_vars => LoadedInv'
  BY StepOfOne, MacTypesStep, MacLoadedStep, LoadedStep DEF LoadedInv
<1>3. LoadedInv => CallsLoadedLibrary
  BY DEF LoadedInv, MacLoaded, Loaded, CallsLoadedLibrary, Mac!CallsLoadedLibrary, Win!CallsLoadedLibrary
<1>4. QED  BY <1>1, <1>2, <1>3, PTL DEF FairSpec

(* On both platforms no change is forgotten between watcher, flag and build. *)
THEOREM ProgramsRemember == ASSUME Room \in Nat PROVE FairSpec => []ChangeRemembered
<1>1. Init => RememberedInv
  BY MacInitRemembered, WinInitRemembered DEF Init, RememberedInv
<1>2. RememberedInv /\ [Next]_vars => RememberedInv'
  BY StepOfOne, MacTypesStep, MacRemembers, WatchInvStep DEF RememberedInv
<1>3. RememberedInv => ChangeRemembered
  BY DEF RememberedInv, ChangeRemembered, WatchInv
<1>4. QED  BY <1>1, <1>2, <1>3, PTL DEF FairSpec
=============================================================================
