---------------------------- MODULE HotReloadWin ----------------------------
(***************************************************************************)
(* The hot reloading example on Windows                                    *)
(* (examples/hotreloading/main_windows.c): the main loop, and a thread of  *)
(* the program's own that waits for ReadDirectoryChangesW, walks the       *)
(* buffer of notifications and sets flag_should_rebuild.  Main stops the   *)
(* thread with a second flag and joins it.                                 *)
(*                                                                         *)
(* A version number stands for the content of the watched directory, the   *)
(* library file and the loaded library.  Unlike on macOS a failed build    *)
(* goes unnoticed, and the function pointer outlives FreeLibrary.          *)
(***************************************************************************)
EXTENDS Naturals, Sequences

CONSTANTS
    NULL,
    MaxEdits,   \* bound: edits of the watched sources
    Room        \* notifications that fit in infobuffer


VARIABLES
    pc, code,       \* main: where it is, what it returns
    lib, libfunc,   \* versions that the handle and the function belong to
    wpc,            \* the watch thread: where it is
    infobuffer,     \* notifications it reads: a sequence of actions, NULL before any
    rebuild,        \* flag_should_rebuild
    exitMain, exitWatch,    \* flag_exit_main_func, flag_exit_file_watch_thread
    unseen,         \* changes the system holds for the next ReadDirectoryChangesW
    src, disk,      \* version of the sources, of the library file
    building, missed, lost  \* history: see below

mvars == <<pc, code>>
libs  == <<lib, libfunc>>
wvars == <<wpc, infobuffer>>
flags == <<rebuild, exitMain, exitWatch>>
env   == <<src, disk, building, missed>>
vars  == <<mvars, libs, wvars, flags, unseen, env, lost>>

(* building: sources when the last build began; missed: sources when the    *)
(* directory began to be watched; lost: the buffer once overflowed or a     *)
(* build failed.                                                            *)
Init ==
    /\ pc = "load" /\ code = 0 /\ lib = NULL /\ libfunc = NULL
    /\ wpc = "open" /\ infobuffer = NULL
    /\ rebuild = FALSE /\ exitMain = FALSE /\ exitWatch = FALSE
    /\ unseen = <<>>
    /\ src = 0 /\ disk = 0 /\ building = 0 /\ missed = 0 /\ lost = FALSE

Watching == wpc \in {"test", "wait", "walk", "queue"}

-----------------------------------------------------------------------------
(* Main                                                                    *)

(* LoadLibrary and GetProcAddress; each may fail, LoadLibrary always on a  *)
(* missing file, and fails its assertion.                                  *)
Load(next) ==
    /\ \/ disk # NULL /\ lib' = disk /\ libfunc' = disk /\ pc' = next
       \/ disk # NULL /\ lib' = disk /\ libfunc' = NULL /\ pc' = "break"
       \/ lib' = NULL /\ UNCHANGED libfunc /\ pc' = "break"
    /\ UNCHANGED <<code, wvars, flags, unseen, env, lost>>

FirstLoad == pc = "load" /\ Load("test")

TestExit ==
    /\ pc = "test"
    /\ pc' = IF exitMain THEN "stop" ELSE "swap"
    /\ UNCHANGED <<code, libs, wvars, flags, unseen, env, lost>>

SwapFlag ==
    /\ pc = "swap"
    /\ rebuild' = FALSE
    /\ pc' = IF rebuild THEN "free" ELSE "call"
    /\ UNCHANGED <<code, libs, wvars, exitMain, exitWatch, unseen, env, lost>>

(* FreeLibrary; libfunc keeps pointing into the unloaded library.          *)
Free ==
    /\ pc = "free" /\ lib' = NULL /\ pc' = "build"
    /\ UNCHANGED <<code, libfunc, wvars, flags, unseen, env, lost>>

(* CreateProcess; when it fails main returns at once.                      *)
BuildBegin ==
    /\ pc = "build"
    /\ \/ building' = src /\ pc' = "building" /\ UNCHANGED code
       \/ building' = building /\ pc' = "done" /\ code' = 1
    /\ UNCHANGED <<libs, wvars, flags, unseen, src, disk, missed, lost>>

(* Mutant: the flag is cleared when the build is done. *)
BuildEndClearsFlag ==
    /\ pc = "building" /\ pc' = "reload" /\ rebuild' = FALSE
    /\ \/ disk' \in building..src /\ UNCHANGED lost
       \/ disk' \in {disk, NULL} /\ lost' = TRUE
    /\ UNCHANGED <<code, libs, wvars, exitMain, exitWatch, unseen, src, building, missed>>

(* The child process ends; its exit code is not asked for.  A failed build *)
(* leaves the old library or none.                                         *)
BuildEnd ==
    /\ pc = "building" /\ pc' = "reload"
    /\ \/ disk' \in building..src /\ UNCHANGED lost
       \/ disk' \in {disk, NULL} /\ lost' = TRUE
    /\ UNCHANGED <<code, libs, wvars, flags, unseen, src, building, missed>>

Reload == pc = "reload" /\ Load("call")

Call ==
    /\ pc = "call" /\ pc' = "test"
    /\ UNCHANGED <<code, libs, wvars, flags, unseen, env, lost>>

(* Mutant: the watch thread is not told. *)
StopWatchSilently ==
    /\ pc = "stop" /\ pc' = "join"
    /\ UNCHANGED <<code, libs, wvars, flags, unseen, env, lost>>

StopWatch ==
    /\ pc = "stop" /\ exitWatch' = TRUE /\ pc' = "join"
    /\ UNCHANGED <<code, libs, wvars, rebuild, exitMain, unseen, env, lost>>

JoinAndFree ==
    /\ pc = "join" /\ wpc = "ended"
    /\ lib' = NULL /\ pc' = "done" /\ code' = 0
    /\ UNCHANGED <<libfunc, wvars, flags, unseen, env, lost>>

Main ==
    \/ FirstLoad \/ TestExit \/ SwapFlag \/ Free \/ BuildBegin \/ BuildEnd \/ Reload
    \/ Call \/ StopWatch \/ JoinAndFree

Running == pc \notin {"done", "break"}

-----------------------------------------------------------------------------
(* The watch thread                                                        *)

(* CreateFile and the first ReadDirectoryChangesW; either may fail, and    *)
(* the thread ends.  From here on the system collects changes.             *)
OpenDirectory ==
    /\ wpc = "open"
    /\ \/ wpc' = "test" /\ missed' = src
       \/ wpc' = "ended" /\ UNCHANGED missed
    /\ UNCHANGED <<mvars, libs, infobuffer, flags, unseen, src, disk, building, lost>>

(* while (flag_exit_file_watch_thread == 0) *)
TestExitWatch ==
    /\ wpc = "test" /\ wpc' = IF exitWatch THEN "ended" ELSE "wait"
    /\ UNCHANGED <<mvars, libs, infobuffer, flags, unseen, env, lost>>

(* nothing changed for 50 ms *)
WaitTimesOut ==
    /\ wpc = "wait" /\ unseen = <<>> /\ wpc' = "test"
    /\ UNCHANGED <<mvars, libs, infobuffer, flags, unseen, env, lost>>

(* The wait is satisfied.  More changes than fit are dropped by the system *)
(* and the buffer keeps what it held: bytes_transferred is not looked at.  *)
(* A buffer never filled holds whatever was on the stack.                  *)
WaitReturns ==
    /\ wpc = "wait" /\ unseen # <<>>
    /\ wpc' = "walk" /\ unseen' = <<>>
    /\ IF Len(unseen) <= Room
       THEN infobuffer' = unseen
       ELSE IF infobuffer = NULL
            THEN infobuffer' \in {<<"modified">>, <<"other">>}
            ELSE UNCHANGED infobuffer
    /\ UNCHANGED <<mvars, libs, flags, env, lost>>

(* Mutant: only the first entry is looked at. *)
WalkFirstEntry ==
    /\ wpc = "walk" /\ wpc' = "queue"
    /\ rebuild' = (rebuild \/ infobuffer[1] = "modified")
    /\ UNCHANGED <<mvars, libs, infobuffer, exitMain, exitWatch, unseen, env, lost>>

(* The walk over the entries: one FILE_ACTION_MODIFIED is enough.          *)
WalkBuffer ==
    /\ wpc = "walk" /\ wpc' = "queue"
    /\ rebuild' = (rebuild \/ \E i \in 1..Len(infobuffer) : infobuffer[i] = "modified")
    /\ UNCHANGED <<mvars, libs, infobuffer, exitMain, exitWatch, unseen, env, lost>>

(* ReadDirectoryChangesW again; the system has not stopped collecting.     *)
QueueNext ==
    /\ wpc = "queue" /\ wpc' \in {"test", "ended"}
    /\ UNCHANGED <<mvars, libs, infobuffer, flags, unseen, env, lost>>

Watch ==
    /\ Running
    /\ \/ OpenDirectory \/ TestExitWatch \/ WaitTimesOut \/ WaitReturns \/ WalkBuffer
       \/ QueueNext

-----------------------------------------------------------------------------
Notify(action) ==
    /\ unseen' = IF Watching /\ Len(unseen) <= Room THEN Append(unseen, action) ELSE unseen
    /\ lost' = (lost \/ (Watching /\ Len(unseen) >= Room))

Edit ==
    /\ src < MaxEdits /\ src' = src + 1 /\ Notify("modified")
    /\ UNCHANGED <<mvars, libs, wvars, flags, disk, building, missed>>

(* a file created, renamed or removed in the watched directory             *)
OtherChange ==
    /\ Watching /\ Len(unseen) <= Room /\ Notify("other")
    /\ UNCHANGED <<mvars, libs, wvars, flags, env>>

CtrlC ==
    /\ Running /\ pc # "load" /\ exitMain' = TRUE
    /\ UNCHANGED <<mvars, libs, wvars, rebuild, exitWatch, unseen, env, lost>>

Next == Main \/ Watch \/ Edit \/ OtherChange \/ CtrlC

Spec == Init /\ [][Next]_vars

(* Both threads run and builds end.                                        *)
FairSpec == Spec /\ WF_vars(Main) /\ WF_vars(Watch)

-----------------------------------------------------------------------------
(* CallsLoadedLibrary: though libfunc dangles from FreeLibrary to the      *)
(* reload, the loop only ever calls a function of the library it has       *)
(* loaded.                                                                 *)
CallsLoadedLibrary == pc = "call" => lib # NULL /\ libfunc = lib

Holds(s, x) == \E i \in 1..Len(s) : s[i] = x

(* ChangeRemembered: unless the buffer overflowed or the thread gave up, a *)
(* change that no build has begun with is with the system, in the buffer   *)
(* being walked, in the flag, or the build is about to begin.              *)
ChangeRemembered ==
    (Running /\ ~lost /\ Watching /\ src > missed /\ src > building) =>
        \/ Holds(unseen, "modified")
        \/ wpc = "walk" /\ Holds(infobuffer, "modified")
        \/ rebuild \/ pc \in {"free", "build"}

(* ChangeEventuallyRuns: as long as no build fails, the buffer never       *)
(* overflows and both threads live, the program comes to call a library as *)
(* new as any change made while it watches.                                *)
ChangeEventuallyRuns ==
    \A v \in 1..MaxEdits :
        (Watching /\ src >= v /\ missed < v) ~>
            (~Running \/ wpc = "ended" \/ lost \/ (pc = "call" /\ lib >= v))

(* ExitHonoured: after Ctrl-C the program ends: the watch thread sees its  *)
(* flag and the join returns.                                              *)
ExitHonoured == exitMain ~> ~Running
=============================================================================
