---------------------------- MODULE HotReloadMac ----------------------------
(***************************************************************************)
(* The hot reloading example on macOS                                      *)
(* (examples/hotreloading/main_macos.c): a main loop that calls a function *)
(* of a dynamic library and, when a flag says that a watched file changed, *)
(* unloads, rebuilds and reloads the library; and the FSEvents callback,   *)
(* on a dispatch queue of its own, that sets the flag.                     *)
(*                                                                         *)
(* A version number stands for the content of the watched directory, the   *)
(* library file and the loaded library.                                    *)
(***************************************************************************)
EXTENDS Naturals

CONSTANTS
    NULL,
    MaxEdits    \* bound: edits of the watched sources

VARIABLES
    pc,         \* where main is
    code,       \* what main returns
    lib, libfunc,   \* versions that the handle and the function belong to
    flag,       \* flag_file_changed_in_watchdir
    exit,       \* flag_exit_event_loop
    watching,   \* the FSEvents stream is started
    unseen,     \* kinds of the file events not yet given to the callback
    src, disk,  \* version of the sources, of the library file
    building,   \* history: sources when the last build began
    missed      \* history: sources when the stream was started

libs == <<lib, libfunc>>
env  == <<src, disk, building, missed>>
vars == <<pc, code, libs, flag, exit, watching, unseen, env>>

Init ==
    /\ pc = "load" /\ code = 0
    /\ lib = NULL /\ libfunc = NULL
    /\ flag = FALSE /\ exit = FALSE /\ watching = FALSE /\ unseen = {}
    /\ src = 0 /\ disk = 0 /\ building = 0 /\ missed = 0

Return(c) == pc' = "done" /\ code' = c

-----------------------------------------------------------------------------
(* Main                                                                    *)

(* load_libs: dlopen and dlsym, either of which may fail; a failure ends   *)
(* main.  `next` is where main goes on, at start-up or after a build.      *)
LoadLibs(next) ==
    /\ \/ lib' = disk /\ libfunc' = disk /\ pc' = next /\ UNCHANGED code
       \/ lib' = NULL /\ libfunc' = NULL /\ Return(1)
       \/ lib' = disk /\ libfunc' = NULL /\ Return(1)
    /\ UNCHANGED <<flag, exit, watching, unseen, env>>

FirstLoad == pc = "load" /\ LoadLibs("watch")

StartStream ==
    /\ pc = "watch"
    /\ watching' = TRUE /\ missed' = src /\ pc' = "test"
    /\ UNCHANGED <<code, libs, flag, exit, unseen, src, disk, building>>

TestExit ==
    /\ pc = "test"
    /\ pc' = IF exit THEN "cleanup" ELSE "swap"
    /\ UNCHANGED <<code, libs, flag, exit, watching, unseen, env>>

(* atomic exchange of the flag with 0 *)
SwapFlag ==
    /\ pc = "swap"
    /\ flag' = FALSE
    /\ pc' = IF flag THEN "unload" ELSE "call"
    /\ UNCHANGED <<code, libs, exit, watching, unseen, env>>

(* Mutant: the function pointer is kept. *)
UnloadLibOnly ==
    /\ lib' = NULL /\ libfunc' = libfunc

UnloadLibs ==
    /\ lib' = NULL /\ libfunc' = NULL

Unload ==
    /\ pc = "unload" /\ UnloadLibs /\ pc' = "build"
    /\ UNCHANGED <<code, flag, exit, watching, unseen, env>>

BuildBegin ==
    /\ pc = "build"
    /\ building' = src /\ pc' = "building"
    /\ UNCHANGED <<code, libs, flag, exit, watching, unseen, src, disk, missed>>

(* system() returns.  The compiler read each file at some moment of the    *)
(* build: what it built is as new as the sources at its beginning.         *)
BuildEnd ==
    /\ pc = "building"
    /\ \/ disk' \in building..src /\ pc' = "reload" /\ UNCHANGED code
       \/ disk' = disk /\ Return(1)
    /\ UNCHANGED <<libs, flag, exit, watching, unseen, src, building, missed>>

Reload == pc = "reload" /\ LoadLibs("call")

(* libfunc(), then sleep *)
Call ==
    /\ pc = "call" /\ pc' = "test"
    /\ UNCHANGED <<code, libs, flag, exit, watching, unseen, env>>

Cleanup ==
    /\ pc = "cleanup" /\ UnloadLibs
    /\ watching' = FALSE /\ unseen' = {}
    /\ Return(0)
    /\ UNCHANGED <<flag, exit, env>>

Main ==
    \/ FirstLoad \/ StartStream \/ TestExit \/ SwapFlag \/ Unload
    \/ BuildBegin \/ BuildEnd \/ Reload \/ Call \/ Cleanup

-----------------------------------------------------------------------------
(* Watcher and surroundings                                                *)

(* fsevent_cb, given a batch: only a modified file sets the flag.          *)
FseventCb ==
    /\ watching /\ unseen # {} /\ pc # "done"
    /\ flag' = (flag \/ "modified" \in unseen)
    /\ unseen' = {}
    /\ UNCHANGED <<pc, code, libs, exit, watching, env>>

(* The user saves a source.                                                *)
Edit ==
    /\ src < MaxEdits /\ src' = src + 1
    /\ unseen' = IF watching THEN unseen \cup {"modified"} ELSE unseen
    /\ UNCHANGED <<pc, code, libs, flag, exit, watching, disk, building, missed>>

(* Any other event in the watched directory: a folder, a permission.       *)
OtherEvent ==
    /\ watching /\ unseen' = unseen \cup {"other"}
    /\ UNCHANGED <<pc, code, libs, flag, exit, watching, env>>

(* Ctrl-C: fatal until the handler is installed, ignored while system()    *)
(* waits (where the build gets it and may fail), else ctrlc_cb.            *)
CtrlC ==
    /\ pc \notin {"building", "done"}
    /\ IF watching THEN exit' = TRUE /\ UNCHANGED <<pc, code>>
                   ELSE exit' = exit /\ Return(1)
    /\ UNCHANGED <<libs, flag, watching, unseen, env>>

Next == Main \/ FseventCb \/ Edit \/ OtherEvent \/ CtrlC

Spec == Init /\ [][Next]_vars

(* Main runs, builds end, and FSEvents delivers (after its 0.1 s latency). *)
FairSpec == Spec /\ WF_vars(Main) /\ WF_vars(FseventCb)

-----------------------------------------------------------------------------
(* CallsLoadedLibrary: the loop never calls a function of a library it has *)
(* unloaded or of an earlier version of it, and load_libs never finds a    *)
(* library still loaded (its two assertions).                              *)
CallsLoadedLibrary ==
    /\ pc = "call" => lib # NULL /\ libfunc = lib
    /\ pc \in {"load", "reload"} => lib = NULL /\ libfunc = NULL

(* ChangeRemembered: a change that no build has begun with is never        *)
(* forgotten, however it falls between the callback, the exchange of the   *)
(* flag and the build: it is still to be delivered, or the flag is up, or  *)
(* the build has yet to begin.                                             *)
ChangeRemembered ==
    (pc # "done" /\ watching /\ src > missed /\ src > building) =>
        "modified" \in unseen \/ flag \/ pc \in {"unload", "build"}

(* ChangeEventuallyRuns: the program comes to call a library at least as   *)
(* new as any change made while it watches, unless it ends.                *)
ChangeEventuallyRuns ==
    \A v \in 1..MaxEdits :
        (watching /\ src >= v /\ missed < v) ~>
            (pc = "done" \/ (pc = "call" /\ lib >= v))

(* ExitHonoured: after Ctrl-C the program ends.                            *)
ExitHonoured == exit ~> pc = "done"
=============================================================================
