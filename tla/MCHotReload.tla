---------------------------- MODULE MCHotReload ----------------------------
(* The hot reload programs of both platforms: one of them runs, chosen at    *)
(* the start, and the variables of the other keep their initial values.      *)
EXTENDS Naturals

CONSTANTS NULL, MaxEditsMac, MaxEditsWin, Room
VARIABLES platform, pc, code, lib, libfunc, src, disk, building, missed, unseen,
          flag, exit, watching,                                  \* macOS
          wpc, infobuffer, rebuild, exitMain, exitWatch, lost    \* Windows
Mac == INSTANCE HotReloadMac WITH MaxEdits <- MaxEditsMac
Win == INSTANCE HotReloadWin WITH MaxEdits <- MaxEditsWin

macOnly == <<flag, exit, watching>>
winOnly == <<wpc, infobuffer, rebuild, exitMain, exitWatch, lost>>
vars == <<platform, pc, code, lib, libfunc, src, disk, building, missed, unseen, macOnly, winOnly>>

MacAction(A) == platform = "mac" /\ A /\ UNCHANGED <<platform, winOnly>>
WinAction(A) == platform = "windows" /\ A /\ UNCHANGED <<platform, macOnly>>

Init == \/ platform = "mac" /\ Mac!Init
           /\ wpc = "open" /\ infobuffer = NULL
           /\ rebuild = FALSE /\ exitMain = FALSE /\ exitWatch = FALSE /\ lost = FALSE
        \/ platform = "windows" /\ Win!Init /\ flag = FALSE /\ exit = FALSE /\ watching = FALSE
Next == MacAction(Mac!Next) \/ WinAction(Win!Next)
FairSpec == /\ Init /\ [][Next]_vars
            /\ WF_vars(MacAction(Mac!Main)) /\ WF_vars(MacAction(Mac!FseventCb))
            /\ WF_vars(WinAction(Win!Main)) /\ WF_vars(WinAction(Win!Watch))

-----------------------------------------------------------------------------
(* The properties of the two modules, of whichever program runs: the loop    *)
(* calls the library it has loaded;                                          *)
CallsLoadedLibrary == IF platform = "mac" THEN Mac!CallsLoadedLibrary ELSE Win!CallsLoadedLibrary
(* no change is forgotten between watcher, flag and build;                   *)
ChangeRemembered == IF platform = "mac" THEN Mac!ChangeRemembered ELSE Win!ChangeRemembered
(* a change comes to run;                                                    *)
ChangeEventuallyRuns == /\ platform = "mac" => Mac!ChangeEventuallyRuns
                        /\ platform = "windows" => Win!ChangeEventuallyRuns
(* after Ctrl-C the program ends.                                            *)
ExitHonoured == /\ platform = "mac" => Mac!ExitHonoured
                /\ platform = "windows" => Win!ExitHonoured
=============================================================================
