SPECIFICATION FairSpec
CONSTANTS NULL = NULL
          MaxEditsMac = 3
          MaxEditsWin = 2
          Room = 2
INVARIANTS CallsLoadedLibrary ChangeRemembered
PROPERTIES ChangeEventuallyRuns ExitHonoured
\* The programs end.
CHECK_DEADLOCK FALSE
