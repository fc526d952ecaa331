SPECIFICATION FilesSpec
CONSTANTS Width = 4
          Height = 2
          Cores = 3
          Radii = {2}
          Images <- MCImages
          Names = {"a", "sub", "up", ".d"}
          Root = "root"
          Home <- MCHome
          Trees <- MCTrees
          Target <- MCTarget
          Directories = {"root", "sub", ".d"}
          Hidden = {".d"}
          LongExts = {".d"}
          MaxLinks = 1
          MaxPaths = {3, 5}
          MaxChanges = 2
          KEYBYTES = 32
          NONCEBYTES = 24
          ZEROBYTES = 32
          BOXZEROBYTES = 16
          Stream <- MCStream
          Auth <- MCAuth
          Nonce <- MCNonce
          BoxMessages <- MCBoxMessages
          ReadSizes = {7, 16, 32}
INVARIANT EntryWhenRead
\* The program ends.
CHECK_DEADLOCK FALSE
