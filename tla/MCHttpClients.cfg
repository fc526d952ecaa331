SPECIFICATION ClientsSpec
CONSTANTS RECORD = 16384
          KB = 1024
          HEADER = 32
          Reads = {0, 1, 31, 16383, 16384, 16385, 17408}
          MaxReads = 6
          CurlPieces = {0, 1, 2, 3}
          MaxBody = 6
          XPieces = {0, 1, 2, 3, 5}
          MaxSize = 9
INVARIANTS WritesFit RoomForHeaders BodyIsString BodyFreed BufferHoldsResponse
\* The programs end.
CHECK_DEADLOCK FALSE
