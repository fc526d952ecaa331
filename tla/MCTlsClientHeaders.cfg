SPECIFICATION Spec
CONSTANTS RECORD = 16384
          KB = 1024
          HEADER = 32
          Reads = {0, 1, 31, 16383, 16384, 16385, 17408}
          MaxReads = 2
INVARIANT HeadersInBuffer
\* The program ends.
CHECK_DEADLOCK FALSE
