SPECIFICATION HalfSpec
CONSTANTS Digit <- MCDigit
          Others = {"CR", "LF", "x"}
          HexMax = 2
          Power <- MCPower
          Bodies <- MCBodies
          ParserCharacters = {"a", ":", "SP", "HT", "CR", "LF", "NUL", "@", "1", "HTTP/1."}
          Messages <- MCMessages
          MaxChanged = 2
          MaxHeaders = 2
INVARIANTS CutsDoNotMatter Decided HeadersAreLines InBuffer CutIndependent
\* A caller stops at an answer.
CHECK_DEADLOCK FALSE
