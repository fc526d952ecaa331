SPECIFICATION FairSpec
CONSTANTS
    Size = 4
    MaxSent = 6
    Event = {e1, e2}
    Blank = Blank
    Torn = Torn
INVARIANTS Fifo SameEventToHost SlotExclusive LapLosesWholeRings
PROPERTIES EventuallyReceived ImplementsChannel
