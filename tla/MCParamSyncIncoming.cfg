SPECIFICATION Spec
CONSTANTS
    NumParams = 2
    MinValue <- MCMin
    MaxValue <- MCMax
    InitAudio <- MCAudio
    Presets <- MCPresets
    NaN = NaN
    Capacity = 3
    Delta <- MCDelta
    HostValue = {3, NaN}
    StoresGuiPointer = {FALSE}
    MaxSends <- MCOne
    MaxHostSets <- MCOne
    MaxOpens <- MCOne
PROPERTY IncomingUpdateSentToGui
