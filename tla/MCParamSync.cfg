SPECIFICATION FairSpec
CONSTANTS
    NumParams = 2
    MinValue <- MCMin
    MaxValue <- MCMax
    InitAudio <- MCAudio
    Presets <- MCPresets
    NaN = NaN
    Capacity = 2
    Delta <- MCDelta
    HostValue = {3, NaN}
    StoresGuiPointer = {FALSE, TRUE}
    MaxSends <- MCSends
    MaxHostSets <- MCHostSets
    MaxOpens <- MCOpens
INVARIANTS AudioInRange Agreement HostAgreement GestureAccounting
PROPERTIES HostEventuallyAgrees GuiCatchesUp
