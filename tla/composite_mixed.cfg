\* With _use_mixed, and packets whose source gives them no budget, as UecSrc does.
SPECIFICATION Spec
CONSTANTS
    PktSize = 2
    MaxSize = 5
    HeaderLimit = 3
    RatioHigh = 2
    RatioLow = 1
    PhantomSize = 5
    KMin = 1
    KMax = 3
    DrainTime = 3
    Budget = 0
    Configs <- MixedConfigs
    MaxPackets = 4
INVARIANTS
    ServiceFindsPacket
CHECK_DEADLOCK FALSE
