\* A queue of two data packets and three headers in every setting of its flags.
SPECIFICATION Spec
CONSTANTS
    PktSize = 2
    MaxSize = 5
    HeaderLimit = 3
    RatioHigh = 2
    RatioLow = 1
    PhantomSize = 5
    KMin = 1
    KMax = 3
    DrainTime = 3
    Budget = 0
    Configs <- PlainConfigs
    MaxPackets = 6
INVARIANTS
    TypeOK
    ServiceFindsPacket
    OneCompletionPending
    AccountsExact
    FairShare
