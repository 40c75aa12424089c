\* Every order of delivery, trimming and loss of a flow of four packets.
SPECIFICATION FairSpec
CONSTANTS
    N = 4
    Mss = 2
    Windows <- OddWindows
    MaxLoss = 1
INVARIANTS
    TypeOK
    AssertionsHold
    FrontIsAckedCumulatively
    OneCopyInFlight
    CountersExact
    NackedIsRemembered
PROPERTIES
    WindowRespected
    RetransmissionsFirst
    ImplementsTransfer
    FlowCompletesUnlessLoss
\* A finished flow, or one whose packet was dropped, does nothing more.
CHECK_DEADLOCK FALSE
