\* Either transport, with one loss, one message overtaking others, two pauses.
SPECIFICATION FairSpec
CONSTANTS
    Protocols <- BothProtocols
    FlowSizes <- AnyFlow
    N = 3
    Mss = 2
    Windows <- TwoWindows
    MaxLoss = 1
    MaxReorder = 1
    MaxPauses = 2
INVARIANTS
    TypeOK
    NeverIdle
PROPERTIES
    ImplementsTransfer
    FlowCompletes
    PacingStops
\* A flow that is done, or whose last packet was lost, does nothing more.
CHECK_DEADLOCK FALSE
