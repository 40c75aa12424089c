\* Five packets of two bytes, two losses, one timeout too early.
SPECIFICATION FairSpec
CONSTANTS
    N = 5
    Mss = 2
    Windows <- AnyWindow
    NicLimit = 3
    MaxLoss = 2
    MaxEarly = 1
INVARIANTS
    TypeOK
    NothingForgotten
PROPERTIES
    ImplementsTransfer
    FlowCompletes
\* A flow that is done, or that was left with a loss unnoticed, does nothing more.
CHECK_DEADLOCK FALSE
