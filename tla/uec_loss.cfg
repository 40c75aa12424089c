\* One dropped message: nothing retransmits on a timeout.
SPECIFICATION FairSpec
CONSTANTS
    N = 3
    Mss = 2
    Windows <- OddWindows
    MaxLoss = 1
PROPERTIES
    FlowCompletes
CHECK_DEADLOCK FALSE
