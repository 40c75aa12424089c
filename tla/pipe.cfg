\* A pipe whose next hop may hand packets back, and one whose next hop never does:
\* the ring wraps, and grows twice.
SPECIFICATION FairSpec
CONSTANTS
    Delay = 3
    InitSize = 2
    Reentrant = {TRUE, FALSE}
    MaxPackets = 5
    MaxTime = 7
INVARIANTS
    TypeOK
    OneWakeup
PROPERTIES
    ImplementsDelayLine
    EverythingLeaves
\* Time is bounded.
CHECK_DEADLOCK FALSE
