\* Every well-formed matrix of four flows and two triggers.
SPECIFICATION FairSpec
CONSTANTS
    EndTime = 9
    TriggerStart = 20
    NFlows = 4
    NTrigs = 2
    Durations = {1, 2}
    Matrices <- SendMatrices
INVARIANTS
    TypeOK
    StartedOnce
    TriggeredAtOnce
    ActivationsTaken
PROPERTIES
    AllFlowsFinish
\* The simulation ends.
CHECK_DEADLOCK FALSE
