\* A flow that waits for a recv_done_trigger.
SPECIFICATION FairSpec
CONSTANTS
    EndTime = 9
    TriggerStart = 20
    NFlows = 2
    NTrigs = 1
    Durations = {1}
    Matrices <- RecvMatrices
PROPERTIES
    AllFlowsFinish
CHECK_DEADLOCK FALSE
