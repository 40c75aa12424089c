\* The pipe inside a switch whose queues turn packets around.
SPECIFICATION Spec
CONSTANTS
    Delay = 3
    InitSize = 2
    Reentrant = {TRUE}
    MaxPackets = 4
    MaxTime = 9
INVARIANTS
    OnTime
CHECK_DEADLOCK FALSE
