\* Packets that no queue drops, thresholds two packets apart, and a host with flows
\* that leave its switch through two outputs.
SPECIFICATION Spec
CONSTANTS
    Hosts <- TheHosts
    Outputs <- TheOutputs
    Exits <- TheExits
    Forward <- TheForward
    Load <- TwoFlows
    NoPacket = NoPacket
    Busy = Busy
    Mtu = 2
    High = 5
    Low = 4
    TxTime = 3
    LinkDelay <- OneEach
    SwitchDelay <- OneEach
    InitSize = 2
    Exempt <- Nobody
    Budgeted <- TheHosts
INVARIANTS
    NothingLost
CHECK_DEADLOCK FALSE
