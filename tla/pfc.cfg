\* Two switches in a row, packets that no queue drops, pauses that reach back to
\* the first host.
SPECIFICATION FairSpec
CONSTANTS
    Hosts <- TheHosts
    Outputs <- TheOutputs
    Exits <- TheExits
    Forward <- TheForward
    Load <- TheLoad
    NoPacket = NoPacket
    Busy = Busy
    Mtu = 2
    High = 3
    Low = 2
    TxTime = 2
    LinkDelay <- TheDelay
    SwitchDelay <- TheCross
    InitSize = 2
    Exempt <- Nobody
    Budgeted <- TheHosts
INVARIANTS
    TypeOK
    PauseAgreed
    InputBytesExact
    HeadroomSuffices
    OneServiceAtATime
    NothingLost
PROPERTIES
    Drained
\* When all packets have arrived nothing is left to do.
CHECK_DEADLOCK FALSE
