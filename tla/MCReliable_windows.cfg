SPECIFICATION Spec
CONSTANTS
    Client = client
    Server = server
    Initiator = client
    Data = {d1}
    Reset = reset
    NoVal = noval
    NoId = noid
    SendSpan = 2
    RecvSpan = 2
    StartAt = 0
    AcksPerPacket = 1
    MaxReack = 2
    Modes = {TRUE, FALSE}
    MaxPid = 4
    Lossy = FALSE
    MaxClient = 4
    MaxServer = 2
    MaxMsgs <- MCMaxMsgs
INVARIANTS IndInv NeverBeyondWindow
PROPERTY FifoDelivery
