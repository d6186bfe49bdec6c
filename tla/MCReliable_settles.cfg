SPECIFICATION FairSpec
CONSTANTS
    Client = client
    Server = server
    Initiator = client
    Data = {d1}
    Reset = reset
    NoVal = noval
    NoId = noid
    SendSpan = 1
    RecvSpan = 1
    StartAt = 0
    AcksPerPacket = 1
    MaxReack = 1
    Modes = {FALSE}
    MaxPid = 0
    Lossy = TRUE
    MaxClient = 2
    MaxServer = 2
    MaxMsgs <- MCMaxMsgs
PROPERTY Settles
\* Once everything is acknowledged and the network is empty, nothing is left to do.
CHECK_DEADLOCK FALSE
