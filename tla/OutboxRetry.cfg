SPECIFICATION FairSpec
CONSTANTS
    w1 = w1
    w2 = w2
    Worker <- MCWorkerPair
    Packet <- MCPacketPair
    Size <- MCSize
    Filter <- MCFilter
    MaxPackets = 2
    MaxBytes = 3
    MaxPerStream = 2
    MaxAge = 0
    AgeCap = 0
    MaxPublish = 2
    AckRetry = 1
    FailureRetry = 1
    MaxRetry = 1
    AttemptCap = 1
    Interfaces <- PacketStore
    Torn = TRUE
INVARIANTS MarkIsOwned
 
