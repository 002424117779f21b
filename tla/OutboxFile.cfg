SPECIFICATION Spec
CONSTANTS
    w1 = w1
    w2 = w2
    Worker <- MCWorker
    Packet <- MCPacket
    Size <- MCSize
    Filter <- MCFilter
    MaxPackets = 2
    MaxBytes = 3
    MaxPerStream = 2
    MaxAge = 1
    AgeCap = 2
    MaxPublish = 2
    AckRetry = 1
    FailureRetry = 1
    MaxRetry = 2
    AttemptCap = 2
    Interfaces <- FileStore
    Torn = FALSE
INVARIANTS BooksAreSound 
PROPERTY ImplementsLedger
