SPECIFICATION FenceSpec
CONSTANTS
    a = a
    b = b
    c = c
    o = o
    e1 = e1
    e2 = e2
    e3 = e3
    None = None
    Thread <- MCPair
    Role <- FenceRoles
    Observer <- MCObserver
    Key <- OneKey
    Topics <- StateOnly
    Hidden <- HideSecond
    MaxPackets = 1
    Entry <- MCEntry
    Faults = {}
    MaxSource = 1
    MaxLatest = 2
    Focus <- MCFocus
    Question <- MCQuestion
    Version <- MCVersion
    Faulty <- MCFaulty
INVARIANT CloseIsAFence
