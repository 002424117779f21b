SPECIFICATION MCSpec
CONSTANTS
    a = a
    b = b
    c = c
    o = o
    e1 = e1
    e2 = e2
    e3 = e3
    None = None
    Thread <- MCThree
    Role <- NoRoles
    Observer <- MCObserver
    Key <- TwoKeys
    Topics <- BothTopics
    Hidden <- HideSecond
    MaxPackets = 2
    Entry <- MCEntry
    Faults = {"crash"}
    MaxSource = 3
    MaxLatest = 2
    Focus <- MCFocus
    Question <- MCQuestion
    Version <- MCVersion
    Faulty <- MCFaulty
INVARIANTS StreamsAreWhole UnackedIsPending LocksAreKept  SchemasAgree
PROPERTIES OpensClean EveryOperationEnds
