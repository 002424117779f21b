SPECIFICATION FairSpec
CONSTANTS
    t1 = t1
    t2 = t2
    k = k
    d = d
    none = none
    Thread <- MCThread
    Key <- MCKey
    Digest <- MCDigest
    NoDigest = none
    Packet <- MCPacket
    NoPacket = NoPacket
    Transactional <- MCTransactional
INVARIANTS TypeOK SwitchIsExclusive ConsumerIsRight
PROPERTIES StreamsInOrder 
