\* Two client threads, one of which runs the test twice: three sockets, two
\* descriptors, as many ports as connections.
SPECIFICATION FairSpec
CONSTANTS
    Threads = {t1, t2}
    RX = RX
    anp_sockets_cache = anp_sockets_cache
    t1 = t1
    t2 = t2
    Tests <- TwoAndOne
    FdCount = 2
    PORTS_STARTING = 1
    PortSpace = 2
    Buffer = 1
INVARIANT TypeOK
INVARIANT FoundUnlessRaced
INVARIANT OwnSocket
INVARIANT OwnSegment
INVARIANT OpenIsFound
 
PROPERTY WalksEnd
\* The client's threads end.
CHECK_DEADLOCK FALSE
