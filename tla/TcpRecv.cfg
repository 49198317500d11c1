SPECIFICATION Spec
CONSTANTS
    a1 = a1
    a2 = a2
    c1 = c1
    c2 = c2
    h1 = h1
    h2 = h2
    RX = rx
    RTX = rtx
    Free = free
    Conns <- OneConn
    Apps <- OneApp
    AppConn <- MCAppConn
    Programs <- RecvClose
    SeqSpace = 16
    iss = 3
    irs = 14
    ISS <- MCISS
    IRS <- MCIRS
    TCP_MAX_SEG_SIZE = 1
    TCP_RCV_MAX = 2
    RETRIES_CONN_MAX = 1
    peerLen = 3
    PeerLen <- MCPeerLen
    PeerSeg = 2
    Windows = {2}
    Hop <- OneHop
    LiveHops = {h1}
    Env = {"closes", "opens", "resets", "persists"}
INVARIANT TypeOK
INVARIANT RcvStream
 
INVARIANT LocksAreReleased
CHECK_DEADLOCK FALSE
