SPECIFICATION FairSpec
CONSTANTS
    a1 = a1
    a2 = a2
    c1 = c1
    c2 = c2
    h1 = h1
    h2 = h2
    RX = rx
    RTX = rtx
    Free = free
    Conns <- OneConn
    Apps <- OneApp
    AppConn <- MCAppConn
    Programs <- SendOrRecv
    SeqSpace = 16
    iss = 3
    irs = 14
    ISS <- MCISS
    IRS <- MCIRS
    TCP_MAX_SEG_SIZE = 1
    TCP_RCV_MAX = 2
    RETRIES_CONN_MAX = 2
    peerLen = 1
    PeerLen <- MCPeerLen
    PeerSeg = 1
    Windows = {1, 2}
    Hop <- OneHop
    LiveHops = {h1}
    Env = {}
PROPERTY ConnectReturnsUnlessLocked
PROPERTY SendReturns
PROPERTY DataReachesPeer
PROPERTY RetransmissionStops
PROPERTY PushWakesReader
 
CHECK_DEADLOCK FALSE
