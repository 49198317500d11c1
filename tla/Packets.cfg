SPECIFICATION Spec
CONSTANTS
    ANP_IP_CLIENT_EXT <- DeviceIp
    ANP_IP_LO <- LoopbackIp
    ANP_IP_TAP_DEV <- TapIp
    ANP_MAC_CLIENT_EXT <- DeviceMac
    ANP_MTU_15_MAX_SIZE = 80
    ICMP_RETRY_COUNT = 3
    Mac <- LinkMacs
    Remotes <- AllHosts
    Ports <- OnePortPair
    Seqs <- EdgeSeqs
    Flags <- AckFlags
    Payloads <- OddAndEven
    Flips = {1, 255}
INVARIANT DataInside
INVARIANT FrameWhole
INVARIANT SegmentRight
INVARIANT ReplyRight
INVARIANT RightIsTaken
INVARIANT ArpRight
