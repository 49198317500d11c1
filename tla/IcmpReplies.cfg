SPECIFICATION FairSpec
CONSTANTS
    Neighbours = {gw, lan}
    Remote = {far}
    Gateway = gw
    Macs = {m1, m2}
    Zero = zero
    arp_cache = head
    Walkers = {e1}
    ICMP_RETRY_COUNT = 3
INVARIANT TypeOK
INVARIANT FrameForHop
INVARIANT KnownIsFound
INVARIANT GivesUpLast
PROPERTY RepliesEnd
PROPERTY KnownIsAnswered
