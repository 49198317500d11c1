------------------------------ MODULE Packets ------------------------------
(***************************************************************************)
(* Packets byte by byte: the buffers they are built in (src/subuff.c), the *)
(* TCP segments of create_tcp_packet, the echo replies of icmp_reply, the  *)
(* IP and Ethernet headers ip_output and netdev_transmit put before them,  *)
(* the ARP messages, and the tests a frame that arrives has to pass.       *)
(*                                                                         *)
(* A buffer belongs to one packet, so one packet goes out at a time here;  *)
(* it may be tried, or sent again, any number of times, and what ARP finds *)
(* out meanwhile may change what a try does.  Who sends what when is the   *)
(* subject of modules Tcp and Icmp.                                        *)
(***************************************************************************)
EXTENDS Checksum, Integers

CONSTANTS
    ANP_IP_CLIENT_EXT, ANP_IP_LO, ANP_IP_TAP_DEV,   \* addresses of config.h
    ANP_MAC_CLIENT_EXT,
    ANP_MTU_15_MAX_SIZE,    \* the size of a receive buffer
    ICMP_RETRY_COUNT,
    Mac,                \* the hardware addresses of the hosts on the link
    Remotes,            \* the hosts spoken to
    Ports, Seqs, Flags, \* the fields of a segment
    Payloads,           \* what the segments and the messages carry
    Flips               \* what is added to a byte of a frame on its way

VARIABLES
    arp_cache,          \* the addresses with an entry
    sub,                \* the buffer of the packet on its way out
    job,                \* what that packet is, and the retries it has left
    wire,               \* the last frame tdev_write was given
    arrived,            \* the last frame tdev_read returned
    verdict             \* what became of it

vars == <<arp_cache, sub, job, wire, arrived, verdict>>

ETH_HDR_LEN == 14
IP_HDR_LEN == 20
TCP_HDR_LEN == 20
ARP_HDR_LEN == 8
ARP_DATA_LEN == 20
ICMP_HDR_SIZE == 4
ETH_P_IP == 2048
ETH_P_ARP == 2054
IPP_NUM_ICMP == 1
IPP_TCP == 6
Body == ETH_HDR_LEN + IP_HDR_LEN
broadcast_hw == <<255, 255, 255, 255, 255, 255>>

-----------------------------------------------------------------------------
(* Buffers: data is an offset from head, end the length of mem.            *)

NoSub == [mem |-> <<>>, data |-> 0, len |-> 0, protocol |-> 0]
NoJob == [kind |-> "none", dst |-> ANP_IP_TAP_DEV, text |-> <<>>, len |-> 0, retries |-> 0]

\* Nothing is on its way, in or out.
AtRest == sub = NoSub /\ job = NoJob /\ arrived = <<>>

Zeros(n) == [i \in 1..n |-> 0]
alloc_sub(size) == [NoSub EXCEPT !.mem = Zeros(size)]
sub_reserve(s, n) == [s EXCEPT !.data = @ + n]
sub_push(s, n) == [s EXCEPT !.data = @ - n, !.len = @ + n]

\* Memory m with bytes from offset p on, and n bytes of it.
Put(m, p, bytes) ==
    [i \in DOMAIN m |-> IF i - p \in DOMAIN bytes THEN bytes[i - p] ELSE m[i]]
Slice(m, p, n) == [i \in 1..n |-> IF p + i \in DOMAIN m THEN m[p + i] ELSE 0]
Write(s, p, bytes) == [s EXCEPT !.mem = Put(@, p, bytes)]

-----------------------------------------------------------------------------
(* Routes and the frame that goes out.                                     *)

\* route_init; a netmask is the number of bytes it keeps.
routes == << [dst |-> ANP_IP_LO, keep |-> 1, flags |-> "RT_LOOPBACK", dev |-> ANP_IP_LO],
             [dst |-> ANP_IP_CLIENT_EXT, keep |-> 3, flags |-> "RT_HOST", dev |-> ANP_IP_CLIENT_EXT],
             [dst |-> ANP_IP_TAP_DEV, keep |-> 0, flags |-> "RT_GATEWAY", dev |-> ANP_IP_CLIENT_EXT] >>

Matches(r, ip) == \A i \in 1..r.keep : ip[i] = r.dst[i]
route_lookup(ip) == routes[Min({i \in DOMAIN routes : Matches(routes[i], ip)})]

NextHopDirect(ip) == ip
NextHop(ip) == IF route_lookup(ip).flags = "RT_GATEWAY" THEN ANP_IP_TAP_DEV ELSE ip

\* netdev_transmit: the buffer with its Ethernet header, and the frame in it.
EthHeader(mac, type) == mac \o ANP_MAC_CLIENT_EXT \o Store16(htons(type))
netdev_transmit(s, mac, type) ==
    LET t == sub_push(s, ETH_HDR_LEN) IN Write(t, t.data, EthHeader(mac, type))
Frame(s) == Slice(s.mem, s.data, s.len)

\* ip_output, up to dst_neigh_output: id is turned at every try.
LengthFieldShort(s) == s.len - IP_HDR_LEN
LengthField(s) == s.len
IpHeader(s, ip) ==
    <<69, 0>> \o Store16(htons(LengthField(s)))
    \o Store16(htons(Load16(s.mem, ETH_HDR_LEN + 4))) \o Store16(htons(16384))
    \o <<64, s.protocol>> \o Store16(htons(0))
    \o Store32(htonl(ip_str_to_h32(route_lookup(ip).dev))) \o Store32(htonl(ip_str_to_h32(ip)))
ip_send_check(header) == Put(header, 10, Store16(do_csum(header, Widen(0))))
ip_output(s, ip) ==
    LET t == sub_push(s, IP_HDR_LEN) IN Write(t, ETH_HDR_LEN, ip_send_check(IpHeader(t, ip)))

\* The message of arp_request, in host byte order until the end.
ArpMessage(op, mac, ip, dmac, dip) ==
    Store16(htons(1)) \o Store16(htons(ETH_P_IP)) \o <<6, 4>> \o Store16(htons(op))
    \o mac \o Store32(htonl(ip_str_to_h32(ip))) \o dmac \o Store32(htonl(ip_str_to_h32(dip)))
alloc_arp_sub ==
    LET size == ETH_HDR_LEN + ARP_HDR_LEN + ARP_DATA_LEN
    IN  [sub_reserve(alloc_sub(size), size) EXCEPT !.protocol = htons(ETH_P_ARP)]
arp_request(ip) ==
    LET s == sub_push(sub_push(alloc_arp_sub, ARP_DATA_LEN), ARP_HDR_LEN)
        message == ArpMessage(1, ANP_MAC_CLIENT_EXT, ANP_IP_CLIENT_EXT, broadcast_hw, ip)
    IN  netdev_transmit(Write(s, s.data, message), broadcast_hw, ETH_P_ARP)

\* dst_neigh_output: with the address of the next hop the packet goes out, and
\* without it a request for that address does.
Resolved(ip) == NextHop(ip) \in arp_cache
dst_neigh_output(s, ip) ==
    IF Resolved(ip)
    THEN LET t == netdev_transmit(s, Mac[NextHop(ip)], ETH_P_IP)
         IN  [sub |-> t, frame |-> Frame(t)]
    ELSE [sub |-> s, frame |-> Frame(arp_request(NextHop(ip)))]

\* Every try starts with the buffer as it was made: ip_output has moved it.
ResetNone(s, len) == s
Reset(s, len) == [s EXCEPT !.data = Body, !.len = len]
Try(s, j) == dst_neigh_output(ip_output(Reset(s, j.len), j.dst), j.dst)

-----------------------------------------------------------------------------
(* TCP segments.                                                           *)

\* tcb->local_ip is ntohl of an address in host byte order, and htonl of that
\* is the address in host byte order again; the protocol is turned here and
\* again in do_tcp_csum.
LocalIpOnce == ip_str_to_h32(ANP_IP_CLIENT_EXT)
LocalIp == htonl(ip_str_to_h32(ANP_IP_CLIENT_EXT))

TcpHeader(ports, seq, ack, flags) ==
    Store16(htons(ports[1])) \o Store16(htons(ports[2])) \o Store32(htonl(seq))
    \o Store32(htonl(ack)) \o <<80, flags>> \o Store16(htons(htons(65535)))
    \o <<0, 0>> \o <<0, 0>>

TcpBytes(ip, ports, seq, ack, flags, data) ==
    LET blank == TcpHeader(ports, seq, ack, flags) \o data
        csum == do_tcp_csum(blank, htons(IPP_TCP), htonl(LocalIp), htonl(ip_str_to_h32(ip)))
    IN  Put(blank, 16, Store16(csum))

create_tcp_packet(ip, ports, seq, ack, flags, data) ==
    LET size == ETH_HDR_LEN + IP_HDR_LEN + TCP_HDR_LEN + Len(data)
        s == sub_push(sub_reserve(alloc_sub(size), size), TCP_HDR_LEN + Len(data))
    IN  /\ AtRest
        /\ sub' = [Write(s, s.data, TcpBytes(ip, ports, seq, ack, flags, data))
                       EXCEPT !.protocol = IPP_TCP]
        /\ job' = [kind |-> "tcp", dst |-> ip, text |-> data, len |-> TCP_HDR_LEN + Len(data),
                   retries |-> 0]
        /\ UNCHANGED <<arp_cache, wire, arrived, verdict>>

\* tcp_retransmit_handler, for the first time or again.
TcpTry ==
    /\ job.kind = "tcp" /\ sub # NoSub
    /\ LET t == Try(sub, job) IN sub' = t.sub /\ wire' = t.frame
    /\ UNCHANGED <<arp_cache, job, arrived, verdict>>

\* free_sub, when the segment is acknowledged, given up or was to be sent once.
TcpFree ==
    /\ job.kind = "tcp" /\ sub # NoSub
    /\ sub' = NoSub /\ wire' = <<>>
    /\ UNCHANGED <<arp_cache, job, arrived, verdict>>

-----------------------------------------------------------------------------
(* What arrives: netdev_rx_loop reads a frame f into a new buffer m.       *)

RxBuffer(f) == Put(Zeros(ANP_MTU_15_MAX_SIZE), 0, f)
EthType(m) == htons(Load16(m, 12))
IpLen(m) == htons(Load16(m, ETH_HDR_LEN + 2))
Ihl(m) == m[ETH_HDR_LEN + 1] % 16
IpProto(m) == m[ETH_HDR_LEN + 10]
IP_PAYLOAD_LEN(m) == IpLen(m) - 4 * Ihl(m)

\* The tests of ip_rx.
IpGood(m) ==
    /\ m[ETH_HDR_LEN + 1] \div 16 = 4 /\ Ihl(m) >= 5 /\ m[ETH_HDR_LEN + 9] # 0
    /\ do_csum(Slice(m, ETH_HDR_LEN, 4 * Ihl(m)), Widen(0)) = 0

\* The tests of tcp_rx.  Its addresses, turned by ip_rx, are turned back.  (A
\* length below 0 would be large beside sizeof; a header of 60 bytes in a packet
\* of fewer is not among the frames here.)
TcpGood(m) ==
    LET n == IP_PAYLOAD_LEN(m) IN
    /\ n >= TCP_HDR_LEN
    /\ do_tcp_csum(Slice(m, Body, n), htons((IpProto(m) * 256) % Bits16),
                   Load32(m, ETH_HDR_LEN + 12), Load32(m, ETH_HDR_LEN + 16)) = 0

\* The tests of icmp_rx.  The length is that of the IP packet, so 20 bytes
\* behind the message are summed with it: zeros, in a buffer of calloc.
IcmpGood(m) ==
    /\ IP_PAYLOAD_LEN(m) >= ICMP_HDR_SIZE
    /\ do_csum(Slice(m, Body, IpLen(m)), Widen(0)) = 0

IsEcho(m) == m[Body + 1] = 8

\* icmp_reply: the buffer of the request becomes that of the reply.  The id in
\* it has been turned by ip_rx; the rest of the header is written again.
ReplyKept(m, n) == <<0, 0>> \o Slice(m, Body + 2, n - 2)
ReplyBlank(m, n) == <<0, 0, 0, 0>> \o Slice(m, Body + 4, n - 4)
icmp_reply(m) ==
    LET n == IP_PAYLOAD_LEN(m)
        turned == Put(m, ETH_HDR_LEN + 4, Store16(htons(Load16(m, ETH_HDR_LEN + 4))))
        s == sub_push(sub_reserve([alloc_sub(0) EXCEPT !.mem = turned], Body + n), n)
        blank == ReplyBlank(m, n)
    IN  [Write(s, s.data, Put(blank, 2, Store16(do_csum(blank, Widen(0)))))
             EXCEPT !.protocol = IPP_NUM_ICMP]
EchoJob(m) ==
    LET n == IP_PAYLOAD_LEN(m)
    IN  [kind |-> "echo", dst |-> Slice(m, ETH_HDR_LEN + 12, 4),
         text |-> Slice(m, Body + 4, n - 4), len |-> n, retries |-> ICMP_RETRY_COUNT]

\* icmp_reply_handler: a try, and the end of the reply or another try later.
icmp_reply_handler(s, j) ==
    LET t == Try(s, j) IN
    /\ wire' = t.frame
    /\ IF Resolved(j.dst) \/ j.retries <= 0
       THEN sub' = NoSub /\ job' = j
       ELSE sub' = t.sub /\ job' = [j EXCEPT !.retries = @ - 1]

IcmpTry ==
    /\ job.kind = "echo" /\ sub # NoSub
    /\ icmp_reply_handler(sub, job)
    /\ UNCHANGED <<arp_cache, arrived, verdict>>

\* process_packet and ip_rx, for a frame that is not ARP's.
IpRx(f) ==
    LET m == RxBuffer(f)
        ip == EthType(m) = ETH_P_IP /\ IpGood(m)
        icmp == ip /\ IpProto(m) = IPP_NUM_ICMP /\ IcmpGood(m)
        tcp == ip /\ IpProto(m) = IPP_TCP /\ TcpGood(m)
    IN  /\ AtRest /\ EthType(m) # ETH_P_ARP
        /\ arrived' = f
        /\ verdict' = IF tcp THEN "segment" ELSE IF icmp THEN "icmp" ELSE "refused"
        /\ IF icmp /\ IsEcho(m)
           THEN icmp_reply_handler(icmp_reply(m), EchoJob(m))
           ELSE UNCHANGED <<sub, job, wire>>
        /\ UNCHANGED arp_cache

\* arp_rx: the sender's entry is made or renewed, and a request for the
\* device's address is answered in the buffer it came in.
Turn32(m, p) == htonl(Load32(m, p))
arp_reply(m) ==
    LET all == ARP_HDR_LEN + ARP_DATA_LEN
        s == sub_push(sub_reserve([alloc_sub(0) EXCEPT !.mem = m], ETH_HDR_LEN + all), all)
        asker == Slice(m, ETH_HDR_LEN + 8, 6)
        message == Slice(m, ETH_HDR_LEN, 6) \o Store16(htons(2))
                   \o ANP_MAC_CLIENT_EXT \o Store32(htonl(ip_str_to_h32(ANP_IP_CLIENT_EXT)))
                   \o asker \o Store32(htonl(Turn32(m, ETH_HDR_LEN + 14)))
    IN  netdev_transmit(Write(s, ETH_HDR_LEN, message), asker, ETH_P_ARP)

netdev_get(u) == u = ip_str_to_h32(ANP_IP_CLIENT_EXT)
ArpRx(f) ==
    LET m == RxBuffer(f)
        asked == htons(Load16(m, ETH_HDR_LEN + 6)) = 1 /\ netdev_get(Turn32(m, ETH_HDR_LEN + 24))
    IN  /\ EthType(m) = ETH_P_ARP
        /\ htons(Load16(m, ETH_HDR_LEN)) = 1 /\ htons(Load16(m, ETH_HDR_LEN + 2)) = ETH_P_IP
        /\ arp_cache' = arp_cache \cup {Slice(m, ETH_HDR_LEN + 14, 4)}
        /\ wire' = IF asked THEN Frame(arp_reply(m)) ELSE <<>>
        /\ arrived' = f /\ verdict' = "arp"
        /\ UNCHANGED <<sub, job>>

\* The packet is done with; what is kept of it here is forgotten.
Finish ==
    /\ sub = NoSub /\ ~AtRest
    /\ job' = NoJob /\ wire' = <<>> /\ arrived' = <<>> /\ verdict' = "none"
    /\ UNCHANGED <<arp_cache, sub>>

-----------------------------------------------------------------------------
(* The hosts on the link (external): their frames are right when they are  *)
(* sent, and one byte of a packet may change on its way.                   *)

BigEndian(n) == <<n \div 256, n % 256>>
Sealed(bytes, covered, p) ==
    LET sum == BigEndianSum(covered) % (Bits16 - 1)
    IN  Put(bytes, p, BigEndian(IF sum = 0 THEN 0 ELSE Bits16 - 1 - sum))

PeerTcp(ip, seq, data) ==
    LET blank == <<31, 144, 168, 203>> \o Store32(htonl(seq)) \o <<0, 0, 0, 1, 80, 16, 2, 0, 0, 0, 0, 0>> \o data
    IN  Sealed(blank, PseudoHeader(ip, ANP_IP_CLIENT_EXT, IPP_TCP, Len(blank)) \o blank, 16)
PeerIcmp(type, data) == LET blank == <<type, 0, 0, 0>> \o data IN Sealed(blank, blank, 2)

PeerIp(ip, protocol, body) ==
    LET blank == <<69, 0>> \o BigEndian(IP_HDR_LEN + Len(body)) \o <<1, 2, 64, 0, 64, protocol, 0, 0>>
                 \o ip \o ANP_IP_CLIENT_EXT
    IN  Sealed(blank, blank, 10) \o body
PeerEth(ip, type, packet) ==
    ANP_MAC_CLIENT_EXT \o Mac[IF ip \in DOMAIN Mac THEN ip ELSE ANP_IP_TAP_DEV] \o BigEndian(type) \o packet

PeerPackets ==
    UNION {{PeerEth(ip, ETH_P_IP, PeerIp(ip, IPP_TCP, PeerTcp(ip, seq, data))),
            PeerEth(ip, ETH_P_IP, PeerIp(ip, IPP_NUM_ICMP, PeerIcmp(8, data))),
            PeerEth(ip, ETH_P_IP, PeerIp(ip, IPP_NUM_ICMP, PeerIcmp(0, data)))} :
              ip \in Remotes, seq \in Seqs, data \in Payloads}

Delivered(f) ==
    {f} \cup {[f EXCEPT ![i] = (@ + k) % 256] : i \in ETH_HDR_LEN - 1..Len(f), k \in Flips}

\* A neighbour asks for an address, or answers us.
PeerArp(ip, op, target) ==
    PeerEth(ip, ETH_P_ARP, BigEndian(1) \o BigEndian(ETH_P_IP) \o <<6, 4>> \o BigEndian(op)
                           \o Mac[ip] \o ip \o ANP_MAC_CLIENT_EXT \o target)

-----------------------------------------------------------------------------
Init ==
    /\ arp_cache = {} /\ sub = NoSub /\ job = NoJob
    /\ wire = <<>> /\ arrived = <<>> /\ verdict = "none"

Next ==
    \/ \E ip \in Remotes, ports \in Ports, seq \in Seqs, ack \in Seqs, flags \in Flags, data \in Payloads :
         create_tcp_packet(ip, ports, seq, ack, flags, data)
    \/ TcpTry \/ TcpFree \/ IcmpTry \/ Finish
    \/ \E f \in PeerPackets : \E g \in Delivered(f) : IpRx(g)
    \/ \E ip \in DOMAIN Mac, op \in {1, 2}, target \in {ANP_IP_CLIENT_EXT, ANP_IP_TAP_DEV} :
         ArpRx(PeerArp(ip, op, target))

Spec == Init /\ [][Next]_vars
=============================================================================
