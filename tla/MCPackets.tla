----------------------------- MODULE MCPackets -----------------------------
(***************************************************************************)
(* An instance of Packets for TLC, with the addresses of config.h, and its *)
(* properties.  A frame is read here as its receiver reads it: big-endian, *)
(* from its first byte on.                                                 *)
(***************************************************************************)
EXTENDS Packets, TLC

DeviceIp == <<10, 0, 0, 4>>
LoopbackIp == <<127, 0, 0, 1>>
TapIp == <<10, 0, 0, 5>>
DeviceMac == <<222, 173, 190, 239, 170, 170>>

\* The tap device, another host on its network, and one behind it whose
\* address ends in 253.
LanIp == <<10, 0, 0, 9>>
FarIp == <<93, 184, 215, 14>>
HighIp == <<192, 0, 2, 253>>
LinkMacs == (TapIp :> <<2, 0, 0, 0, 0, 5>>) @@ (LanIp :> <<2, 0, 0, 0, 255, 9>>)

OnePortPair == {<<43211, 8080>>}
EdgeSeqs == {[hi |-> 0, lo |-> 1], [hi |-> 65535, lo |-> 65535]}
AckFlags == {16}
OddAndEven == {<<>>, <<255>>, <<255, 255, 1, 2>>}
AllHosts == {TapIp, LanIp, FarIp, HighIp}

Read16(f, p) == 256 * f[p + 1] + f[p + 2]
IsIp == wire # <<>> /\ Read16(wire, 12) = ETH_P_IP
IsArp == wire # <<>> /\ Read16(wire, 12) = ETH_P_ARP
Packet == Slice(wire, ETH_HDR_LEN, Len(wire) - ETH_HDR_LEN)
Content == Slice(wire, Body, Len(wire) - Body)

\* Does do_tcp_csum lose a carry out of its 32 bits for such a segment?
LosesCarry(saddr, daddr, bytes) ==
    LET low == saddr.lo + daddr.lo + htons(IPP_TCP) + htons(Len(bytes)) + sum_every_16bits(bytes)
    IN  saddr.hi + daddr.hi + low \div Bits16 >= Bits16
SentLosesCarry ==
    LosesCarry(ip_str_to_h32(ANP_IP_CLIENT_EXT), ip_str_to_n32(job.dst), Content)
ArrivedLosesCarry ==
    LosesCarry(Load32(arrived, 26), Load32(arrived, 30), Slice(arrived, Body, Len(arrived) - Body))

-----------------------------------------------------------------------------
(* Properties.                                                             *)

\* The data of a buffer lies inside it, whatever sub_reserve and sub_push did
\* to it in this try and in those before, and is one of the packet's layers.
DataInside ==
    sub # NoSub =>
        /\ sub.data \in {0, ETH_HDR_LEN, Body} /\ sub.data + sub.len = Body + job.len
        /\ sub.data + sub.len <= Len(sub.mem)

\* Every IP frame, at the first try or a later one, is whole: the Ethernet
\* header names the next hop, the IP header has the length of what follows, the
\* addresses of the two ends and a right checksum, and the rest is as long as
\* the segment or the message that was to be sent.
FrameWhole ==
    IsIp =>
        /\ Slice(wire, 0, 6) = Mac[IF job.dst \in DOMAIN Mac THEN job.dst ELSE TapIp]
        /\ Slice(wire, 6, 6) = DeviceMac
        /\ Packet[1] = 69 /\ Read16(Packet, 2) = Len(Packet) /\ Len(Content) = job.len
        /\ Slice(Packet, 12, 4) = DeviceIp /\ Slice(Packet, 16, 4) = job.dst
        /\ Internet(Slice(Packet, 0, IP_HDR_LEN))

\* A receiver finds the checksum of every segment right, unless a carry was
\* lost, although create_tcp_packet turns neither its own address nor the
\* protocol as it should: for the address of config.h the two cancel out.
SegmentRight ==
    IsIp /\ job.kind = "tcp" =>
        /\ Slice(Content, TCP_HDR_LEN, Len(Content) - TCP_HDR_LEN) = job.text
        /\ \/ SentLosesCarry
           \/ Internet(PseudoHeader(DeviceIp, job.dst, IPP_TCP, Len(Content)) \o Content)

\* An echo reply carries what the request carried and has a right checksum,
\* although it is made in the buffer of the request and tried up to four times.
ReplyRight ==
    IsIp /\ job.kind = "echo" =>
        Slice(Content, 0, 2) = <<0, 0>> /\ Internet(Content) /\ Slice(Content, 4, job.len - 4) = job.text

\* What a host sends is taken when its checksums are right and refused when a
\* byte has changed, unless a carry is lost; icmp_rx, which sums 20 bytes too
\* many, included.
RightIsTaken ==
    arrived # <<>> /\ verdict \in {"segment", "icmp", "refused"} =>
        LET packet == Slice(arrived, ETH_HDR_LEN, Len(arrived) - ETH_HDR_LEN)
            body == Slice(arrived, Body, Len(arrived) - Body)
            right == /\ Read16(arrived, 12) = ETH_P_IP /\ Internet(Slice(packet, 0, IP_HDR_LEN))
                     /\ \/ packet[10] = IPP_NUM_ICMP /\ Internet(body)
                        \/ /\ packet[10] = IPP_TCP
                           /\ Internet(PseudoHeader(Slice(packet, 12, 4), Slice(packet, 16, 4),
                                                    IPP_TCP, Len(body)) \o body)
        IN  (verdict # "refused" <=> right) \/ (packet[10] = IPP_TCP /\ ArrivedLosesCarry)

\* An ARP request asks, in network byte order, for the address the packet has
\* to go to next, and an ARP reply answers the host that asked.
ArpRight ==
    IsArp =>
        /\ Len(wire) = ETH_HDR_LEN + ARP_HDR_LEN + ARP_DATA_LEN
        /\ Slice(Packet, 0, 6) = <<0, 1, 8, 0, 6, 4>>
        /\ Slice(Packet, 8, 10) = DeviceMac \o DeviceIp
        /\ \/ /\ Read16(Packet, 6) = 1
              /\ Slice(wire, 0, 6) = broadcast_hw
              /\ Slice(Packet, 24, 4) = IF job.dst \in DOMAIN Mac THEN job.dst ELSE TapIp
           \/ /\ Read16(Packet, 6) = 2 /\ verdict = "arp"
              /\ Slice(Packet, 18, 10) = Slice(arrived, 22, 10)
              /\ Slice(wire, 0, 6) = Slice(arrived, 6, 6)
=============================================================================
