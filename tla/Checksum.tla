------------------------------ MODULE Checksum ------------------------------
(***************************************************************************)
(* Byte order and the Internet checksum (src/utilities.c), with the widths *)
(* of the code.  The processor is little-endian.  A uint32_t is a record   *)
(* of its two halves, since its values exceed TLC's integers; memory is a  *)
(* sequence of bytes, and an IP address the sequence of its four numbers.  *)
(***************************************************************************)
EXTENDS Naturals, Sequences, FiniteSetsExt

Byte == 0..255
Bits16 == 65536
Uint32 == [hi : 0..Bits16 - 1, lo : 0..Bits16 - 1]

-----------------------------------------------------------------------------
(* Byte order (external: the htons family and inet_pton of the C library). *)

htons(n) == (n % 256) * 256 + n \div 256
htonl(u) == [hi |-> htons(u.lo), lo |-> htons(u.hi)]

\* What a store of an integer leaves in memory, and what a load finds.
Store16(n) == <<n % 256, n \div 256>>
Store32(u) == Store16(u.lo) \o Store16(u.hi)
Load16(m, p) == m[p + 1] + 256 * m[p + 2]
Load32(m, p) == [lo |-> Load16(m, p), hi |-> Load16(m, p + 2)]

\* The bytes of an address are in network order; ip_str_to_h32 turns them.
ip_str_to_n32(ip) == Load32(ip, 0)
ip_str_to_h32(ip) == htonl(ip_str_to_n32(ip))

-----------------------------------------------------------------------------
(* The checksum.                                                           *)

Widen(n) == [hi |-> (n \div Bits16) % Bits16, lo |-> n % Bits16]

\* uint32_t addition: the carry out of the upper half is lost.
Add32(u, v) ==
    LET low == u.lo + v.lo
    IN  [hi |-> (u.hi + v.hi + low \div Bits16) % Bits16, lo |-> low % Bits16]

\* The sum of the little-endian words of the bytes, and of the byte left over.
Sum16Even(bytes) ==
    MapThenSumSet(LAMBDA i : IF i % 2 = 1 THEN bytes[i] ELSE 256 * bytes[i],
                  1..2 * (Len(bytes) \div 2))
sum_every_16bits(bytes) ==
    MapThenSumSet(LAMBDA i : IF i % 2 = 1 THEN bytes[i] ELSE 256 * bytes[i], 1..Len(bytes))

\* while (sum>>16) sum = (sum & 0xffff) + (sum >> 16)
RECURSIVE Fold(_)
Fold(u) == IF u.hi = 0 THEN u.lo ELSE Fold(Widen(u.lo + u.hi))

\* The uint16_t ~sum.
do_csum(bytes, start) ==
    Bits16 - 1 - Fold(Add32(start, Widen(sum_every_16bits(bytes))))

do_tcp_csum(bytes, protocol, saddr, daddr) ==
    do_csum(bytes, Add32(Add32(saddr, daddr),
                         Widen(htons(protocol) + htons(Len(bytes)))))

-----------------------------------------------------------------------------
(* The reference: the one's-complement sum of RFC 1071, of big-endian      *)
(* words of any number and without a limit on the carries.                 *)

BigEndianSum(bytes) ==
    MapThenSumSet(LAMBDA i : IF i % 2 = 0 THEN bytes[i] ELSE 256 * bytes[i], 1..Len(bytes))

\* Does a receiver find the checksum inside the bytes right?
Internet(bytes) ==
    LET sum == BigEndianSum(bytes) IN sum > 0 /\ sum % (Bits16 - 1) = 0

\* What TCP's checksum covers (RFC 793).
PseudoHeader(src, dst, protocol, length) ==
    src \o dst \o <<0, protocol, length \div 256, length % 256>>
=============================================================================
