-------------------------------- MODULE Icmp --------------------------------
(***************************************************************************)
(* Echo requests and their replies (src/icmp.c), from the Ethernet frame   *)
(* (src/anp_netdev.c, src/ip_rx.c) to the frame that goes out              *)
(* (src/ip_tx.c), over the ARP cache of module Arp.                        *)
(*                                                                         *)
(* The receive thread makes the first attempt at a reply itself.  While    *)
(* the next hop is unknown, ip_output asks for it and answers -EAGAIN, and *)
(* a one-shot timer runs icmp_reply_handler again, on a thread named by    *)
(* the request.  Each request is used once; the timer is that of OneShot.  *)
(***************************************************************************)
EXTENDS Arp

CONSTANTS
    ICMP_RETRY_COUNT    \* 3 in the code

Echoes == Walkers
Sources == Neighbours \cup Remote

ASSUME RetryAssumption == ICMP_RETRY_COUNT \in Nat

VARIABLES
    at,                 \* where the handling of a request is
    src,                \* reply_info->dest_addr
    retries,            \* reply_info->retries
    sub,                \* the buffer: "none", "held", "freed", or "leaked"
    hw,                 \* first bytes of the address netdev_transmit is copying
    \* history
    tries,              \* attempts made at a reply
    sent,               \* replies sent, with the hardware address they went to
    known               \* the entries on the list when a walk began

icmpVars == <<at, src, retries, sub, hw, tries, sent, known>>
vars == <<arpVars, icmpVars>>

Hop(e) == NextHop(src[e])

\* The entries a walk that starts now comes to.
Linked == Cached \cup (IF rx.at = "close" THEN {rx.msg.ip} ELSE {})

EchoLabels == {"none", "timer", "walk", "copy", "done"}

-----------------------------------------------------------------------------
(* The receive thread.                                                     *)

\* A frame ip_rx drops: not IP, too short, out of time, or a bad checksum; or
\* one process_packet does not know.
IpDrop(e) ==
    /\ rx.at = "idle" /\ at[e] = "none"
    /\ at' = [at EXCEPT ![e] = "done"] /\ sub' = [sub EXCEPT ![e] = "freed"]
    /\ UNCHANGED <<arpVars, src, retries, hw, tries, sent, known>>

\* A message icmp_rx drops, or icmp_reply for want of memory, is freed without
\* its data.
IcmpDrop(e) ==
    /\ rx.at = "idle" /\ at[e] = "none"
    /\ at' = [at EXCEPT ![e] = "done"] /\ sub' = [sub EXCEPT ![e] = "leaked"]
    /\ UNCHANGED <<arpVars, src, retries, hw, tries, sent, known>>

\* Are there attempts left after one that found the next hop unknown?
MayRetryOnceMore(n) == TRUE
MayRetryLess(n) == n > 1
MayRetry(n) == n > 0

\* The end of icmp_reply_handler after an attempt with n retries left:
\* -EAGAIN, and the timer is set again or the reply given up; or any other
\* answer of ip_output, and all is freed.
TryAgain(e, n) ==
    /\ tries' = [tries EXCEPT ![e] = @ + 1]
    /\ IF MayRetry(n)
       THEN /\ at' = [at EXCEPT ![e] = "timer"]
            /\ retries' = [retries EXCEPT ![e] = n - 1]
            /\ sub' = [sub EXCEPT ![e] = "held"]
       ELSE /\ at' = [at EXCEPT ![e] = "done"]
            /\ retries' = [retries EXCEPT ![e] = n]
            /\ sub' = [sub EXCEPT ![e] = "freed"]
SentTo(e, first, last) ==
    /\ sent' = sent \cup {[echo |-> e, mac |-> <<first, last>>]}
    /\ tries' = [tries EXCEPT ![e] = @ + 1]
    /\ at' = [at EXCEPT ![e] = "done"] /\ sub' = [sub EXCEPT ![e] = "freed"]

\* icmp_rx, icmp_reply and the first icmp_reply_handler.
IcmpRx(e, ip) ==
    LET hop == NextHop(ip) IN
    /\ rx.at = "idle" /\ at[e] = "none"
    /\ src' = [src EXCEPT ![e] = ip]
    /\ IF hop \in Cached
       THEN SentTo(e, mac[hop][1], mac[hop][2]) /\ UNCHANGED retries
       ELSE TryAgain(e, ICMP_RETRY_COUNT) /\ UNCHANGED sent
    /\ UNCHANGED <<arpVars, hw, known>>

-----------------------------------------------------------------------------
(* icmp_reply_handler on the thread of a timer.                            *)

HandlerStart(e) ==
    /\ at[e] = "timer"
    /\ WalkStart(e) /\ at' = [at EXCEPT ![e] = "walk"]
    /\ known' = [known EXCEPT ![e] = Linked]
    /\ UNCHANGED <<nxt, tail, mac, rx, announced, answers, src, retries, sub, hw, tries, sent>>

HandlerWalk(e) ==
    /\ at[e] = "walk" /\ ~Found(e, Hop(e)) /\ ~NotFound(e, Hop(e))
    /\ WalkStep(e)
    /\ UNCHANGED <<nxt, tail, mac, rx, announced, answers, icmpVars>>

\* arp_get_hwaddr has returned a pointer into the cache; netdev_transmit copies
\* what it points to.
HandlerFound(e) ==
    /\ at[e] = "walk" /\ Found(e, Hop(e))
    /\ hw' = [hw EXCEPT ![e] = mac[Hop(e)][1]]
    /\ at' = [at EXCEPT ![e] = "copy"]
    /\ UNCHANGED <<arpVars, src, retries, sub, tries, sent, known>>
HandlerTransmit(e) ==
    /\ at[e] = "copy"
    /\ SentTo(e, hw[e], mac[Hop(e)][2])
    /\ UNCHANGED <<arpVars, src, retries, hw, known>>

\* dst_neigh_output has sent an ARP request and answered -EAGAIN.
HandlerMiss(e) ==
    /\ at[e] = "walk" /\ NotFound(e, Hop(e))
    /\ TryAgain(e, retries[e])
    /\ UNCHANGED <<arpVars, src, hw, sent, known>>

-----------------------------------------------------------------------------
Init ==
    /\ ArpInit
    /\ at = [e \in Echoes |-> "none"] /\ src = [e \in Echoes |-> Gateway]
    /\ retries = [e \in Echoes |-> 0] /\ sub = [e \in Echoes |-> "none"]
    /\ hw = [e \in Echoes |-> Zero] /\ tries = [e \in Echoes |-> 0]
    /\ sent = {} /\ known = [e \in Echoes |-> {}]

Handler(e) ==
    \/ HandlerStart(e) \/ HandlerWalk(e) \/ HandlerFound(e)
    \/ HandlerTransmit(e) \/ HandlerMiss(e)

Receive ==
    \/ \E ip \in Neighbours, m \in Macs, b \in BOOLEAN :
         ArpRx(ip, m, b) /\ UNCHANGED icmpVars
    \/ \E e \in Echoes : IpDrop(e) \/ IcmpDrop(e) \/ \E ip \in Sources : IcmpRx(e, ip)

Next == Receive \/ (ArpStep /\ UNCHANGED icmpVars) \/ \E e \in Echoes : Handler(e)

Spec == Init /\ [][Next]_vars

\* Threads run; a timer that is set runs its handler (HandlerRuns of Timer).
FairSpec ==
    /\ Spec /\ WF_vars(ArpStep /\ UNCHANGED icmpVars)
    /\ \A e \in Echoes : WF_vars(Handler(e))

-----------------------------------------------------------------------------
(* Properties.                                                             *)

\* Every variable has its type.
TypeOK ==
    /\ ArpTypeOK
    /\ at \in [Echoes -> EchoLabels] /\ src \in [Echoes -> Sources]
    /\ retries \in [Echoes -> 0..ICMP_RETRY_COUNT]
    /\ sub \in [Echoes -> {"none", "held", "freed", "leaked"}]
    /\ hw \in [Echoes -> Macs \cup {Zero}] /\ tries \in [Echoes -> 0..ICMP_RETRY_COUNT + 1]
    /\ sent \subseteq [echo : Echoes, mac : (Macs \cup {Zero}) \X (Macs \cup {Zero})]
    /\ known \in [Echoes -> SUBSET Neighbours]

\* A reply goes to bytes its next hop has announced, never to those of a
\* half-made entry or of another neighbour, although arp_get_hwaddr walks the
\* cache and netdev_transmit reads it without a lock; an ARP reply goes to an
\* address the asker announced.  (The two parts may be of different
\* announcements: arp_rx overwrites an address in place.)
FrameForHop ==
    /\ \A f \in sent : \A i \in {1, 2} : f.mac[i] \in announced[Hop(f.echo)]
    /\ \A f \in answers : f.mac \in announced[f.ip]

\* A walk does not miss an entry that was on the list when it began, however
\* list_add_tail changes the list meanwhile.
KnownIsFound ==
    \A e \in Echoes : at[e] = "walk" /\ pos[e] = arp_cache => Hop(e) \notin known[e]

\* A reply is given up only after the first attempt and ICMP_RETRY_COUNT more.
GivesUpLast ==
    \A e \in Echoes :
        at[e] = "done" /\ tries[e] > 0 /\ ~(\E f \in sent : f.echo = e) =>
            tries[e] = ICMP_RETRY_COUNT + 1

\* Every reply is sent or given up in the end, and its buffer freed: no walk of
\* the cache goes on for ever, even one that stands on an entry which
\* list_add_tail has not yet closed.
RepliesEnd == \A e \in Echoes : sub[e] = "held" ~> sub[e] = "freed"

\* A reply whose next hop is known by the time its timer is set is sent.
KnownIsAnswered ==
    \A e \in Echoes :
        at[e] = "timer" /\ Hop(e) \in Linked ~> \E f \in sent : f.echo = e
=============================================================================
