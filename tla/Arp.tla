-------------------------------- MODULE Arp --------------------------------
(***************************************************************************)
(* The ARP cache (src/arp.c) and the choice of the next hop (src/route.c). *)
(*                                                                         *)
(* The cache is a linked list that no mutex protects.  The receive thread  *)
(* alone changes it, in arp_rx; handler threads walk it meanwhile, in      *)
(* arp_get_hwaddr.  Every store of list_add_tail and of the copy of an     *)
(* address that such a walk can see is a step of its own, in the order of  *)
(* the program: the library is built without optimisation, and x86 keeps   *)
(* the order of stores.  The receive thread's own walks meet a list at     *)
(* rest and are single steps.                                              *)
(***************************************************************************)
EXTENDS Naturals, Sequences, FiniteSets

CONSTANTS
    Neighbours,         \* the IP addresses that speak ARP on the link
    Remote,             \* the IP addresses behind the gateway
    Gateway,            \* ANP_IP_TAP_DEV, a neighbour
    Macs,               \* hardware addresses
    Zero,               \* the bytes of memory calloc returns
    arp_cache,          \* &arp_cache
    Walkers             \* the threads that walk the cache beside the receive thread

ASSUME ArpAssumption ==
    /\ Gateway \in Neighbours /\ Remote \cap Neighbours = {}
    /\ arp_cache \notin Neighbours /\ Zero \notin Macs

VARIABLES
    nxt,                \* the next pointers: an entry is named by its IP address
    tail,               \* arp_cache.prev
    mac,                \* the address in an entry: its first 4 and last 2 bytes
    rx,                 \* the receive thread: where it is and its ARP message
    pos,                \* the position of a walk
    \* history
    announced,          \* the addresses each neighbour has announced
    answers             \* ARP replies sent, with the hardware address they went to

arpVars == <<nxt, tail, mac, rx, pos, announced, answers>>

Nodes == Neighbours \cup {arp_cache}
NoMessage == [ip |-> Gateway, mac |-> Zero, forUs |-> FALSE]
RxLabels == {"idle", "fill", "link", "close", "tail", "copy", "answer"}

-----------------------------------------------------------------------------
(* Routes.                                                                 *)

\* route_init, without the loopback network, from which nothing is received:
\* the network of the link, and the default route.
Routes == << [net |-> Neighbours, flags |-> "RT_HOST"],
             [net |-> Neighbours \cup Remote, flags |-> "RT_GATEWAY"] >>

\* The first route that matches, or else the last.
RouteLookup(ip) ==
    LET matches == {i \in DOMAIN Routes : ip \in Routes[i].net}
    IN  Routes[CHOOSE i \in DOMAIN Routes :
                 \/ i \in matches /\ \A j \in matches : i <= j
                 \/ matches = {} /\ i = Len(Routes)]

\* dst_neigh_output: the address whose hardware address is looked up.
NextHop(ip) == IF RouteLookup(ip).flags = "RT_GATEWAY" THEN Gateway ELSE ip

-----------------------------------------------------------------------------
(* arp_rx, on the receive thread.                                          *)

\* The entries on the list, as the receive thread sees it when it is idle.
Cached == {ip \in Neighbours : nxt[ip] # ip}

RxGoto(l) == rx' = [rx EXCEPT !.at = l]

\* A neighbour's message arrives, a reply or a request, for us or for another:
\* process_arp_entry looks for the sender, whatever the message is.  Messages
\* of another hardware or protocol type are dropped and change nothing.
ArpRx(ip, m, forUs) ==
    /\ rx.at = "idle"
    /\ rx' = [at |-> IF ip \in Cached THEN "copy" ELSE "fill",
              msg |-> [ip |-> ip, mac |-> m, forUs |-> forUs]]
    /\ mac' = IF ip \in Cached THEN [mac EXCEPT ![ip][1] = m] ELSE mac
    /\ announced' = [announced EXCEPT ![ip] = @ \cup {m}]
    /\ UNCHANGED <<nxt, tail, pos, answers>>

\* A known sender: its address is overwritten in place, four bytes (above),
\* then two.
ArpCopy ==
    /\ rx.at = "copy"
    /\ mac' = [mac EXCEPT ![rx.msg.ip][2] = rx.msg.mac]
    /\ RxGoto("answer")
    /\ UNCHANGED <<nxt, tail, pos, announced, answers>>

\* A new sender: the entry is filled in before it is linked.
ArpFillLate ==
    /\ rx.at = "fill"
    /\ RxGoto("link")
    /\ UNCHANGED <<nxt, tail, mac, pos, announced, answers>>
ArpFill ==
    /\ rx.at = "fill"
    /\ mac' = [mac EXCEPT ![rx.msg.ip] = <<rx.msg.mac, rx.msg.mac>>]
    /\ RxGoto("link")
    /\ UNCHANGED <<nxt, tail, pos, announced, answers>>

\* list_add_tail: head->prev->next = new; new->next = head; head->prev = new.
ListLinkFirst ==
    /\ rx.at = "link"
    /\ nxt' = [nxt EXCEPT ![arp_cache] = rx.msg.ip]
    /\ RxGoto("close")
    /\ UNCHANGED <<tail, mac, pos, announced, answers>>
ListLink ==
    /\ rx.at = "link"
    /\ nxt' = [nxt EXCEPT ![tail] = rx.msg.ip]
    /\ RxGoto("close")
    /\ UNCHANGED <<tail, mac, pos, announced, answers>>
ListCloseNever ==
    /\ rx.at = "close"
    /\ RxGoto("tail")
    /\ UNCHANGED <<nxt, tail, mac, pos, announced, answers>>
ListClose ==
    /\ rx.at = "close"
    /\ nxt' = [nxt EXCEPT ![rx.msg.ip] = arp_cache]
    /\ RxGoto("tail")
    /\ UNCHANGED <<tail, mac, pos, announced, answers>>
ListTail ==
    /\ rx.at = "tail"
    /\ tail' = rx.msg.ip
    /\ RxGoto("answer")
    /\ UNCHANGED <<nxt, mac, pos, announced, answers>>

\* arp_reply, built in the buffer of the request, if that was for our address.
ArpAnswer ==
    /\ rx.at = "answer"
    /\ answers' = answers \cup
         (IF rx.msg.forUs THEN {[ip |-> rx.msg.ip, mac |-> rx.msg.mac]} ELSE {})
    /\ rx' = [at |-> "idle", msg |-> NoMessage]
    /\ UNCHANGED <<nxt, tail, mac, pos, announced>>

ArpStep ==
    ArpCopy \/ ArpFill \/ ListLink \/ ListClose \/ ListTail \/ ArpAnswer

-----------------------------------------------------------------------------
(* arp_get_hwaddr, on a handler thread.                                    *)

WalkStart(w) == pos' = [pos EXCEPT ![w] = nxt[arp_cache]]

WalkStep(w) == pos' = [pos EXCEPT ![w] = nxt[pos[w]]]

\* Where the walk for ip is: on its entry, or at the end without one.
Found(w, ip) == pos[w] = ip
NotFoundFirst(w, ip) == pos[w] # ip
NotFound(w, ip) == pos[w] = arp_cache

-----------------------------------------------------------------------------
ArpInit ==
    /\ nxt = [n \in Nodes |-> n] /\ tail = arp_cache
    /\ mac = [ip \in Neighbours |-> <<Zero, Zero>>]
    /\ rx = [at |-> "idle", msg |-> NoMessage]
    /\ pos = [w \in Walkers |-> arp_cache]
    /\ announced = [ip \in Neighbours |-> {}] /\ answers = {}

ArpTypeOK ==
    /\ nxt \in [Nodes -> Nodes] /\ tail \in Nodes
    /\ mac \in [Neighbours -> (Macs \cup {Zero}) \X (Macs \cup {Zero})]
    /\ rx \in [at : RxLabels,
               msg : [ip : Neighbours, mac : Macs \cup {Zero}, forUs : BOOLEAN]]
    /\ pos \in [Walkers -> Nodes]
    /\ announced \in [Neighbours -> SUBSET Macs]
    /\ answers \subseteq [ip : Neighbours, mac : Macs]
=============================================================================
