----------------------------- MODULE IcmpProofs -----------------------------
(***************************************************************************)
(* Type correctness of Icmp, where its frames go, when a reply is given up *)
(* and what a walk of the cache finds, for any number of neighbours, echo  *)
(* requests and retries.                                                   *)
(***************************************************************************)
EXTENDS Icmp, ListWalks

Bytes == Macs \cup {Zero}

\* The address in the entry of ip is made of bytes ip has announced.
Filled(ip) == mac[ip][1] \in announced[ip] /\ mac[ip][2] \in announced[ip]

\* arp_rx works for a sender that has announced its address, and has filled
\* the entry in when it links it.
RxInv ==
    /\ rx.at # "idle" => rx.msg.mac \in announced[rx.msg.ip]
    /\ rx.at \in {"link", "close", "tail"} => Filled(rx.msg.ip)

\* No pointer that a walk follows, and no walk, comes to an entry before it is
\* filled in.
ListInv ==
    \A ip \in Neighbours :
        nxt[ip] # ip \/ tail = ip \/ (\E n \in Nodes : n # ip /\ nxt[n] = ip) => Filled(ip)

WalkInv == \A w \in Walkers, ip \in Neighbours : pos[w] = ip => Filled(ip)

AnswersInv == \A f \in answers : f.mac \in announced[f.ip]

ArpInv == ArpTypeOK /\ RxInv /\ ListInv /\ AnswersInv

\* The handling of request e: the attempts made and those left add up.
EchoOK(e) ==
    /\ at[e] \in EchoLabels /\ src[e] \in Sources /\ hw[e] \in Bytes
    /\ sub[e] \in {"none", "held", "freed", "leaked"}
    /\ retries[e] \in 0..ICMP_RETRY_COUNT /\ tries[e] \in 0..ICMP_RETRY_COUNT + 1
    /\ known[e] \in SUBSET Neighbours
    /\ at[e] = "none" => tries[e] = 0
    /\ at[e] \in {"timer", "walk", "copy"} => tries[e] + retries[e] = ICMP_RETRY_COUNT
    /\ at[e] = "copy" => hw[e] \in announced[Hop(e)] /\ Filled(Hop(e))
    /\ at[e] = "done" /\ tries[e] > 0 /\ ~(\E f \in sent : f.echo = e) =>
           tries[e] = ICMP_RETRY_COUNT + 1

\* A frame is sent by a handling that is over, to bytes of its next hop.
SentOK(f) ==
    /\ f \in [echo : Echoes, mac : Bytes \X Bytes] /\ at[f.echo] = "done"
    /\ f.mac[1] \in announced[Hop(f.echo)] /\ f.mac[2] \in announced[Hop(f.echo)]

EchoTypes ==
    /\ at \in [Echoes -> EchoLabels] /\ src \in [Echoes -> Sources]
    /\ retries \in [Echoes -> Nat] /\ tries \in [Echoes -> Nat]
    /\ sub \in [Echoes -> {"none", "held", "freed", "leaked"}]
    /\ hw \in [Echoes -> Bytes] /\ known \in [Echoes -> SUBSET Neighbours]

EchoInv == EchoTypes /\ (\A e \in Echoes : EchoOK(e)) /\ (\A f \in sent : SentOK(f))
Inv == ArpInv /\ WalkInv /\ EchoInv

-----------------------------------------------------------------------------
(* Routes.                                                                 *)

\* route_lookup answers the link for a neighbour and the default route for
\* any other address, so that a next hop is always a neighbour.
LEMMA HopIsNeighbour ==
    ASSUME NEW ip \in Sources PROVE NextHop(ip) \in Neighbours
<1>. DEFINE matches == {i \in DOMAIN Routes : ip \in Routes[i].net}
            Answer(i) == \/ i \in matches /\ \A j \in matches : i <= j
                         \/ matches = {} /\ i = Len(Routes)
<1>1. /\ DOMAIN Routes = {1, 2} /\ Len(Routes) = 2
      /\ Routes[1] = [net |-> Neighbours, flags |-> "RT_HOST"]
      /\ Routes[2] = [net |-> Neighbours \cup Remote, flags |-> "RT_GATEWAY"]
  BY DEF Routes
<1>2. 2 \in matches
  BY <1>1 DEF Sources
<1>3. CASE ip \in Neighbours
  BY <1>3, ArpAssumption DEF NextHop
<1>4. CASE ip \notin Neighbours
  <2>1. matches = {2}
    BY <1>1, <1>2, <1>4
  <2>2. \A i \in DOMAIN Routes : Answer(i) <=> i = 2
    BY <1>1, <2>1
  <2>3. RouteLookup(ip) = Routes[CHOOSE i \in DOMAIN Routes : Answer(i)]
    BY DEF RouteLookup
  <2>4. (CHOOSE i \in DOMAIN Routes : Answer(i)) = 2
    BY <1>1, <2>2
  <2>. QED
    BY <1>1, <2>3, <2>4, ArpAssumption DEF NextHop
<1>. QED
  BY <1>3, <1>4

-----------------------------------------------------------------------------
(* arp_rx.                                                                 *)

\* What neighbours announce, and what entries hold of it, is never lost.
Grows ==
    \A ip \in Neighbours : announced[ip] \subseteq announced'[ip] /\ (Filled(ip) => Filled(ip)')

\* One part of an address is overwritten.
LEMMA PartWritten ==
    ASSUME ArpTypeOK, NEW ip \in Neighbours, NEW m \in Bytes, NEW i \in {1, 2},
           mac' = [mac EXCEPT ![ip][i] = m]
    PROVE  /\ mac' \in [Neighbours -> Bytes \X Bytes]
           /\ mac'[ip][i] = m
           /\ \A j \in {1, 2} : j # i => mac'[ip][j] = mac[ip][j]
           /\ \A n \in Neighbours : n # ip => mac'[n] = mac[n]
<1>1. mac \in [Neighbours -> Bytes \X Bytes] /\ mac[ip] \in Bytes \X Bytes
  BY DEF ArpTypeOK, Bytes
<1>2. mac' = [mac EXCEPT ![ip] = [mac[ip] EXCEPT ![i] = m]]
  OBVIOUS
<1>3. PICK x \in Bytes, y \in Bytes : mac[ip] = <<x, y>>
  BY <1>1
<1>4. [mac[ip] EXCEPT ![i] = m] = IF i = 1 THEN <<m, y>> ELSE <<x, m>>
  BY <1>3
<1>. QED
  BY <1>1, <1>2, <1>3, <1>4

\* A message arrives.
LEMMA ArpRxKeeps ==
    ASSUME ArpInv, NEW ip \in Neighbours, NEW m \in Macs, NEW b \in BOOLEAN, ArpRx(ip, m, b)
    PROVE  ArpInv' /\ Grows /\ UNCHANGED pos
<1>0. /\ announced \in [Neighbours -> SUBSET Macs] /\ m \in Bytes /\ 1 \in {1, 2}
      /\ nxt \in [Nodes -> Nodes]
  BY DEF ArpInv, ArpTypeOK, Bytes
<1>1. /\ UNCHANGED <<nxt, tail, pos, answers>>
      /\ announced' = [announced EXCEPT ![ip] = @ \cup {m}]
      /\ rx'.msg.ip = ip /\ rx'.msg.mac = m /\ rx'.at \in {"copy", "fill"}
      /\ rx' \in [at : RxLabels, msg : [ip : Neighbours, mac : Macs \cup {Zero}, forUs : BOOLEAN]]
  BY DEF ArpRx, RxLabels
<1>2. /\ mac' \in [Neighbours -> Bytes \X Bytes]
      /\ \/ mac'[ip] = mac[ip]
         \/ mac'[ip][1] = m /\ mac'[ip][2] = mac[ip][2]
      /\ \A n \in Neighbours : n # ip => mac'[n] = mac[n]
  <2>1. CASE ip \in Cached
    <3>1. mac' = [mac EXCEPT ![ip][1] = m]
      BY <2>1 DEF ArpRx
    <3>. QED
      <4>1. /\ mac' \in [Neighbours -> Bytes \X Bytes] /\ mac'[ip][1] = m
            /\ \A j \in {1, 2} : j # 1 => mac'[ip][j] = mac[ip][j]
            /\ \A n \in Neighbours : n # ip => mac'[n] = mac[n]
        BY <1>0, <3>1, PartWritten, Zenon DEF ArpInv
      <4>. QED
        BY <4>1
  <2>2. CASE ip \notin Cached
    BY <2>2 DEF ArpRx, ArpInv, ArpTypeOK, Bytes
  <2>. QED
    BY <2>1, <2>2
<1>3. /\ announced' \in [Neighbours -> SUBSET Macs] /\ m \in announced'[ip]
      /\ \A n \in Neighbours : announced[n] \subseteq announced'[n]
  BY <1>0, <1>1
<1>4. Grows
  BY <1>2, <1>3 DEF Grows, Filled
<1>5. ArpTypeOK'
  BY <1>1, <1>2, <1>3 DEF ArpInv, ArpTypeOK, Bytes
<1>6. RxInv'
  BY <1>1, <1>3 DEF RxInv
<1>7. ListInv'
  BY <1>0, <1>1, <1>4 DEF ArpInv, ListInv, Grows
<1>8. AnswersInv'
  BY <1>1, <1>3 DEF ArpInv, ArpTypeOK, AnswersInv
<1>. QED
  BY <1>1, <1>4, <1>5, <1>6, <1>7, <1>8 DEF ArpInv

\* The steps of arp_rx that follow.
LEMMA ArpStepKeeps ==
    ASSUME ArpInv, ArpStep
    PROVE  ArpInv' /\ Grows /\ UNCHANGED pos
<1>. DEFINE ip == rx.msg.ip
            m == rx.msg.mac
<1>0. /\ ip \in Neighbours /\ m \in Bytes /\ nxt \in [Nodes -> Nodes] /\ tail \in Nodes
      /\ Neighbours \subseteq Nodes /\ arp_cache \in Nodes
      /\ announced \in [Neighbours -> SUBSET Macs] /\ 2 \in {1, 2}
      /\ mac \in [Neighbours -> Bytes \X Bytes]
      /\ rx \in [at : RxLabels, msg : [ip : Neighbours, mac : Macs \cup {Zero}, forUs : BOOLEAN]]
  BY DEF ArpInv, ArpTypeOK, Bytes, Nodes
<1>1. UNCHANGED <<pos, announced>>
  BY Zenon DEF ArpStep, ArpCopy, ArpFill, ListLink, ListClose, ListTail, ArpAnswer
<1>2. CASE ArpCopy
  <2>1. /\ rx.at = "copy" /\ rx' = [rx EXCEPT !.at = "answer"] /\ UNCHANGED <<nxt, tail, answers>>
        /\ mac' = [mac EXCEPT ![ip][2] = m] /\ m \in announced[ip]
    BY <1>2 DEF ArpCopy, RxGoto, ArpInv, RxInv
  <2>2. /\ mac' \in [Neighbours -> Bytes \X Bytes] /\ mac'[ip][2] = m /\ mac'[ip][1] = mac[ip][1]
        /\ \A n \in Neighbours : n # ip => mac'[n] = mac[n]
    BY <1>0, <2>1, PartWritten, SMTT(30) DEF ArpInv
  <2>3. Grows
    BY <1>1, <2>1, <2>2 DEF Grows, Filled
  <2>4. ArpTypeOK'
    BY <1>0, <1>1, <2>1, <2>2 DEF ArpInv, ArpTypeOK, Bytes, RxLabels
  <2>5. RxInv' /\ AnswersInv'
    BY <1>0, <1>1, <2>1 DEF ArpInv, RxInv, AnswersInv
  <2>6. ListInv'
    BY <1>0, <2>1, <2>3 DEF ArpInv, ListInv, Grows
  <2>. QED
    BY <1>1, <2>3, <2>4, <2>5, <2>6 DEF ArpInv
<1>3. CASE ArpFill
  <2>1. /\ rx.at = "fill" /\ rx' = [rx EXCEPT !.at = "link"] /\ UNCHANGED <<nxt, tail, answers>>
        /\ mac' = [mac EXCEPT ![ip] = <<m, m>>] /\ m \in announced[ip]
    BY <1>3 DEF ArpFill, RxGoto, ArpInv, RxInv
  <2>2. /\ mac' \in [Neighbours -> Bytes \X Bytes] /\ mac'[ip][2] = m /\ mac'[ip][1] = m
        /\ \A n \in Neighbours : n # ip => mac'[n] = mac[n]
    BY <1>0, <2>1
  <2>3. Grows /\ Filled(ip)'
    BY <1>1, <2>1, <2>2 DEF Grows, Filled
  <2>4. ArpTypeOK'
    BY <1>0, <1>1, <2>1, <2>2 DEF ArpInv, ArpTypeOK, Bytes, RxLabels
  <2>5. RxInv' /\ AnswersInv'
    BY <1>0, <1>1, <2>1, <2>3 DEF ArpInv, RxInv, AnswersInv
  <2>6. ListInv'
    BY <1>0, <2>1, <2>3 DEF ArpInv, ListInv, Grows
  <2>. QED
    BY <1>1, <2>3, <2>4, <2>5, <2>6 DEF ArpInv
<1>4. CASE ListLink \/ ListClose \/ ListTail
  <2>1. /\ rx.at \in {"link", "close", "tail"} /\ UNCHANGED <<mac, answers>> /\ Filled(ip)
        /\ \E l \in {"close", "tail", "answer"} : rx' = [rx EXCEPT !.at = l]
        /\ tail' \in {tail, ip}
        /\ \/ UNCHANGED nxt
           \/ nxt' = [nxt EXCEPT ![tail] = ip] \/ nxt' = [nxt EXCEPT ![ip] = arp_cache]
    BY <1>4 DEF ListLink, ListClose, ListTail, RxGoto, ArpInv, RxInv
  <2>2. \A n \in Neighbours : Filled(n)' <=> Filled(n)
    BY <1>1, <2>1 DEF Filled
  <2>3. Grows
    BY <1>1, <2>2 DEF Grows
  <2>4. ArpTypeOK'
    BY <1>0, <1>1, <2>1 DEF ArpInv, ArpTypeOK, RxLabels
  <2>5. RxInv' /\ AnswersInv'
    BY <1>0, <1>1, <2>1, <2>2 DEF ArpInv, RxInv, AnswersInv
  <2>6. ListInv'
    <3>1. \A n \in Nodes : \/ nxt'[n] = nxt[n] \/ (n = tail /\ nxt'[n] = ip)
                           \/ (n = ip /\ nxt'[n] = arp_cache)
      BY <1>0, <2>1
    <3>2. arp_cache \notin Neighbours
      BY ArpAssumption
    <3>3. ASSUME NEW k \in Neighbours, k # ip,
                 nxt'[k] # k \/ tail' = k \/ \E n \in Nodes : n # k /\ nxt'[n] = k
          PROVE  nxt[k] # k \/ tail = k \/ \E n \in Nodes : n # k /\ nxt[n] = k
      BY <1>0, <2>1, <3>1, <3>2, <3>3
    <3>4. ASSUME NEW k \in Neighbours,
                 nxt'[k] # k \/ tail' = k \/ \E n \in Nodes : n # k /\ nxt'[n] = k
          PROVE  Filled(k)
      BY <2>1, <3>3, <3>4 DEF ArpInv, ListInv
    <3>. QED
      BY <2>2, <3>4 DEF ListInv
  <2>. QED
    BY <1>1, <2>3, <2>4, <2>5, <2>6 DEF ArpInv
<1>5. CASE ArpAnswer
  <2>1. /\ UNCHANGED <<nxt, tail, mac>> /\ m \in announced[ip]
        /\ rx' = [at |-> "idle", msg |-> NoMessage]
        /\ answers' \subseteq answers \cup {[ip |-> ip, mac |-> m]}
    BY <1>5 DEF ArpAnswer, ArpInv, RxInv
  <2>2. \A n \in Neighbours : Filled(n)' <=> Filled(n)
    BY <1>1, <2>1 DEF Filled
  <2>3. Grows
    BY <1>1, <2>2 DEF Grows
  <2>4. ArpTypeOK'
    BY <1>0, <1>1, <2>1, ArpAssumption DEF ArpInv, ArpTypeOK, RxLabels, NoMessage
  <2>5. RxInv' /\ AnswersInv'
    BY <1>0, <1>1, <2>1 DEF ArpInv, RxInv, AnswersInv
  <2>6. ListInv'
    BY <1>0, <2>1, <2>2 DEF ArpInv, ListInv
  <2>. QED
    BY <1>1, <2>3, <2>4, <2>5, <2>6 DEF ArpInv
<1>. QED
  BY <1>2, <1>3, <1>4, <1>5 DEF ArpStep

\* What arp_rx does disturbs no walk and no reply.
LEMMA ArpKeepsEchoes ==
    ASSUME Inv, ArpInv', Grows, UNCHANGED <<pos, icmpVars>>
    PROVE  Inv'
<1>0. UNCHANGED <<at, src, retries, sub, hw, tries, sent, known>>
  BY DEF icmpVars
<1>1. WalkInv'
  BY DEF Inv, WalkInv, Grows
<1>2. ASSUME NEW e \in Echoes PROVE EchoOK(e)'
  <2>1. EchoOK(e) /\ Hop(e) \in Neighbours
    BY HopIsNeighbour DEF Inv, EchoInv, EchoOK, Hop
  <2>2. Hop(e)' = Hop(e)
    BY <1>0, Zenon DEF Hop
  <2>3. at[e] = "copy" => hw[e] \in announced'[Hop(e)] /\ Filled(Hop(e))'
    BY <2>1, <2>2, <1>0 DEF EchoOK, Grows
  <2>. QED
    BY <2>1, <2>2, <2>3, <1>0, Zenon DEF EchoOK
<1>3. ASSUME NEW f \in sent PROVE SentOK(f)'
  <2>1. SentOK(f) /\ f.echo \in Echoes /\ Hop(f.echo) \in Neighbours
    BY HopIsNeighbour DEF Inv, EchoInv, EchoTypes, SentOK, Hop
  <2>2. Hop(f.echo)' = Hop(f.echo)
    BY <1>0, Zenon DEF Hop
  <2>3. announced[Hop(f.echo)] \subseteq announced'[Hop(f.echo)]
    BY <2>1 DEF Grows
  <2>. QED
    BY <2>1, <2>2, <2>3, <1>0 DEF SentOK
<1>4. EchoTypes'
  BY <1>0, Zenon DEF Inv, EchoInv, EchoTypes
<1>. QED
  BY <1>0, <1>1, <1>2, <1>3, <1>4 DEF Inv, EchoInv

-----------------------------------------------------------------------------
(* The handling of an echo request.                                        *)

\* A step of the handling of e leaves the others alone, and sends for e only.
OnlyChanges(e) ==
    /\ \A d \in Echoes \ {e} :
          /\ at'[d] = at[d] /\ src'[d] = src[d] /\ retries'[d] = retries[d] /\ sub'[d] = sub[d]
          /\ hw'[d] = hw[d] /\ tries'[d] = tries[d] /\ known'[d] = known[d]
    /\ sent \subseteq sent' /\ \A f \in sent' \ sent : f.echo = e

\* It then matters only what becomes of e.
LEMMA EchoStep ==
    ASSUME Inv, NEW e \in Echoes, at[e] # "done", OnlyChanges(e), EchoTypes', EchoOK(e)',
           UNCHANGED <<mac, announced>>, \A f \in sent' \ sent : SentOK(f)'
    PROVE  EchoInv'
<1>1. ASSUME NEW d \in Echoes, d # e PROVE EchoOK(d)'
  <2>1. EchoOK(d)
    BY DEF Inv, EchoInv
  <2>2. /\ Hop(d)' = Hop(d) /\ Filled(Hop(d))' = Filled(Hop(d))
        /\ (\E f \in sent : f.echo = d) => \E f \in sent' : f.echo = d
    BY <1>1, Zenon DEF Hop, Filled, OnlyChanges
  <2>. QED
    BY <1>1, <2>1, <2>2 DEF EchoOK, OnlyChanges
<1>2. ASSUME NEW f \in sent PROVE SentOK(f)'
  <2>1. SentOK(f) /\ f.echo \in Echoes /\ f.echo # e
    BY DEF Inv, EchoInv, SentOK
  <2>2. Hop(f.echo)' = Hop(f.echo) /\ at'[f.echo] = at[f.echo]
    BY <2>1 DEF Hop, OnlyChanges
  <2>. QED
    BY <2>1, <2>2 DEF SentOK
<1>. QED
  BY <1>1, <1>2 DEF EchoInv

\* The rest of the cache and of arp_rx is as it was.
LEMMA CacheKept ==
    ASSUME Inv, UNCHANGED <<nxt, tail, mac, rx, announced, answers>>, pos' \in [Walkers -> Nodes]
    PROVE  ArpInv'
<1>1. \A ip \in Neighbours : Filled(ip)' <=> Filled(ip)
  BY DEF Filled
<1>2. ArpTypeOK'
  BY DEF Inv, ArpInv, ArpTypeOK
<1>3. RxInv' /\ AnswersInv'
  BY DEF Inv, ArpInv, RxInv, AnswersInv, Filled
<1>4. ListInv'
  BY <1>1 DEF Inv, ArpInv, ListInv
<1>. QED
  BY <1>2, <1>3, <1>4 DEF ArpInv

\* An attempt that found the next hop unknown, with n retries left.
LEMMA TryAgainKeeps ==
    ASSUME Inv, NEW e \in Echoes, NEW ip \in Sources, NEW n \in 0..ICMP_RETRY_COUNT,
           at[e] \in {"none", "walk"}, tries[e] + n = ICMP_RETRY_COUNT, TryAgain(e, n),
           src' = [src EXCEPT ![e] = ip], UNCHANGED <<mac, announced, hw, sent, known>>
    PROVE  EchoInv'
<1>0. EchoTypes /\ EchoOK(e) /\ ICMP_RETRY_COUNT \in Nat
  BY RetryAssumption DEF Inv, EchoInv
<1>1. /\ tries' = [tries EXCEPT ![e] = tries[e] + 1] /\ tries[e] \in Nat
      /\ \/ /\ n > 0 /\ at' = [at EXCEPT ![e] = "timer"]
            /\ retries' = [retries EXCEPT ![e] = n - 1] /\ sub' = [sub EXCEPT ![e] = "held"]
         \/ /\ n = 0 /\ at' = [at EXCEPT ![e] = "done"]
            /\ retries' = [retries EXCEPT ![e] = n] /\ sub' = [sub EXCEPT ![e] = "freed"]
  BY <1>0 DEF TryAgain, MayRetry, EchoTypes
<1>2. EchoTypes'
  BY <1>0, <1>1 DEF EchoTypes, EchoLabels
<1>3. OnlyChanges(e)
  BY <1>0, <1>1 DEF OnlyChanges, EchoTypes
<1>4. /\ tries'[e] = tries[e] + 1 /\ src'[e] = ip /\ hw'[e] = hw[e] /\ known'[e] = known[e]
      /\ \/ n > 0 /\ at'[e] = "timer" /\ retries'[e] = n - 1 /\ sub'[e] = "held"
         \/ n = 0 /\ at'[e] = "done" /\ retries'[e] = n /\ sub'[e] = "freed"
  BY <1>0, <1>1 DEF EchoTypes
<1>5. EchoOK(e)'
  BY <1>0, <1>1, <1>4 DEF EchoOK, EchoLabels
<1>. QED
  BY <1>2, <1>3, <1>5, EchoStep

\* A reply that is sent to bytes of its next hop.
LEMMA SentToKeeps ==
    ASSUME Inv, NEW e \in Echoes, NEW ip \in Sources, NEW first, NEW last,
           first \in announced[NextHop(ip)], last \in announced[NextHop(ip)],
           at[e] \in {"none", "copy"}, SentTo(e, first, last),
           src' = [src EXCEPT ![e] = ip], UNCHANGED <<mac, announced, retries, hw, known>>
    PROVE  EchoInv'
<1>. DEFINE frame == [echo |-> e, mac |-> <<first, last>>]
<1>0. EchoTypes /\ EchoOK(e) /\ ICMP_RETRY_COUNT \in Nat
  BY RetryAssumption DEF Inv, EchoInv
<1>1. first \in Bytes /\ last \in Bytes
  BY HopIsNeighbour DEF Inv, ArpInv, ArpTypeOK, Bytes
<1>2. /\ tries' = [tries EXCEPT ![e] = tries[e] + 1] /\ tries[e] \in Nat
      /\ at' = [at EXCEPT ![e] = "done"] /\ sub' = [sub EXCEPT ![e] = "freed"]
      /\ sent' = sent \cup {frame}
  BY <1>0 DEF SentTo, EchoTypes
<1>3. EchoTypes'
  BY <1>0, <1>2 DEF EchoTypes, EchoLabels
<1>4. OnlyChanges(e)
  BY <1>0, <1>2 DEF OnlyChanges, EchoTypes
<1>5. /\ tries'[e] = tries[e] + 1 /\ src'[e] = ip /\ hw'[e] = hw[e] /\ known'[e] = known[e]
      /\ at'[e] = "done" /\ retries'[e] = retries[e] /\ sub'[e] = "freed"
  BY <1>0, <1>2 DEF EchoTypes
<1>6. EchoOK(e)'
  <2>1. tries[e] + 1 \in 0..ICMP_RETRY_COUNT + 1
    BY <1>0 DEF EchoOK
  <2>2. \E f \in sent' : f.echo = e
    <3>1. frame \in sent' /\ frame.echo = e
      BY <1>2
    <3>. QED
      BY <3>1, Zenon
  <2>. QED
    BY <1>0, <1>5, <2>1, <2>2 DEF EchoOK, EchoLabels
<1>7. SentOK(frame)'
  BY <1>1, <1>5 DEF SentOK, Hop
<1>. QED
  BY <1>2, <1>3, <1>4, <1>6, <1>7, EchoStep

\* The receive thread takes a frame of an echo request.
LEMMA ReceiveKeeps ==
    ASSUME Inv, NEW e \in Echoes, NEW ip \in Sources, IpDrop(e) \/ IcmpDrop(e) \/ IcmpRx(e, ip)
    PROVE  Inv'
<1>0. EchoTypes /\ EchoOK(e) /\ at[e] = "none" /\ tries[e] = 0 /\ ICMP_RETRY_COUNT \in Nat
  BY RetryAssumption DEF Inv, EchoInv, EchoOK, IpDrop, IcmpDrop, IcmpRx
<1>1. UNCHANGED <<nxt, tail, mac, rx, pos, announced, answers>>
  BY Zenon DEF IpDrop, IcmpDrop, IcmpRx, arpVars
<1>2. ArpInv' /\ WalkInv'
  <2>1. pos' \in [Walkers -> Nodes]
    BY <1>1 DEF Inv, ArpInv, ArpTypeOK
  <2>2. WalkInv'
    BY <1>1, Zenon DEF Inv, WalkInv, Filled
  <2>. QED
    BY <1>1, <2>1, <2>2, CacheKept
<1>3. CASE IpDrop(e) \/ IcmpDrop(e)
  <2>1. /\ at' = [at EXCEPT ![e] = "done"] /\ UNCHANGED <<src, retries, hw, tries, sent, known>>
        /\ \E v \in {"freed", "leaked"} : sub' = [sub EXCEPT ![e] = v]
    BY <1>3, Zenon DEF IpDrop, IcmpDrop
  <2>2. EchoTypes'
    BY <1>0, <2>1 DEF EchoTypes, EchoLabels
  <2>3. OnlyChanges(e)
    BY <1>0, <2>1 DEF OnlyChanges, EchoTypes
  <2>4. at'[e] = "done" /\ sub'[e] \in {"freed", "leaked"}
    BY <1>0, <2>1 DEF EchoTypes
  <2>5. EchoOK(e)'
    BY <1>0, <2>1, <2>4, SMTT(30) DEF EchoOK, EchoLabels
  <2>6. EchoInv'
    BY <1>0, <1>1, <2>1, <2>2, <2>3, <2>5, EchoStep
  <2>. QED
    BY <1>2, <2>6 DEF Inv
<1>4. CASE IcmpRx(e, ip)
  <2>1. src' = [src EXCEPT ![e] = ip] /\ UNCHANGED <<hw, known>>
    BY <1>4, Zenon DEF IcmpRx
  <2>2. CASE NextHop(ip) \in Cached
    <3>1. /\ SentTo(e, mac[NextHop(ip)][1], mac[NextHop(ip)][2]) /\ UNCHANGED retries
      BY <1>4, <2>2 DEF IcmpRx
    <3>2. Filled(NextHop(ip))
      BY <2>2 DEF Cached, Inv, ArpInv, ListInv
    <3>3. EchoInv'
      BY <1>0, <1>1, <2>1, <3>1, <3>2, SentToKeeps DEF Filled
    <3>. QED
      BY <1>2, <3>3 DEF Inv
  <2>3. CASE NextHop(ip) \notin Cached
    <3>1. TryAgain(e, ICMP_RETRY_COUNT) /\ UNCHANGED sent
      BY <1>4, <2>3 DEF IcmpRx
    <3>2. ICMP_RETRY_COUNT \in 0..ICMP_RETRY_COUNT /\ tries[e] + ICMP_RETRY_COUNT = ICMP_RETRY_COUNT
      BY <1>0
    <3>3. EchoInv'
      BY <1>0, <1>1, <2>1, <3>1, <3>2, TryAgainKeeps
    <3>. QED
      BY <1>2, <3>3 DEF Inv
  <2>. QED
    BY <2>2, <2>3
<1>. QED
  BY <1>3, <1>4

\* icmp_reply_handler walks the cache and copies the address it finds.
LEMMA HandlerKeeps ==
    ASSUME Inv, NEW e \in Echoes, Handler(e)
    PROVE  Inv'
<1>0. /\ EchoTypes /\ EchoOK(e) /\ ICMP_RETRY_COUNT \in Nat /\ Hop(e) \in Neighbours
      /\ src' = [src EXCEPT ![e] = src[e]] /\ src[e] \in Sources
      /\ nxt \in [Nodes -> Nodes] /\ pos \in [Walkers -> Nodes] /\ arp_cache \in Nodes
      /\ e \in Walkers /\ Hop(e) = NextHop(src[e])
  <2>1. EchoTypes /\ EchoOK(e) /\ nxt \in [Nodes -> Nodes] /\ pos \in [Walkers -> Nodes]
    BY DEF Inv, EchoInv, ArpInv, ArpTypeOK
  <2>2. UNCHANGED src
    BY Zenon DEF Handler, HandlerStart, HandlerWalk, HandlerFound, HandlerTransmit, HandlerMiss,
                 icmpVars
  <2>3. src \in [Echoes -> Sources]
    BY <2>1 DEF EchoTypes
  <2>. QED
    BY <2>1, <2>2, <2>3, HopIsNeighbour, RetryAssumption DEF Nodes, Echoes, Hop
<1>1. UNCHANGED <<nxt, tail, mac, rx, announced, answers>>
  BY Zenon DEF Handler, HandlerStart, HandlerWalk, HandlerFound, HandlerTransmit, HandlerMiss,
               arpVars
<1>2. UNCHANGED pos \/ WalkStart(e) \/ WalkStep(e)
  BY Zenon DEF Handler, HandlerStart, HandlerWalk, HandlerFound, HandlerTransmit, HandlerMiss,
               arpVars
<1>3. pos' \in [Walkers -> Nodes]
  BY <1>0, <1>2 DEF WalkStart, WalkStep
<1>4. WalkInv'
  <2>1. \A w \in Walkers : \/ pos'[w] = pos[w] \/ pos'[w] = nxt[arp_cache] \/ pos'[w] = nxt[pos[w]]
    BY <1>0, <1>2 DEF WalkStart, WalkStep
  <2>2. \A ip \in Neighbours, n \in Nodes : nxt[n] = ip => n = ip \/ Filled(ip)
    BY DEF Inv, ArpInv, ListInv
  <2>3. ASSUME NEW w \in Walkers, NEW ip \in Neighbours, pos'[w] = ip PROVE Filled(ip)
    BY <1>0, <2>1, <2>2, <2>3, ArpAssumption DEF Inv, WalkInv
  <2>. QED
    BY <1>1, <2>3 DEF WalkInv, Filled
<1>5. ArpInv'
  BY <1>1, <1>3, CacheKept
<1>6. CASE HandlerTransmit(e)
  <2>1. /\ at[e] = "copy" /\ SentTo(e, hw[e], mac[Hop(e)][2]) /\ UNCHANGED <<retries, hw, known>>
    BY <1>6, Zenon DEF HandlerTransmit
  <2>2. hw[e] \in announced[Hop(e)] /\ mac[Hop(e)][2] \in announced[Hop(e)]
    BY <1>0, <2>1 DEF EchoOK, Filled
  <2>3. EchoInv'
    BY <1>0, <1>1, <2>1, <2>2, SentToKeeps
  <2>. QED
    BY <1>4, <1>5, <2>3 DEF Inv
<1>7. CASE HandlerMiss(e)
  <2>1. at[e] = "walk" /\ TryAgain(e, retries[e]) /\ UNCHANGED <<hw, sent, known>>
    BY <1>7, Zenon DEF HandlerMiss
  <2>2. retries[e] \in 0..ICMP_RETRY_COUNT /\ tries[e] + retries[e] = ICMP_RETRY_COUNT
    BY <1>0, <2>1 DEF EchoOK
  <2>3. EchoInv'
    BY <1>0, <1>1, <2>1, <2>2, TryAgainKeeps
  <2>. QED
    BY <1>4, <1>5, <2>3 DEF Inv
<1>8. CASE HandlerStart(e) \/ HandlerWalk(e) \/ HandlerFound(e)
  <2>1. /\ UNCHANGED <<src, retries, sub, tries, sent>> /\ at[e] \in {"timer", "walk"}
        /\ \/ /\ at' = [at EXCEPT ![e] = "walk"] /\ UNCHANGED hw
              /\ known' = [known EXCEPT ![e] = Linked]
           \/ UNCHANGED <<at, hw, known>> /\ at[e] = "walk"
           \/ /\ at' = [at EXCEPT ![e] = "copy"] /\ UNCHANGED known
              /\ hw' = [hw EXCEPT ![e] = mac[Hop(e)][1]] /\ Filled(Hop(e))
    <3>1. HandlerFound(e) => Filled(Hop(e))
      BY <1>0 DEF HandlerFound, Found, Inv, WalkInv
    <3>. QED
      BY <1>8, <3>1, Zenon DEF HandlerStart, HandlerWalk, HandlerFound, icmpVars
  <2>2. Linked \in SUBSET Neighbours /\ announced[Hop(e)] \subseteq Bytes
    BY <1>0 DEF Linked, Cached, Inv, ArpInv, ArpTypeOK, Bytes
  <2>3. EchoTypes'
    BY <1>0, <2>1, <2>2 DEF EchoTypes, EchoLabels, Filled
  <2>4. OnlyChanges(e)
    BY <1>0, <2>1 DEF OnlyChanges, EchoTypes
  <2>5. /\ at'[e] \in {"walk", "copy"}
        /\ at'[e] = "copy" => hw'[e] \in announced[Hop(e)] /\ Filled(Hop(e))
    BY <1>0, <2>1 DEF EchoTypes, Filled
  <2>6. Hop(e)' = Hop(e) /\ Filled(Hop(e))' = Filled(Hop(e))
    BY <1>1, <2>1, Zenon DEF Hop, Filled
  <2>7. at'[e] \in EchoLabels /\ hw'[e] \in Bytes /\ known'[e] \in SUBSET Neighbours
    BY <2>3 DEF EchoTypes
  <2>8. EchoOK(e)'
    BY <1>0, <1>1, <2>1, <2>5, <2>6, <2>7 DEF EchoOK
  <2>9. EchoInv'
    BY <1>1, <2>1, <2>3, <2>4, <2>8, EchoStep
  <2>. QED
    BY <1>4, <1>5, <2>9 DEF Inv
<1>. QED
  BY <1>6, <1>7, <1>8 DEF Handler

-----------------------------------------------------------------------------
(* All steps together.                                                     *)

\* The stack starts with an empty cache and no request in hand.
LEMMA InitInv == ASSUME Init PROVE Inv
<1>0. /\ Gateway \in Neighbours /\ Gateway \in Sources /\ arp_cache \notin Neighbours
      /\ ICMP_RETRY_COUNT \in Nat
  BY ArpAssumption, RetryAssumption DEF Sources
<1>1. ArpTypeOK
  BY <1>0 DEF Init, ArpInit, ArpTypeOK, RxLabels, NoMessage, Nodes
<1>2. RxInv /\ AnswersInv /\ WalkInv
  BY <1>0 DEF Init, ArpInit, RxInv, AnswersInv, WalkInv
<1>3. ListInv
  BY <1>0 DEF Init, ArpInit, ListInv, Nodes
<1>4. EchoTypes
  BY <1>0 DEF Init, EchoTypes, EchoLabels, Bytes
<1>5. ASSUME NEW e \in Echoes PROVE EchoOK(e)
  BY <1>0 DEF Init, EchoOK, EchoLabels, Bytes
<1>. QED
  BY <1>1, <1>2, <1>3, <1>4, <1>5 DEF Inv, ArpInv, EchoInv, Init

\* Every step of the receive thread and of the handlers keeps the invariant.
LEMMA NextInv == ASSUME Inv, [Next]_vars PROVE Inv'
<1>1. CASE \E ip \in Neighbours, m \in Macs, b \in BOOLEAN : ArpRx(ip, m, b) /\ UNCHANGED icmpVars
  BY <1>1, ArpRxKeeps, ArpKeepsEchoes DEF Inv
<1>2. CASE ArpStep /\ UNCHANGED icmpVars
  BY <1>2, ArpStepKeeps, ArpKeepsEchoes DEF Inv
<1>3. CASE \E e \in Echoes : IpDrop(e) \/ IcmpDrop(e) \/ \E ip \in Sources : IcmpRx(e, ip)
  <2>1. Gateway \in Sources
    BY ArpAssumption DEF Sources
  <2>. QED
    BY <1>3, <2>1, ReceiveKeeps
<1>4. CASE \E e \in Echoes : Handler(e)
  BY <1>4, HandlerKeeps
<1>5. CASE UNCHANGED vars
  <2>1. UNCHANGED <<nxt, tail, mac, rx, pos, announced, answers>> /\ UNCHANGED icmpVars
    BY <1>5, Zenon DEF vars, arpVars
  <2>2. ArpInv' /\ Grows
    <3>1. pos' \in [Walkers -> Nodes]
      BY <2>1 DEF Inv, ArpInv, ArpTypeOK
    <3>. QED
      BY <2>1, <3>1, CacheKept DEF Grows, Filled
  <2>. QED
    BY <2>1, <2>2, ArpKeepsEchoes
<1>. QED
  BY <1>1, <1>2, <1>3, <1>4, <1>5, Zenon DEF Next, Receive

\* The invariant holds in every reachable state.
THEOREM IcmpInvariant == Spec => []Inv
<1>. QED
  BY InitInv, NextInv, PTL DEF Spec

\* Every variable of the ARP cache and of the replies keeps its type, and no
\* reply counts more than ICMP_RETRY_COUNT + 1 attempts.
THEOREM IcmpTypes == Spec => []TypeOK
<1>1. Inv => TypeOK
  <2>. SUFFICES ASSUME Inv PROVE TypeOK
    OBVIOUS
  <2>1. /\ retries \in [Echoes -> 0..ICMP_RETRY_COUNT]
        /\ tries \in [Echoes -> 0..ICMP_RETRY_COUNT + 1]
    BY DEF Inv, EchoInv, EchoTypes, EchoOK
  <2>2. sent \subseteq [echo : Echoes, mac : (Macs \cup {Zero}) \X (Macs \cup {Zero})]
    BY DEF Inv, EchoInv, SentOK, Bytes
  <2>. QED
    BY <2>1, <2>2 DEF Inv, ArpInv, EchoInv, EchoTypes, TypeOK, Bytes
<1>. QED
  BY <1>1, IcmpInvariant, PTL

\* A reply goes to bytes its next hop has announced, although arp_get_hwaddr
\* and netdev_transmit read a list that arp_rx is changing: list_add_tail links
\* an entry after it has been filled in.
THEOREM FramesReachHop == Spec => []FrameForHop
<1>1. Inv => FrameForHop
  BY DEF Inv, ArpInv, AnswersInv, EchoInv, SentOK, FrameForHop
<1>. QED
  BY <1>1, IcmpInvariant, PTL

\* icmp_reply_handler gives a reply up only after all its attempts.
THEOREM AllAttemptsMade == Spec => []GivesUpLast
<1>1. Inv => GivesUpLast
  BY DEF Inv, EchoInv, EchoOK, GivesUpLast
<1>. QED
  BY <1>1, IcmpInvariant, PTL

-----------------------------------------------------------------------------
(* No walk misses a known entry.                                           *)

\* A walk from the head comes to ip.
Listed(ip) == Reaches(nxt, arp_cache, nxt[arp_cache], ip)

\* The stores of list_add_tail so far, by where arp_rx is.
AppendInv ==
    /\ rx.at \in {"fill", "link", "close"} => nxt[rx.msg.ip] = rx.msg.ip
    /\ rx.at = "tail" => nxt[rx.msg.ip] = arp_cache
    /\ nxt[tail] = IF rx.at \in {"close", "tail"} THEN rx.msg.ip ELSE arp_cache
    /\ rx.at = "close" => tail # rx.msg.ip

LinkedInv ==
    /\ tail # arp_cache => Listed(tail)
    /\ \A ip \in Linked : Listed(ip)

\* A walk still has before it what was on the list when it began.
Ahead(e) == at[e] = "walk" /\ Hop(e) \in known[e] => Reaches(nxt, arp_cache, pos[e], Hop(e))

ChainInv == AppendInv /\ LinkedInv /\ \A e \in Echoes : Ahead(e)

\* At most a store to the next pointer of the last entry, or of one that is
\* not linked yet.
SafeStore ==
    \/ UNCHANGED nxt
    \/ \E n, k \in Nodes : nxt[n] \in {n, arp_cache} /\ nxt' = [nxt EXCEPT ![n] = k]

LEMMA SafeStoreKeeps ==
    ASSUME ArpInv, SafeStore, NEW ip \in Neighbours
    PROVE  /\ \A x : Reaches(nxt, arp_cache, x, ip) => Reaches(nxt', arp_cache, x, ip)
           /\ Listed(ip) => Listed(ip)'
<1>0. nxt \in [Nodes -> Nodes] /\ arp_cache \in Nodes /\ ip # arp_cache
  BY ArpAssumption DEF ArpInv, ArpTypeOK, Nodes
<1>1. CASE UNCHANGED nxt
  BY <1>1 DEF Listed
<1>2. CASE ~UNCHANGED nxt
  <2>1. PICK n \in Nodes, k \in Nodes : nxt[n] \in {n, arp_cache} /\ nxt' = [nxt EXCEPT ![n] = k]
    BY <1>2 DEF SafeStore
  <2>2. \A x : Reaches(nxt, arp_cache, x, ip) => Reaches(nxt', arp_cache, x, ip)
    BY <1>0, <2>1, StoreKeepsReaches
  <2>3. Listed(ip) => Listed(ip)'
    BY <1>0, <2>1, StoreKeepsListed DEF Listed
  <2>. QED
    BY <2>2, <2>3
<1>. QED
  BY <1>1, <1>2

\* What arp_rx does keeps every walk on its way.
LEMMA OthersAhead ==
    ASSUME Inv, ChainInv, SafeStore, UNCHANGED <<pos, icmpVars>>
    PROVE  \A e \in Echoes : Ahead(e)'
<1>. SUFFICES ASSUME NEW e \in Echoes, (at[e] = "walk" /\ Hop(e) \in known[e])'
              PROVE  Reaches(nxt, arp_cache, pos[e], Hop(e))'
  BY DEF Ahead
<1>1. Hop(e)' = Hop(e) /\ UNCHANGED <<at, known>>
  BY DEF icmpVars, Hop
<1>2. Hop(e) \in Neighbours
  BY HopIsNeighbour DEF Inv, EchoInv, EchoOK, Hop
<1>3. Reaches(nxt, arp_cache, pos[e], Hop(e))
  BY <1>1 DEF ChainInv, Ahead
<1>4. PICK ip \in Neighbours : ip = Hop(e)
  BY <1>2
<1>5. Reaches(nxt', arp_cache, pos[e], ip)
  BY <1>3, <1>4, SafeStoreKeeps DEF Inv
<1>. QED
  BY <1>1, <1>4, <1>5

LEMMA ArpRxChain ==
    ASSUME Inv, ChainInv, NEW ip \in Neighbours, NEW m \in Macs, NEW b \in BOOLEAN, ArpRx(ip, m, b)
    PROVE  AppendInv' /\ LinkedInv' /\ SafeStore
<1>1. /\ UNCHANGED <<nxt, tail>> /\ rx.at = "idle" /\ rx'.msg.ip = ip
      /\ rx'.at = IF ip \in Cached THEN "copy" ELSE "fill"
  BY DEF ArpRx
<1>2. Linked' = Linked
  BY <1>1 DEF Linked, Cached
<1>3. AppendInv'
  BY <1>1 DEF ChainInv, AppendInv, Cached
<1>4. LinkedInv'
  BY <1>1, <1>2 DEF ChainInv, LinkedInv, Listed
<1>. QED
  BY <1>1, <1>3, <1>4 DEF SafeStore

\* list_add_tail and the other steps of arp_rx.
LEMMA ArpStepChain ==
    ASSUME Inv, ChainInv, ArpStep
    PROVE  AppendInv' /\ LinkedInv' /\ SafeStore
<1>0. /\ rx.msg.ip \in Neighbours /\ rx.msg.ip \in Nodes /\ nxt \in [Nodes -> Nodes] /\ tail \in Nodes
      /\ arp_cache \in Nodes /\ arp_cache \notin Neighbours /\ rx.at \in RxLabels
      /\ DOMAIN rx = {"at", "msg"}
  BY ArpAssumption DEF Inv, ArpInv, ArpTypeOK, Nodes
<1>1. PICK ip \in Neighbours : ip = rx.msg.ip
  BY <1>0
<1>2. AppendInv /\ LinkedInv
  BY DEF ChainInv
<1>3. CASE ArpCopy \/ ArpFill \/ ArpAnswer
  <2>1. /\ UNCHANGED <<nxt, tail>> /\ rx.at \in {"copy", "fill", "answer"}
        /\ rx'.at \in {"answer", "link", "idle"}
        /\ rx'.at = "link" => rx.at = "fill" /\ rx'.msg = rx.msg
    BY <1>0, <1>3 DEF ArpCopy, ArpFill, ArpAnswer, RxGoto
  <2>2. Linked' = Linked
    BY <2>1 DEF Linked, Cached
  <2>3. AppendInv'
    BY <1>2, <2>1 DEF AppendInv
  <2>4. LinkedInv'
    BY <1>2, <2>1, <2>2 DEF LinkedInv, Listed
  <2>. QED
    BY <2>1, <2>3, <2>4 DEF SafeStore
<1>4. CASE ListLink
  <2>1. /\ UNCHANGED tail /\ nxt' = [nxt EXCEPT ![tail] = ip] /\ rx.at = "link"
        /\ rx'.at = "close" /\ rx'.msg.ip = ip
    BY <1>0, <1>1, <1>4 DEF ListLink, RxGoto
  <2>2. nxt[ip] = ip /\ nxt[tail] = arp_cache /\ tail # ip
    BY <1>0, <1>1, <1>2, <2>1 DEF AppendInv
  <2>3. /\ nxt'[tail] = ip /\ \A n \in Nodes : n # tail => nxt'[n] = nxt[n]
    BY <1>0, <2>1
  <2>4. AppendInv'
    BY <1>0, <1>1, <2>1, <2>2, <2>3 DEF AppendInv
  <2>5. SafeStore
    BY <1>0, <1>1, <2>1, <2>2 DEF SafeStore
  <2>6. Listed(ip)'
    <3>1. tail # arp_cache => Reaches(nxt, arp_cache, nxt[arp_cache], tail)
      BY <1>2 DEF LinkedInv, Listed
    <3>2. nxt \in [Nodes -> Nodes] /\ arp_cache \in Nodes /\ tail \in Nodes /\ ip \in Nodes
          /\ nxt[tail] = arp_cache
      BY <1>0, <1>1, <2>2
    <3>3. Reaches([nxt EXCEPT ![tail] = ip], arp_cache, [nxt EXCEPT ![tail] = ip][arp_cache], ip)
      BY <3>1, <3>2, AppendedIsListed, Zenon
    <3>. QED
      BY <2>1, <3>3 DEF Listed
  <2>7. \A n \in Neighbours : n \in Linked' => n \in Linked \/ n = ip
    <3>1. \A n \in Neighbours : nxt'[n] # n => nxt[n] # n
      BY <1>0, <2>1, <2>2, <2>3 DEF Nodes
    <3>. QED
      BY <2>1, <3>1 DEF Linked, Cached
  <2>8. Linked' \subseteq Neighbours
    BY <1>0, <1>1, <2>1 DEF Linked, Cached
  <2>9. ASSUME NEW n \in Linked' PROVE Listed(n)'
    BY <1>2, <2>5, <2>6, <2>7, <2>8, SafeStoreKeeps DEF LinkedInv, Inv
  <2>10. tail' # arp_cache => Reaches(nxt', arp_cache, nxt'[arp_cache], tail')
    <3>1. tail # arp_cache => tail \in Neighbours /\ Listed(tail)
      BY <1>0, <1>2 DEF Nodes, LinkedInv
    <3>2. ASSUME NEW n \in Neighbours, Listed(n) PROVE Reaches(nxt', arp_cache, nxt'[arp_cache], n)
      BY <2>5, <3>2, SafeStoreKeeps DEF Listed, Inv
    <3>. QED
      BY <2>1, <3>1, <3>2
  <2>. QED
    BY <2>4, <2>5, <2>9, <2>10 DEF LinkedInv, Listed
<1>5. CASE ListClose
  <2>1. /\ UNCHANGED tail /\ nxt' = [nxt EXCEPT ![ip] = arp_cache] /\ rx.at = "close"
        /\ rx'.at = "tail" /\ rx'.msg.ip = ip
    BY <1>0, <1>1, <1>5 DEF ListClose, RxGoto
  <2>2. nxt[ip] = ip /\ nxt[tail] = ip /\ tail # ip
    BY <1>0, <1>1, <1>2, <2>1 DEF AppendInv
  <2>3. /\ nxt'[ip] = arp_cache /\ \A n \in Nodes : n # ip => nxt'[n] = nxt[n]
    BY <1>0, <1>1, <2>1
  <2>4. AppendInv'
    BY <1>0, <1>1, <2>1, <2>2, <2>3 DEF AppendInv
  <2>5. SafeStore
    BY <1>0, <1>1, <2>1, <2>2 DEF SafeStore
  <2>6. Linked' \subseteq Linked /\ Linked \subseteq Neighbours
    <3>1. \A n \in Neighbours : nxt'[n] # n => nxt[n] # n \/ n = ip
      BY <2>3 DEF Nodes
    <3>2. ip \in Linked
      BY <1>1, <2>1 DEF Linked
    <3>. QED
      BY <1>0, <2>1, <3>1, <3>2 DEF Linked, Cached
  <2>7. ASSUME NEW n \in Linked' PROVE Listed(n)'
    BY <1>2, <2>5, <2>6, SafeStoreKeeps DEF LinkedInv, Inv
  <2>8. tail' # arp_cache => Reaches(nxt', arp_cache, nxt'[arp_cache], tail')
    <3>1. tail # arp_cache => tail \in Neighbours /\ Listed(tail)
      BY <1>0, <1>2 DEF Nodes, LinkedInv
    <3>2. ASSUME NEW n \in Neighbours, Listed(n) PROVE Reaches(nxt', arp_cache, nxt'[arp_cache], n)
      BY <2>5, <3>2, SafeStoreKeeps DEF Listed, Inv
    <3>. QED
      BY <2>1, <3>1, <3>2
  <2>. QED
    BY <2>4, <2>5, <2>7, <2>8 DEF LinkedInv, Listed
<1>6. CASE ListTail
  <2>1. /\ UNCHANGED nxt /\ tail' = ip /\ rx.at = "tail" /\ rx'.at = "answer"
    BY <1>0, <1>1, <1>6 DEF ListTail, RxGoto
  <2>2. nxt[ip] = arp_cache
    BY <1>1, <1>2, <2>1 DEF AppendInv
  <2>3. Linked' = Linked /\ ip \in Linked
    BY <1>0, <2>1, <2>2 DEF Linked, Cached
  <2>4. AppendInv'
    BY <2>1, <2>2 DEF AppendInv
  <2>5. LinkedInv'
    BY <1>2, <2>1, <2>3 DEF LinkedInv, Listed
  <2>. QED
    BY <2>1, <2>4, <2>5 DEF SafeStore
<1>. QED
  BY <1>3, <1>4, <1>5, <1>6 DEF ArpStep

\* The handling of requests leaves the list alone; a walk starts before all of
\* it, and passes only what it does not look for.
LEMMA EchoChain ==
    ASSUME Inv, ChainInv, NEW e \in Echoes,
           Handler(e) \/ IpDrop(e) \/ IcmpDrop(e) \/ \E ip \in Sources : IcmpRx(e, ip)
    PROVE  ChainInv'
<1>0. /\ EchoTypes /\ nxt \in [Nodes -> Nodes] /\ pos \in [Walkers -> Nodes] /\ e \in Walkers
      /\ arp_cache \in Nodes /\ arp_cache \notin Neighbours
      /\ \A d \in Echoes : Hop(d) \in Neighbours
  BY ArpAssumption, HopIsNeighbour DEF Inv, EchoInv, EchoOK, ArpInv, ArpTypeOK, Echoes, Nodes, Hop
<1>. USE DEF Handler, HandlerStart, HandlerWalk, HandlerFound, HandlerTransmit, HandlerMiss, IpDrop,
         IcmpDrop, IcmpRx
<1>1. UNCHANGED <<nxt, tail, rx>>
  BY Zenon DEF arpVars
<1>2. UNCHANGED pos \/ WalkStart(e) \/ WalkStep(e)
  BY Zenon DEF arpVars
<1>3. /\ UNCHANGED at \/ \E l : at' = [at EXCEPT ![e] = l]
      /\ UNCHANGED src \/ \E ip : src' = [src EXCEPT ![e] = ip]
      /\ UNCHANGED known \/ \E s : known' = [known EXCEPT ![e] = s]
  BY Zenon DEF icmpVars, TryAgain, SentTo
<1>. HIDE DEF Handler, HandlerStart, HandlerWalk, HandlerFound, HandlerTransmit, HandlerMiss, IpDrop,
         IcmpDrop, IcmpRx
<1>4. AppendInv' /\ LinkedInv'
  BY <1>1 DEF ChainInv, AppendInv, LinkedInv, Linked, Cached, Listed
<1>5. ASSUME NEW d \in Echoes, d # e PROVE Ahead(d)'
  <2>1. at'[d] = at[d] /\ src'[d] = src[d] /\ known'[d] = known[d]
    BY <1>0, <1>3, <1>5 DEF EchoTypes
  <2>2. pos'[d] = pos[d]
    BY <1>0, <1>2, <1>5 DEF WalkStart, WalkStep, Echoes
  <2>3. Hop(d)' = Hop(d)
    BY <2>1 DEF Hop
  <2>. QED
    BY <1>1, <2>1, <2>2, <2>3 DEF ChainInv, Ahead
<1>6. Ahead(e)'
  <2>1. CASE HandlerStart(e)
    <3>1. /\ pos'[e] = nxt[arp_cache] /\ known'[e] = Linked /\ UNCHANGED src
      BY <1>0, <2>1 DEF HandlerStart, WalkStart, EchoTypes
    <3>2. Hop(e)' = Hop(e)
      BY <3>1 DEF Hop
    <3>. QED
      BY <1>1, <3>1, <3>2 DEF ChainInv, LinkedInv, Listed, Ahead
  <2>2. CASE HandlerWalk(e)
    <3>1. /\ at[e] = "walk" /\ pos[e] # Hop(e) /\ pos[e] # arp_cache /\ UNCHANGED <<at, src, known>>
          /\ pos'[e] = nxt[pos[e]] /\ pos[e] \in Nodes
      BY <1>0, <2>2 DEF HandlerWalk, WalkStep, Found, NotFound, icmpVars
    <3>2. Hop(e)' = Hop(e)
      BY <3>1 DEF Hop
    <3>3. Hop(e) \in known[e] => Reaches(nxt, arp_cache, nxt[pos[e]], Hop(e))
      BY <1>0, <3>1, ReachesOn DEF ChainInv, Ahead
    <3>. QED
      BY <1>1, <3>1, <3>2, <3>3 DEF Ahead
  <2>3. CASE ~HandlerStart(e) /\ ~HandlerWalk(e)
    <3>1. at'[e] # "walk"
      <4>1. CASE HandlerFound(e) \/ IpDrop(e) \/ IcmpDrop(e)
        BY <1>0, <4>1 DEF HandlerFound, IpDrop, IcmpDrop, EchoTypes
      <4>2. CASE HandlerTransmit(e)
        BY <1>0, <4>2 DEF HandlerTransmit, SentTo, EchoTypes
      <4>3. CASE HandlerMiss(e)
        BY <1>0, <4>3 DEF HandlerMiss, TryAgain, EchoTypes
      <4>4. CASE \E ip \in Sources : IcmpRx(e, ip)
        BY <1>0, <4>4 DEF IcmpRx, TryAgain, SentTo, EchoTypes
      <4>. QED
        BY <2>3, <4>1, <4>2, <4>3, <4>4, Zenon DEF Handler
    <3>. QED
      BY <3>1 DEF Ahead
  <2>. QED
    BY <2>1, <2>2, <2>3
<1>. QED
  BY <1>4, <1>5, <1>6 DEF ChainInv

\* For any number of neighbours and walks: arp_get_hwaddr does not miss an
\* entry that was linked when the walk began, whatever list_add_tail does to the
\* list meanwhile.
THEOREM WalksFindKnown == Spec => []KnownIsFound
<1>1. Init => ChainInv
  <2>. SUFFICES ASSUME Init PROVE ChainInv
    OBVIOUS
  <2>1. /\ arp_cache \in Nodes /\ arp_cache \notin Neighbours /\ tail = arp_cache
        /\ rx.at = "idle" /\ \A n \in Nodes : nxt[n] = n
        /\ \A e \in Echoes : at[e] = "none"
    BY ArpAssumption DEF Init, ArpInit, Nodes
  <2>2. Linked = {}
    BY <2>1 DEF Linked, Cached, Nodes
  <2>. QED
    BY <2>1, <2>2 DEF ChainInv, AppendInv, LinkedInv, Ahead
<1>2. Inv /\ ChainInv /\ [Next]_vars => ChainInv'
  <2>. SUFFICES ASSUME Inv, ChainInv, [Next]_vars PROVE ChainInv'
    OBVIOUS
  <2>1. CASE \E ip \in Neighbours, m \in Macs, b \in BOOLEAN : ArpRx(ip, m, b) /\ UNCHANGED icmpVars
    <3>1. UNCHANGED <<pos, icmpVars>>
      BY <2>1 DEF ArpRx
    <3>. QED
      BY <2>1, <3>1, ArpRxChain, OthersAhead DEF ChainInv
  <2>2. CASE ArpStep /\ UNCHANGED icmpVars
    <3>1. UNCHANGED <<pos, icmpVars>>
      BY <2>2, Zenon DEF ArpStep, ArpCopy, ArpFill, ListLink, ListClose, ListTail, ArpAnswer
    <3>. QED
      BY <2>2, <3>1, ArpStepChain, OthersAhead DEF ChainInv
  <2>3. CASE \E e \in Echoes : \/ Handler(e) \/ IpDrop(e) \/ IcmpDrop(e)
                               \/ \E ip \in Sources : IcmpRx(e, ip)
    BY <2>3, EchoChain
  <2>4. CASE UNCHANGED vars
    <3>1. UNCHANGED <<nxt, tail, rx, pos, at, src, known>>
      BY <2>4, Zenon DEF vars, arpVars, icmpVars
    <3>. QED
      BY <3>1 DEF ChainInv, AppendInv, LinkedInv, Linked, Cached, Listed, Ahead, Hop
  <2>. QED
    BY <2>1, <2>2, <2>3, <2>4, Zenon DEF Next, Receive
<1>3. Inv /\ ChainInv => KnownIsFound
  <2>. SUFFICES ASSUME Inv, ChainInv, NEW e \in Echoes, at[e] = "walk", pos[e] = arp_cache
                PROVE  Hop(e) \notin known[e]
    BY DEF KnownIsFound
  <2>1. Hop(e) \in Neighbours /\ nxt \in [Nodes -> Nodes] /\ arp_cache \in Nodes
    BY HopIsNeighbour DEF Inv, EchoInv, EchoOK, Hop, ArpInv, ArpTypeOK, Nodes
  <2>2. ~Reaches(nxt, arp_cache, arp_cache, Hop(e))
    BY <2>1, ArpAssumption, HeadReachesNone
  <2>. QED
    BY <2>2 DEF ChainInv, Ahead
<1>. QED
  BY <1>1, <1>2, <1>3, IcmpInvariant, PTL DEF Spec
=============================================================================
