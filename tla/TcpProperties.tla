--------------------------- MODULE TcpProperties ---------------------------
(***************************************************************************)
(* What the TCP layer is to guarantee: the invariants, step properties and *)
(* liveness properties of module Tcp, and the fairness the latter need.    *)
(***************************************************************************)
EXTENDS Tcp

AppLabels == {"idle", "tx", "tx_add", "tx_wait", "connect_sent", "connect_wait",
              "connect_woken", "recv_lock", "recv_wait", "recv_woken", "close_lock",
              "close_sent", "close_wait", "close_woken"}
RxLabels == {"idle", "rx_tcb", "rx_send", "rx_state", "tx", "tx_add", "rx_established",
             "rx_opened", "rx_text", "rx_wake", "rx_fin", "rx_time_wait", "rx_done"}
RtxLabels == {"idle", "rtx_scan", "rtx_give_up"}
Labels == AppLabels \cup RxLabels \cup RtxLabels \cup {"tw_lock", "tw_stop"}
Segments == [conn : Conns \cup {Free}, flags : SUBSET {"SYN", "ACK", "FIN", "PSH", "RST"},
             seq : 0..SeqSpace - 1, ack : 0..SeqSpace - 1, pos : Nat, len : Nat, win : Nat]
TxCalls == [flags : {"SYN", "SYNACK", "ACK", "FINACK"}, size : Nat, sent : Nat,
            retries : Int, ret : Labels]

\* Every variable has its type.
TypeOK ==
    /\ life \in [Conns -> {"none", "live", "freed"}]
    /\ state \in [Conns -> States]
    /\ snd_una \in [Conns -> 0..SeqSpace - 1] /\ snd_nxt \in [Conns -> 0..SeqSpace - 1]
    /\ rcv_nxt \in [Conns -> 0..SeqSpace - 1] /\ snd_wnd \in [Conns -> Nat]
    /\ rcv_buff \in [Conns -> [0..TCP_RCV_MAX - 1 -> Int]]
    /\ rcv_buff_len \in [Conns -> 0..TCP_RCV_MAX]
    /\ tcb_lock \in [Conns -> Threads \cup {Free}]
    /\ send_lock \in [Conns -> Threads \cup {Free}]
    /\ msg_arr_lock \in {RTX, Free}
    /\ messages_array \subseteq Messages /\ todo \subseteq Messages
    /\ pc \in [Threads -> Labels]
    /\ tx \in [Senders -> TxCalls] /\ seg \in Segments
    /\ prog \in [Apps -> Seq(Calls)]
    /\ p_rcv \in [Conns -> Nat] /\ p_fin \in [Conns -> BOOLEAN]
    /\ resolved \subseteq LiveHops /\ crashed \in BOOLEAN
    /\ queued \in [Conns -> Nat] /\ read \in [Conns -> Nat] /\ fin_rcvd \in [Conns -> BOOLEAN]

\* The bytes of the peer's stream taken so far, and the peer's sequence
\* numbers that go with them: its SYN, those bytes, its FIN.
Taken(c) == read[c] + rcv_buff_len[c]
RcvEdge(c) == Plus(IRS[c], 1 + Taken(c) + (IF fin_rcvd[c] THEN 1 ELSE 0))

\* A peer's stream is shorter than the sequence space, so that no segment of an
\* earlier turn of the sequence numbers is still on its way.
ASSUME StreamsFit == \A c \in Conns : PeerLen[c] < SeqSpace

\* The receive buffer holds, in order and without gap or repetition, the bytes
\* of the peer's stream that follow those recv has handed out, and rcv_nxt is
\* the sequence number after the last of them: loss, duplication, reordering
\* and partial acceptance by save_data_and_ack never corrupt what recv returns.
RcvStream ==
    \A c \in Conns :
        /\ Taken(c) <= PeerLen[c]
        /\ \A i \in 0..rcv_buff_len[c] - 1 : rcv_buff[c][i] = read[c] + i
        /\ state[c] \notin {"CLOSED", "SYN_SENT"} => rcv_nxt[c] = RcvEdge(c)

\* An acknowledgement in messages_array never covers a byte that the receive
\* buffer had no room for: the peer may forget only what recv can return.  (The
\* sequence number of the peer's FIN is counted as tcp_rx counts it.)
AckedIsStored ==
    \A m \in messages_array :
        m.flags # "SYN" =>
            Minus(m.ack, IRS[m.conn]) <= 1 + Taken(m.conn) + (IF fin_rcvd[m.conn] THEN 1 ELSE 0)

\* The sequence numbers entry m carries, counted from our initial one.
First(m) == Minus(m.seq, ISS[m.conn])
Carries(m, k) == First(m) <= k /\ k < First(m) + m.len

\* Every byte that send has taken and the peer has not is in an entry of
\* messages_array that will be sent again and still has its bytes.
NoDataLoss ==
    \A c \in Conns : life[c] # "freed" =>
        \A k \in 1..queued[c] : k >= p_rcv[c] =>
            \E m \in messages_array :
                m.conn = c /\ Carries(m, k) /\ m.retries = RETRIES_INFINITE /\ ~m.dangling

\* A connection is never taken for established before the peer has our SYN.
EstablishedBySyn ==
    \A c \in Conns :
        state[c] \in {"ESTABLISHED", "FIN_WAIT_1", "FIN_WAIT_2", "TIME_WAIT"} => p_rcv[c] > 0

\* The two places that return with a mutex locked are the only ones: tcp_rx
\* after a FIN in ESTABLISHED, close outside ESTABLISHED.  No other exit of
\* tcp_rx, tcp_tx, a socket call or close_connection leaves one behind.
LocksAreReleased ==
    \A c \in Conns :
        /\ tcb_lock[c] = RX /\ seg.conn # c => fin_rcvd[c] /\ state[c] = "ESTABLISHED"
        /\ \A a \in Apps : tcb_lock[c] = a /\ pc[a] = "idle" => state[c] # "ESTABLISHED"
        /\ tcb_lock[c] = c => pc[c] = "tw_stop"
        /\ send_lock[c] # Free => pc[send_lock[c]] \in {"tx_add", "rx_state"}

\* close frees the tcb, and returns 0, only after the peer's FIN: a wake-up
\* without one, spurious or meant for another, makes it return -1.
CloseIsAnswered == \A c \in Conns : life[c] = "freed" => fin_rcvd[c]

\* A thread blocked in recv that is woken finds data: no signal meant for
\* another purpose (retries used up, a handshake) makes recv return 0.
RecvReturnsData ==
    [][\A a \in Apps : pc[a] = "recv_woken" /\ pc'[a] = "idle" =>
           read'[AppConn[a]] > read[AppConn[a]]]_vars

-----------------------------------------------------------------------------
(* Fairness.  A thread that can go on does; one that finds the mutex it    *)
(* waits for free again and again gets it; the application makes its calls.*)

ThreadFairness ==
    /\ \A a \in Apps : SF_vars(~crashed /\ App(a))
    /\ SF_vars(~crashed /\ RxStep)
    /\ \A c \in Conns : SF_vars(~crashed /\ TimeWait(c)) /\ SF_vars(~crashed /\ RxArpReply(Hop[c]))
    /\ SF_vars(~crashed /\ Rtx)

\* A peer that is up: what is sent to it again and again reaches it, and the
\* acknowledgements it repeats reach us.
Reaches(c) ==
    /\ ~crashed /\ \E m \in messages_array : m.conn = c /\ RtxSend(m)
    /\ p_rcv'[c] > p_rcv[c]
AckArrives(c) ==
    /\ ~crashed /\ RxSegment(c)
    /\ seg'.conn = c /\ seg'.flags = {"ACK"} /\ seg'.len = 0
    /\ seg'.ack = Plus(ISS[c], p_rcv[c]) /\ \A w \in Windows : w <= seg'.win
PeerFairness == \A c \in Conns : SF_vars(Reaches(c)) /\ SF_vars(AckArrives(c))

LocalFairSpec == Spec /\ ThreadFairness
FairSpec == LocalFairSpec /\ PeerFairness

\* connect returns: its SYN is answered or its attempts run out.
ConnectReturns == \A a \in Apps : pc[a] = "connect_wait" ~> pc[a] = "idle"

\* tcp_retransmit_handler, out of attempts, waits for tcb_lock with msg_arr_lock
\* held, and the holder of tcb_lock waits for msg_arr_lock.
LockCycle ==
    /\ pc[RTX] = "rtx_give_up"
    /\ \E m \in messages_array :
         /\ m.retries = 0 /\ tcb_lock[m.conn] # Free
         /\ pc[tcb_lock[m.conn]] \in {"rx_state", "tx_add"}

\* Opposite lock orders are the only thing that keeps connect from returning,
\* whether the peer answers, answers late or stays silent: after the attempts
\* of RETRIES_CONN_MAX have run out the handler wakes connect.
ConnectReturnsUnlessLocked ==
    \A a \in Apps : pc[a] = "connect_wait" ~> (pc[a] = "idle" \/ []LockCycle)

\* send returns: a sender that waits for the window is woken.
SendReturns == \A a \in Apps : tx[a].retries = RETRIES_INFINITE ~> pc[a] = "idle"

\* All that send has taken reaches the peer.
DataReachesPeer == \A c \in Conns : queued[c] > 0 ~> p_rcv[c] > queued[c]

\* Once all is acknowledged nothing is sent again: stop_retransmit empties
\* messages_array of every entry that would be sent forever.
RetransmissionStops ==
    <>[](\A m \in messages_array : m.retries # RETRIES_INFINITE)

\* A reader waiting in recv is woken by, and returns with, data the peer has
\* pushed.
PushWakesReader ==
    \A a \in Apps :
        pc[a] = "recv_wait" /\ RxAt("rx_wake") /\ seg.conn = AppConn[a] /\ "PSH" \in seg.flags
            ~> pc[a] = "idle"

\* close returns once the peer has our FIN and keeps answering with its own:
\* the client's "OK: shutdown was fine. Good bye!".
CloseReturns ==
    \A a \in Apps : pc[a] = "close_wait" /\ p_fin[AppConn[a]] ~> pc[a] = "idle"
FinArrives(c) ==
    /\ ~crashed /\ RxSegment(c)
    /\ seg'.conn = c /\ seg'.flags = {"ACK", "FIN"} /\ seg'.len = 0
    /\ seg'.ack = Plus(ISS[c], p_rcv[c])
ClosingFairSpec == FairSpec /\ \A c \in Conns : SF_vars(FinArrives(c))

\* "Make sure that the message is on the wire" (tcp.c): the loop around
\* ip_output ends when the next hop it waits for answers ARP requests.
NextHopIsResolved ==
    \A c \in Conns :
        (/\ pc[RTX] = "rtx_scan" /\ \E m \in todo : m.conn = c /\ Hop[c] \in LiveHops
         /\ \A m \in todo : Hop[m.conn] \notin resolved)
            ~> pc[RTX] = "rtx_scan" /\ Hop[c] \in resolved
=============================================================================
