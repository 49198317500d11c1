-------------------------------- MODULE Tcp --------------------------------
(***************************************************************************)
(* The TCP layer of the stack (src/tcp.c) together with the socket calls   *)
(* that drive it (connect, send, recv, close of src/anpwrapper.c).         *)
(*                                                                         *)
(* Threads: the application threads in Apps; RX, the thread that runs      *)
(* netdev_rx_loop and so every tcp_rx; RTX, the chain of one-shot timer    *)
(* threads that run tcp_retransmit_handler; and, for each connection c,    *)
(* the one-shot thread that runs close_connection, named c itself.  An     *)
(* action is the code a thread runs between two points where it may block  *)
(* (a mutex, a condition variable), so every interleaving the mutexes      *)
(* allow is a behaviour.                                                   *)
(*                                                                         *)
(* Data: a byte of a stream is its offset in that stream.  The entries of  *)
(* messages_array are kept as a set: the handler sends every entry in each *)
(* pass and the network reorders, so the order of the list is immaterial.  *)
(*                                                                         *)
(* Environment: the peers are correct TCPs behind a network that loses,    *)
(* delays, reorders and duplicates.  Inbound(c) is the set of all segments *)
(* peer c may have sent by now, any of which may arrive at any time, any   *)
(* number of times.  Allocation failures are not modelled.                 *)
(***************************************************************************)
EXTENDS Integers, Sequences, FiniteSets

CONSTANTS
    Conns,              \* the connections, one struct tcb each
    Apps,               \* the application threads
    AppConn,            \* the connection whose socket an application uses
    Programs,           \* the call sequences the applications may run
    RX, RTX,            \* the receive thread and the retransmission thread
    Free,               \* the owner of a mutex nobody holds
    SeqSpace,           \* 2^32 in the code: sequence numbers are uint32_t
    ISS, IRS,           \* initial sequence numbers, ours and the peer's
    TCP_MAX_SEG_SIZE,   \* 1460 in the code
    TCP_RCV_MAX,        \* 65535 in the code
    RETRIES_CONN_MAX,   \* 10 in the code
    PeerLen,            \* length of the stream a peer sends
    PeerSeg,            \* largest segment a peer sends
    Windows,            \* windows a peer may advertise
    Hop,                \* the next hop a connection's packets go through
    LiveHops,           \* the next hops that answer ARP requests
    Env                 \* what else the environment may do, a subset of EnvMoves

RETRIES_INFINITE == -1
RETRIES_SENDONCE == -2

\* "trims": a peer may accept only the first bytes of a segment; "closes": a
\* peer may send its FIN first; "opens": simultaneous open; "resets": a peer
\* may send RST; "corrupts": segments that fail the length or checksum test;
\* "spurious": pthread_cond_wait may return without a signal; "persists": an
\* application goes on with its program after a connect that failed.
EnvMoves == {"trims", "closes", "opens", "resets", "corrupts", "spurious", "persists"}

Calls == [op : {"connect", "send", "recv", "close"}, n : Nat]

ASSUME ThreadsDistinct ==
    /\ Apps \cap Conns = {} /\ RX # RTX /\ {RX, RTX, Free} \cap (Apps \cup Conns) = {}
    /\ Free \notin {RX, RTX}
ASSUME EnvAssumption ==
    /\ AppConn \in [Apps -> Conns] /\ Programs \subseteq [Apps -> Seq(Calls)]
    /\ Env \subseteq EnvMoves
ASSUME SizeAssumption ==
    /\ SeqSpace \in Nat \ {0} /\ TCP_MAX_SEG_SIZE \in Nat \ {0}
    /\ TCP_RCV_MAX \in Nat \ {0} /\ RETRIES_CONN_MAX \in Nat \ {0}
    /\ ISS \in [Conns -> 0..SeqSpace - 1] /\ IRS \in [Conns -> 0..SeqSpace - 1]
    /\ PeerLen \in [Conns -> Nat] /\ PeerSeg \in Nat /\ Windows \subseteq Nat

Threads == Apps \cup Conns \cup {RX, RTX}
Senders == Apps \cup {RX}

VARIABLES
    \* struct tcb
    life,               \* "none" before connect, "live", "freed" after close
    state, snd_una, snd_nxt, snd_wnd, rcv_nxt,
    rcv_buff,           \* the bytes of the receive buffer
    rcv_buff_len,
    tcb_lock, send_lock, \* who holds the mutexes of a tcb
    \* tcp.c
    messages_array,
    msg_arr_lock,
    \* threads
    pc,
    tx,                 \* locals of tcp_tx, or the length argument of recv
    seg,                \* the segment tcp_rx is processing
    todo,               \* the entries tcp_retransmit_handler has yet to visit
    prog,               \* the calls an application has yet to make
    \* environment
    p_rcv,              \* sequence numbers of ours the peer has taken in order
    p_fin,              \* the peer has taken our FIN
    resolved,           \* the next hops in the ARP cache
    crashed,            \* the process has died
    \* history
    queued,             \* bytes tcp_tx has taken from the senders' buffers
    read,               \* bytes recv has handed to the application
    fin_rcvd            \* the peer's FIN has been counted in rcv_nxt

sndVars == <<snd_una, snd_nxt, snd_wnd, queued>>
rcvVars == <<rcv_nxt, rcv_buff, rcv_buff_len, read, fin_rcvd>>
locks   == <<tcb_lock, send_lock, msg_arr_lock>>
rtxVars == <<messages_array, todo>>
thrVars == <<pc, tx, seg, prog>>
netVars == <<p_rcv, p_fin, resolved, crashed>>
tcbVars == <<life, state, sndVars, rcvVars>>
vars == <<tcbVars, locks, rtxVars, thrVars, netVars>>

-----------------------------------------------------------------------------
(* Types, sequence arithmetic, segments and messages.                      *)

States == {"CLOSED", "SYN_SENT", "SYN_RECEIVED", "ESTABLISHED",
           "FIN_WAIT_1", "FIN_WAIT_2", "TIME_WAIT"}

Min(a, b) == IF a < b THEN a ELSE b
Plus(a, n) == (a + n) % SeqSpace
Minus(a, b) == (a - b) % SeqSpace

\* An entry of messages_array.  dangling: tcp_ptr points into a buffer that
\* stop_retransmit has freed.
Messages == [conn : Conns, flags : {"SYN", "SYNACK", "ACK", "FINACK"},
             seq : 0..SeqSpace - 1, ack : 0..SeqSpace - 1, len : Nat,
             retries : Int, dangling : BOOLEAN]

Ctl(flags) == IF flags \in {"SYN", "SYNACK", "FINACK"} THEN 1 ELSE 0

\* A received segment; pos is the stream offset of its first byte.
NoSeg == [conn |-> Free, flags |-> {}, seq |-> 0, ack |-> 0, pos |-> 0,
          len |-> 0, win |-> 0]
NoTx == [flags |-> "ACK", size |-> 0, sent |-> 0, retries |-> 0, ret |-> "idle"]

ConnOf(t) == IF t = RX THEN seg.conn ELSE AppConn[t]

\* The segments peer c may have sent by now: SYNs, SYN-ACKs, resets, and text
\* with or without PSH and FIN, acknowledging anything it has ever taken.
Segment(c, f, s, a, p, l, w) ==
    [conn |-> c, flags |-> f, seq |-> s, ack |-> a, pos |-> p, len |-> l, win |-> w]
Acks(c) == {Plus(ISS[c], k) : k \in 1..p_rcv[c]}
PeerMayFin(c) == p_fin[c] \/ "closes" \in Env
TextFlags(c, p, l) ==
    {f \in {{"ACK"}, {"ACK", "PSH"}, {"ACK", "FIN"}, {"ACK", "PSH", "FIN"}} :
        /\ "PSH" \in f => l > 0
        /\ "FIN" \in f => p + l = PeerLen[c] /\ PeerMayFin(c)}
Syns(c) ==
    {Segment(c, {"SYN"}, IRS[c], 0, 0, 0, w) :
        w \in {v \in Windows : "opens" \in Env /\ life[c] # "none"}}
SynAcks(c) ==
    {Segment(c, {"SYN", "ACK"}, IRS[c], Plus(ISS[c], 1), 0, 0, w) :
        w \in {v \in Windows : p_rcv[c] > 0}}
Resets(c) ==
    {Segment(c, {"RST", "ACK"}, 0, a, 0, 0, 0) : a \in {b \in Acks(c) : "resets" \in Env}}
Texts(c, p) ==
    UNION {{Segment(c, f, Plus(IRS[c], 1 + p), a, p, l, w) :
               f \in TextFlags(c, p, l), a \in Acks(c), w \in Windows} :
               l \in {k \in 0..PeerSeg : p + k <= PeerLen[c]}}
Inbound(c) ==
    Syns(c) \cup SynAcks(c) \cup Resets(c) \cup UNION {Texts(c, p) : p \in 0..PeerLen[c]}

-----------------------------------------------------------------------------
(* Condition variables.  A thread waiting on one is at a _wait label; a    *)
(* signal lets one waiter, whichever, go on to take its mutex back.        *)

TcbWaiters(c) ==
    {a \in Apps : AppConn[a] = c /\ pc[a] \in {"connect_wait", "recv_wait", "close_wait"}}
SendWaiters(c) == {a \in Apps : AppConn[a] = c /\ pc[a] = "tx_wait"}

\* The label a woken waiter goes on from.
Woken(a) ==
    CASE pc[a] = "connect_wait" -> "connect_woken"
      [] pc[a] = "recv_wait"    -> "recv_woken"
      [] pc[a] = "close_wait"   -> "close_woken"
      [] OTHER                  -> "tx"

\* Thread t goes to label l, having signalled the condition W waits on.
GotoSignalling(t, l, W) ==
    \/ W = {} /\ pc' = [pc EXCEPT ![t] = l]
    \/ \E w \in W : pc' = [pc EXCEPT ![t] = l, ![w] = Woken(w)]

Goto(t, l) == pc' = [pc EXCEPT ![t] = l]

-----------------------------------------------------------------------------
(* messages_array.                                                         *)

\* create_tcp_packet with the header fields taken from tcb c.
Packet(c, flags, len, retries) ==
    [conn |-> c, flags |-> flags, seq |-> snd_nxt[c], ack |-> rcv_nxt[c],
     len |-> len, retries |-> retries, dangling |-> FALSE]

\* stop_retransmit(c), given the new snd_una: an entry that starts below it
\* and ends above it keeps its header pointer into the buffer just freed; one
\* that ends at or below it is removed.
BelowLax(m, c, una) == m.conn = c /\ m.seq <= una
BelowAnyTcb(m, c, una) == m.seq < una
Below(m, c, una) == m.conn = c /\ m.seq < una
CoveredShort(m, una) == Plus(m.seq, m.len) < una
Covered(m, una) == ~(Plus(m.seq, m.len) > una)
StopRetransmitData(c, una) ==
    {e \in messages_array : ~(Below(e, c, una) /\ Covered(e, una) /\ e.len > 0)}
StopRetransmit(c, una) ==
    {IF Below(m, c, una) THEN [m EXCEPT !.dangling = TRUE] ELSE m :
        m \in {e \in messages_array : ~(Below(e, c, una) /\ Covered(e, una))}}

\* tcp_tx called by thread t: tcp_tx(c, data of n bytes, flags, retries), to
\* go on at label ret.
CallTx(t, flags, n, retries, ret) ==
    tx' = [tx EXCEPT ![t] = [flags |-> flags, size |-> n, sent |-> 0,
                             retries |-> retries, ret |-> ret]]

\* The top of the loop of tcp_tx: take send_lock.
TxLock(t) ==
    /\ pc[t] = "tx" /\ send_lock[ConnOf(t)] = Free
    /\ send_lock' = [send_lock EXCEPT ![ConnOf(t)] = t]
    /\ Goto(t, "tx_add")
    /\ UNCHANGED <<tcbVars, tcb_lock, msg_arr_lock, rtxVars, tx, seg, prog, netVars>>

\* The rest of an iteration of tcp_tx: build a segment, add it to
\* messages_array under msg_arr_lock, then leave, wait for the window or loop.
TxAdd(t) ==
    LET c == ConnOf(t)
        n == Min(snd_wnd[c], Min(TCP_MAX_SEG_SIZE, tx[t].size - tx[t].sent))
        sent == tx[t].sent + n
    IN  /\ pc[t] = "tx_add" /\ msg_arr_lock = Free
        /\ messages_array' = messages_array \cup
                {Packet(c, tx[t].flags, n, tx[t].retries)}
        /\ snd_nxt' = [snd_nxt EXCEPT ![c] = Plus(@, n + Ctl(tx[t].flags))]
        /\ queued' = [queued EXCEPT ![c] = @ + n]
        /\ IF sent = tx[t].size
           THEN Goto(t, tx[t].ret) /\ tx' = [tx EXCEPT ![t] = NoTx]
           ELSE /\ tx' = [tx EXCEPT ![t].sent = sent]
                /\ Goto(t, IF Minus(snd_nxt'[c], snd_una[c]) >= snd_wnd[c]
                           THEN "tx_wait" ELSE "tx")
        /\ send_lock' = [send_lock EXCEPT ![c] = Free]
        /\ UNCHANGED <<life, state, snd_una, snd_wnd, rcvVars, tcb_lock, msg_arr_lock, todo,
                       seg, prog, netVars>>

-----------------------------------------------------------------------------
(* The socket calls.                                                       *)

\* Application a makes its next call, op.
Calling(a, op) ==
    /\ pc[a] = "idle" /\ prog[a] # <<>> /\ Head(prog[a]).op = op
    /\ prog' = [prog EXCEPT ![a] = Tail(@)]

\* connect: the tcb is created with tcb_lock taken, then the SYN is sent.
Connect(a) ==
    LET c == AppConn[a] IN
    /\ Calling(a, "connect") /\ life[c] = "none"
    /\ life' = [life EXCEPT ![c] = "live"]
    /\ snd_una' = [snd_una EXCEPT ![c] = Minus(ISS[c], 1)]
    /\ snd_nxt' = [snd_nxt EXCEPT ![c] = ISS[c]]
    /\ tcb_lock' = [tcb_lock EXCEPT ![c] = a]
    /\ CallTx(a, "SYN", 0, RETRIES_CONN_MAX, "connect_sent")
    /\ Goto(a, "tx")
    /\ UNCHANGED <<state, snd_wnd, queued, rcvVars, send_lock, msg_arr_lock, rtxVars, seg,
                   netVars>>

ConnectSent(a) ==
    LET c == AppConn[a] IN
    /\ pc[a] = "connect_sent"
    /\ state' = [state EXCEPT ![c] = "SYN_SENT"]
    /\ tcb_lock' = [tcb_lock EXCEPT ![c] = Free]
    /\ Goto(a, "connect_wait")
    /\ UNCHANGED <<life, sndVars, rcvVars, send_lock, msg_arr_lock, rtxVars, tx, seg, prog,
                   netVars>>

\* connect returns, 0 or -1, and leaves the tcb as it is either way.  On -1 the
\* application stops, as tcp_client.c does, unless it "persists".
ConnectWoken(a) ==
    /\ pc[a] = "connect_woken" /\ tcb_lock[AppConn[a]] = Free
    /\ prog' = IF state[AppConn[a]] = "ESTABLISHED" \/ "persists" \in Env THEN prog
               ELSE [prog EXCEPT ![a] = <<>>]
    /\ Goto(a, "idle")
    /\ UNCHANGED <<tcbVars, locks, rtxVars, tx, seg, netVars>>

DataRetriesOnce == RETRIES_SENDONCE
DataRetries == RETRIES_INFINITE

\* send: the state is read without a lock.
Send(a) ==
    LET c == AppConn[a] IN
    /\ Calling(a, "send")
    /\ IF life[c] = "live" /\ state[c] = "ESTABLISHED"
       THEN CallTx(a, "ACK", Head(prog[a]).n, DataRetries, "idle") /\ Goto(a, "tx")
       ELSE UNCHANGED <<tx, pc>>
    /\ UNCHANGED <<tcbVars, locks, rtxVars, seg, netVars>>

\* recv: conn_info is read without a lock, then read_bytes is called.
Recv(a) ==
    /\ Calling(a, "recv")
    /\ IF life[AppConn[a]] = "live"
       THEN /\ tx' = [tx EXCEPT ![a] = [NoTx EXCEPT !.size = Head(prog[a]).n]]
            /\ Goto(a, "recv_lock")
       ELSE UNCHANGED <<tx, pc>>
    /\ UNCHANGED <<tcbVars, locks, rtxVars, seg, netVars>>

\* read_bytes from the wait on: copy out what there is, possibly nothing, and
\* shift the rest of the buffer down.
ReadBytes(a) ==
    LET c == AppConn[a]
        n == Min(tx[a].size, rcv_buff_len[c])
        left == rcv_buff_len[c] - n
    IN  /\ rcv_buff_len' = [rcv_buff_len EXCEPT ![c] = left]
        /\ rcv_buff' = [rcv_buff EXCEPT ![c] =
               [i \in 0..TCP_RCV_MAX - 1 |->
                    IF i < left THEN rcv_buff[c][i + n] ELSE rcv_buff[c][i]]]
        /\ read' = [read EXCEPT ![c] = @ + n]
        /\ tx' = [tx EXCEPT ![a] = NoTx]
        /\ Goto(a, "idle")
        /\ UNCHANGED <<rcv_nxt, fin_rcvd>>

RecvLock(a) ==
    /\ pc[a] = "recv_lock" /\ tcb_lock[AppConn[a]] = Free
    /\ IF rcv_buff_len[AppConn[a]] = 0
       THEN Goto(a, "recv_wait") /\ UNCHANGED <<rcvVars, tx>>
       ELSE ReadBytes(a)
    /\ UNCHANGED <<life, state, sndVars, locks, rtxVars, seg, prog, netVars>>

RecvWoken(a) ==
    /\ pc[a] = "recv_woken" /\ tcb_lock[AppConn[a]] = Free
    /\ ReadBytes(a)
    /\ UNCHANGED <<life, state, sndVars, locks, rtxVars, seg, prog, netVars>>

Close(a) ==
    /\ Calling(a, "close")
    /\ IF life[AppConn[a]] = "live" THEN Goto(a, "close_lock") ELSE UNCHANGED pc
    /\ UNCHANGED <<tcbVars, locks, rtxVars, tx, seg, netVars>>

\* Outside ESTABLISHED close returns -1 without releasing tcb_lock.
CloseLock(a) ==
    LET c == AppConn[a] IN
    /\ pc[a] = "close_lock" /\ tcb_lock[c] = Free
    /\ tcb_lock' = [tcb_lock EXCEPT ![c] = a]
    /\ IF state[c] = "ESTABLISHED"
       THEN /\ state' = [state EXCEPT ![c] = "FIN_WAIT_1"]
            /\ CallTx(a, "FINACK", 0, RETRIES_SENDONCE, "close_sent")
            /\ Goto(a, "tx")
       ELSE Goto(a, "idle") /\ UNCHANGED <<state, tx>>
    /\ UNCHANGED <<life, sndVars, rcvVars, send_lock, msg_arr_lock, rtxVars, seg, prog,
                   netVars>>

CloseSent(a) ==
    /\ pc[a] = "close_sent"
    /\ tcb_lock' = [tcb_lock EXCEPT ![AppConn[a]] = Free]
    /\ Goto(a, "close_wait")
    /\ UNCHANGED <<tcbVars, send_lock, msg_arr_lock, rtxVars, tx, seg, prog, netVars>>

\* close returns: 0, the tcb freed, if the connection is CLOSED, else -1.
CloseWokenAny(a) ==
    /\ pc[a] = "close_woken" /\ tcb_lock[AppConn[a]] = Free
    /\ life' = [life EXCEPT ![AppConn[a]] = "freed"]
    /\ Goto(a, "idle")
    /\ UNCHANGED <<state, sndVars, rcvVars, locks, rtxVars, tx, seg, prog, netVars>>
CloseWoken(a) ==
    LET c == AppConn[a] IN
    /\ pc[a] = "close_woken" /\ tcb_lock[c] = Free
    /\ life' = [life EXCEPT ![c] = IF state[c] = "CLOSED" THEN "freed" ELSE @]
    /\ Goto(a, "idle")
    /\ UNCHANGED <<state, sndVars, rcvVars, locks, rtxVars, tx, seg, prog, netVars>>

SpuriousWakeup(a) ==
    /\ "spurious" \in Env
    /\ pc[a] \in {"connect_wait", "recv_wait", "close_wait", "tx_wait"}
    /\ Goto(a, Woken(a))
    /\ UNCHANGED <<tcbVars, locks, rtxVars, tx, seg, prog, netVars>>

-----------------------------------------------------------------------------
(* tcp_rx, run by the receive thread for each segment.                     *)

\* The labels at which tcp_rx, or a tcp_tx it calls, may be.  "idle" is the
\* label of a thread outside the TCP layer.
RxAt(l) == pc[RX] = l

\* tcp_rx looks the connection up.  When get_tcb finds none, drop_pkt unlocks
\* the mutexes of a NULL tcb: the process dies.
RxSegment(c) ==
    /\ RxAt("idle")
    /\ \E s \in Inbound(c) :
         IF life[c] = "live"
         THEN seg' = s /\ Goto(RX, "rx_tcb") /\ UNCHANGED crashed
         ELSE crashed' = TRUE /\ UNCHANGED <<seg, pc>>
    /\ UNCHANGED <<tcbVars, locks, rtxVars, tx, prog, p_rcv, p_fin, resolved>>

\* A segment that fails the length or the checksum test jumps to drop_pkt past
\* the initialisation of tcb, unlocked_tcb and unlocked_send.  What is on the
\* stack decides: nothing is unlocked; a pointer that is no tcb is followed;
\* or the mutexes of a connection handled before are unlocked, whoever holds
\* them.
RxBadSegment ==
    /\ "corrupts" \in Env /\ RxAt("idle")
    /\ \/ crashed' = TRUE /\ UNCHANGED locks
       \/ \E c \in {d \in Conns : life[d] # "none"} :
            /\ \/ tcb_lock' = [tcb_lock EXCEPT ![c] = Free] /\ UNCHANGED send_lock
               \/ send_lock' = [send_lock EXCEPT ![c] = Free] /\ UNCHANGED tcb_lock
               \/ /\ tcb_lock' = [tcb_lock EXCEPT ![c] = Free]
                  /\ send_lock' = [send_lock EXCEPT ![c] = Free]
            /\ UNCHANGED <<crashed, msg_arr_lock>>
    /\ UNCHANGED <<tcbVars, rtxVars, thrVars, p_rcv, p_fin, resolved>>

RxLockTcb ==
    /\ RxAt("rx_tcb") /\ tcb_lock[seg.conn] = Free
    /\ tcb_lock' = [tcb_lock EXCEPT ![seg.conn] = RX]
    /\ Goto(RX, "rx_send")
    /\ UNCHANGED <<tcbVars, send_lock, msg_arr_lock, rtxVars, tx, seg, prog, netVars>>

RxLockSend ==
    /\ RxAt("rx_send") /\ send_lock[seg.conn] = Free
    /\ send_lock' = [send_lock EXCEPT ![seg.conn] = RX]
    /\ Goto(RX, "rx_state")
    /\ UNCHANGED <<tcbVars, tcb_lock, msg_arr_lock, rtxVars, tx, seg, prog, netVars>>

\* The ack test of SYN_RECEIVED and ESTABLISHED, on unsigned numbers.
AckIsNew(c) == snd_una[c] < seg.ack /\ seg.ack <= snd_nxt[c]
\* The ack test of SYN_SENT.
AcceptableAck(c) ==
    "ACK" \in seg.flags /\ snd_una[c] <= seg.ack /\ seg.ack <= snd_nxt[c]

\* The early exits to drop_pkt, with both mutexes held.
Dropped(c) ==
    \/ state[c] \in {"CLOSED", "FIN_WAIT_2", "TIME_WAIT"}
    \/ state[c] = "SYN_SENT" /\ "SYN" \notin seg.flags
    \/ state[c] # "SYN_SENT" /\ "ACK" \notin seg.flags
    \/ state[c] = "SYN_RECEIVED" /\ ~AckIsNew(c)

RxDrop ==
    LET c == seg.conn IN
    /\ RxAt("rx_state") /\ Dropped(c)
    /\ tcb_lock' = [tcb_lock EXCEPT ![c] = Free]
    /\ send_lock' = [send_lock EXCEPT ![c] = Free]
    /\ seg' = NoSeg /\ Goto(RX, "idle")
    /\ UNCHANGED <<tcbVars, msg_arr_lock, rtxVars, tx, prog, netVars>>

\* Has our SYN been acknowledged, by the snd_una the segment leaves?
SynAckedAlways(c, una) == TRUE
SynAcked(c, una) == una > ISS[c]

\* SYN_SENT, a SYN, up to the tcp_tx of the ACK or of the SYN-ACK.
RxSynSent ==
    LET c == seg.conn
        una == IF AcceptableAck(c) THEN seg.ack ELSE snd_una[c]
    IN  /\ RxAt("rx_state") /\ ~Dropped(c) /\ state[c] = "SYN_SENT" /\ msg_arr_lock = Free
        /\ rcv_nxt' = [rcv_nxt EXCEPT ![c] = Plus(seg.seq, 1)]
        /\ snd_una' = [snd_una EXCEPT ![c] = una]
        /\ messages_array' = StopRetransmit(c, una)
        /\ IF SynAcked(c, una)
           THEN /\ snd_wnd' = [snd_wnd EXCEPT ![c] = seg.win]
                /\ state' = [state EXCEPT ![c] = "ESTABLISHED"]
                /\ CallTx(RX, "ACK", 0, RETRIES_SENDONCE, "rx_established")
                /\ UNCHANGED snd_nxt
           ELSE /\ state' = [state EXCEPT ![c] = "SYN_RECEIVED"]
                /\ snd_nxt' = [snd_nxt EXCEPT ![c] = ISS[c]]
                /\ CallTx(RX, "SYNACK", 0, RETRIES_CONN_MAX, "rx_done")
                /\ UNCHANGED snd_wnd
        /\ send_lock' = [send_lock EXCEPT ![c] = Free]
        /\ Goto(RX, "tx")
        /\ UNCHANGED <<life, queued, rcv_buff, rcv_buff_len, read, fin_rcvd, tcb_lock,
                       msg_arr_lock, todo, seg, prog, netVars>>

RxEstablished ==
    /\ RxAt("rx_established")
    /\ GotoSignalling(RX, "rx_done", TcbWaiters(seg.conn))
    /\ UNCHANGED <<tcbVars, locks, rtxVars, tx, seg, prog, netVars>>

\* SYN_RECEIVED, an acceptable ack: snd_una keeps its value.
RxSynReceived ==
    LET c == seg.conn IN
    /\ RxAt("rx_state") /\ ~Dropped(c) /\ state[c] = "SYN_RECEIVED" /\ msg_arr_lock = Free
    /\ messages_array' = StopRetransmit(c, snd_una[c])
    /\ state' = [state EXCEPT ![c] = "ESTABLISHED"]
    /\ snd_wnd' = [snd_wnd EXCEPT ![c] = seg.win]
    /\ send_lock' = [send_lock EXCEPT ![c] = Free]
    /\ CallTx(RX, "ACK", 0, RETRIES_SENDONCE, "rx_opened")
    /\ Goto(RX, "tx")
    /\ UNCHANGED <<life, snd_una, snd_nxt, queued, rcvVars, tcb_lock, msg_arr_lock, todo,
                   seg, prog, netVars>>

RxOpened ==
    /\ RxAt("rx_opened")
    /\ GotoSignalling(RX, "rx_text", TcbWaiters(seg.conn))
    /\ UNCHANGED <<tcbVars, locks, rtxVars, tx, seg, prog, netVars>>

\* Whom pthread_cond_signal(&tcb->send_cond) may wake.
WakesReaders(c) == TcbWaiters(c)
WakesSenders(c) == SendWaiters(c)

\* ESTABLISHED: a new ack moves snd_una and trims messages_array; the window
\* is taken and a blocked sender woken in any case.
RxAckEstablished ==
    LET c == seg.conn IN
    /\ RxAt("rx_state") /\ ~Dropped(c) /\ state[c] = "ESTABLISHED"
    /\ IF AckIsNew(c)
       THEN /\ msg_arr_lock = Free
            /\ snd_una' = [snd_una EXCEPT ![c] = seg.ack]
            /\ messages_array' = StopRetransmit(c, seg.ack)
       ELSE UNCHANGED <<snd_una, messages_array>>
    /\ snd_wnd' = [snd_wnd EXCEPT ![c] = seg.win]
    /\ send_lock' = [send_lock EXCEPT ![c] = Free]
    /\ GotoSignalling(RX, "rx_text", WakesSenders(c))
    /\ UNCHANGED <<life, state, snd_nxt, queued, rcvVars, tcb_lock, msg_arr_lock, todo, tx,
                   seg, prog, netVars>>

\* FIN_WAIT_1: any ack.
RxAckFinWait1 ==
    LET c == seg.conn IN
    /\ RxAt("rx_state") /\ ~Dropped(c) /\ state[c] = "FIN_WAIT_1"
    /\ state' = [state EXCEPT ![c] = "FIN_WAIT_2"]
    /\ send_lock' = [send_lock EXCEPT ![c] = Free]
    /\ Goto(RX, "rx_text")
    /\ UNCHANGED <<life, sndVars, rcvVars, tcb_lock, msg_arr_lock, rtxVars, tx, seg, prog,
                   netVars>>

InWindow(c) == Minus(seg.seq, rcv_nxt[c]) < TCP_RCV_MAX
InOrder(c) == seg.seq = rcv_nxt[c]

\* final_copy_size of save_data_and_ack, and rcv_nxt after it.
StoredWhole(c) == seg.len
Stored(c) == Min(seg.len, TCP_RCV_MAX - rcv_buff_len[c])
NextExpectedWhole(c) == Plus(rcv_nxt[c], seg.len)
NextExpected(c) == Plus(rcv_nxt[c], Stored(c))

\* The segment text: out of order is dropped; in order, what fits is stored
\* and acknowledged (save_data_and_ack).
RxOutOfOrderLocked ==
    /\ RxAt("rx_text") /\ seg.len > 0 /\ ~InOrder(seg.conn)
    /\ seg' = NoSeg /\ Goto(RX, "idle")
    /\ UNCHANGED <<tcbVars, locks, rtxVars, tx, prog, netVars>>
RxOutOfOrder ==
    LET c == seg.conn IN
    /\ RxAt("rx_text") /\ seg.len > 0 /\ ~InOrder(c)
    /\ tcb_lock' = [tcb_lock EXCEPT ![c] = Free]
    /\ seg' = NoSeg /\ Goto(RX, "idle")
    /\ UNCHANGED <<tcbVars, send_lock, msg_arr_lock, rtxVars, tx, prog, netVars>>

RxText ==
    LET c == seg.conn
        n == Stored(c)
    IN  /\ RxAt("rx_text") /\ seg.len > 0 /\ InOrder(c)
        /\ rcv_buff' = [rcv_buff EXCEPT ![c] =
               [i \in 0..TCP_RCV_MAX - 1 |->
                    IF i \in rcv_buff_len[c]..rcv_buff_len[c] + n - 1
                    THEN seg.pos + (i - rcv_buff_len[c]) ELSE rcv_buff[c][i]]]
        /\ rcv_nxt' = [rcv_nxt EXCEPT ![c] = NextExpected(c)]
        /\ rcv_buff_len' = [rcv_buff_len EXCEPT ![c] = @ + n]
        /\ IF n > 0
           THEN CallTx(RX, "ACK", 0, RETRIES_SENDONCE, "rx_wake") /\ Goto(RX, "tx")
           ELSE Goto(RX, "rx_wake") /\ UNCHANGED tx
        /\ UNCHANGED <<life, state, sndVars, read, fin_rcvd, locks, rtxVars, seg, prog,
                       netVars>>

WakesWhenFull(c) == rcv_buff_len[c] = TCP_RCV_MAX
WakesReader(c) == rcv_buff_len[c] = TCP_RCV_MAX \/ "PSH" \in seg.flags

\* The end of save_data_and_ack: wake the reader on PSH or a full buffer.  The
\* segment is freed here; its flags are read once more below, and free leaves
\* that part of the buffer alone.
RxWake ==
    LET c == seg.conn IN
    /\ RxAt("rx_wake")
    /\ GotoSignalling(RX, "rx_fin", IF WakesReader(c) THEN TcbWaiters(c) ELSE {})
    /\ UNCHANGED <<tcbVars, locks, rtxVars, tx, seg, prog, netVars>>

RxNoText ==
    /\ RxAt("rx_text") /\ seg.len = 0
    /\ Goto(RX, "rx_fin")
    /\ UNCHANGED <<tcbVars, locks, rtxVars, tx, seg, prog, netVars>>

\* The FIN bit.  In FIN_WAIT_1 and FIN_WAIT_2 it is acknowledged; in any other
\* state tcp_rx returns without releasing tcb_lock.
RxFin ==
    LET c == seg.conn IN
    /\ RxAt("rx_fin") /\ "FIN" \in seg.flags
    /\ rcv_nxt' = [rcv_nxt EXCEPT ![c] = Plus(@, 1)]
    /\ fin_rcvd' = [fin_rcvd EXCEPT ![c] = TRUE]
    /\ IF state[c] \in {"FIN_WAIT_1", "FIN_WAIT_2"}
       THEN /\ state' = [state EXCEPT ![c] = "TIME_WAIT"]
            /\ CallTx(RX, "ACK", 0, RETRIES_SENDONCE, "rx_time_wait")
            /\ Goto(RX, "tx") /\ UNCHANGED seg
       ELSE seg' = NoSeg /\ Goto(RX, "idle") /\ UNCHANGED <<state, tx>>
    /\ UNCHANGED <<life, sndVars, rcv_buff, rcv_buff_len, read, locks, rtxVars, prog,
                   netVars>>

\* The exits of tcp_rx that release tcb_lock alone; after a FIN,
\* timer_oneshot then starts the thread of close_connection.
RxDone ==
    LET c == seg.conn IN
    /\ \/ RxAt("rx_done") \/ RxAt("rx_time_wait")
       \/ RxAt("rx_fin") /\ "FIN" \notin seg.flags
    /\ tcb_lock' = [tcb_lock EXCEPT ![c] = Free]
    /\ seg' = NoSeg
    /\ pc' = IF RxAt("rx_time_wait") THEN [pc EXCEPT ![RX] = "idle", ![c] = "tw_lock"]
             ELSE [pc EXCEPT ![RX] = "idle"]
    /\ UNCHANGED <<tcbVars, send_lock, msg_arr_lock, rtxVars, tx, prog, netVars>>

\* arp_rx: the reply to a request dst_neigh_output sent for a next hop.
RxArpReply(h) ==
    /\ RxAt("idle") /\ pc[RTX] = "rtx_scan" /\ h \in LiveHops \ resolved
    /\ \E m \in todo : Hop[m.conn] = h
    /\ resolved' = resolved \cup {h}
    /\ UNCHANGED <<tcbVars, locks, rtxVars, thrVars, p_rcv, p_fin, crashed>>

-----------------------------------------------------------------------------
(* close_connection, on its own timer thread, named by the connection.     *)

CloseConnectionLock(c) ==
    /\ pc[c] = "tw_lock" /\ tcb_lock[c] = Free
    /\ tcb_lock' = [tcb_lock EXCEPT ![c] = c]
    /\ Goto(c, "tw_stop")
    /\ UNCHANGED <<tcbVars, send_lock, msg_arr_lock, rtxVars, tx, seg, prog, netVars>>

CloseConnection(c) ==
    /\ pc[c] = "tw_stop" /\ msg_arr_lock = Free
    /\ messages_array' = StopRetransmit(c, snd_una[c])
    /\ state' = [state EXCEPT ![c] = "CLOSED"]
    /\ GotoSignalling(c, "idle", TcbWaiters(c))
    /\ tcb_lock' = [tcb_lock EXCEPT ![c] = Free]
    /\ UNCHANGED <<life, sndVars, rcvVars, send_lock, msg_arr_lock, todo, tx, seg, prog,
                   netVars>>

-----------------------------------------------------------------------------
(* tcp_retransmit_handler, which re-arms its own timer.                    *)

RtxLock ==
    /\ pc[RTX] = "idle" /\ msg_arr_lock = Free
    /\ msg_arr_lock' = RTX /\ todo' = messages_array
    /\ Goto(RTX, "rtx_scan")
    /\ UNCHANGED <<tcbVars, tcb_lock, send_lock, messages_array, tx, seg, prog, netVars>>

\* What the peer may have taken once entry m is on the wire.  An entry of a
\* freed tcb goes to whatever address is in the freed memory.
Reach(m) ==
    LET c == m.conn
        first == Minus(m.seq, ISS[c])
        end == first + m.len + Ctl(m.flags)
    IN  {p_rcv[c]} \cup
        IF ~(first <= p_rcv[c] /\ p_rcv[c] < end) THEN {}
        ELSE IF "trims" \in Env THEN p_rcv[c] + 1..end ELSE {end}

LastAttemptNever(m) == FALSE
LastAttempt(m) == m.retries = 1

\* Send entry m, once ip_output stops answering -EAGAIN, and account for the
\* attempt.  A dangling entry writes an Ethernet header into freed memory.
RtxSend(m) ==
    LET c == m.conn IN
    /\ pc[RTX] = "rtx_scan" /\ m \in todo /\ Hop[c] \in resolved
    /\ \E r \in Reach(m) :
         /\ p_rcv' = [p_rcv EXCEPT ![c] = r]
         /\ p_fin' = [p_fin EXCEPT ![c] = @ \/ (m.flags = "FINACK" /\ r > p_rcv[c])]
    /\ crashed' \in IF m.dangling THEN BOOLEAN ELSE {FALSE}
    /\ todo' = todo \ {m}
    /\ messages_array' =
         CASE m.retries = RETRIES_SENDONCE -> messages_array \ {m}
           [] m.retries = RETRIES_INFINITE -> messages_array
           [] OTHER -> (messages_array \ {m}) \cup {[m EXCEPT !.retries = @ - 1]}
    /\ Goto(RTX, IF LastAttempt(m) THEN "rtx_give_up" ELSE "rtx_scan")
    /\ UNCHANGED <<tcbVars, locks, tx, seg, prog, resolved>>

\* No attempts left: signal tcb_cond under tcb_lock, msg_arr_lock still held.
RtxGiveUp(m) ==
    /\ pc[RTX] = "rtx_give_up" /\ m \in messages_array /\ m.retries = 0
    /\ tcb_lock[m.conn] = Free
    /\ messages_array' = messages_array \ {m}
    /\ GotoSignalling(RTX, "rtx_scan", TcbWaiters(m.conn))
    /\ UNCHANGED <<tcbVars, locks, todo, tx, seg, prog, netVars>>

RtxDone ==
    /\ pc[RTX] = "rtx_scan" /\ todo = {}
    /\ msg_arr_lock' = Free
    /\ Goto(RTX, "idle")
    /\ UNCHANGED <<tcbVars, tcb_lock, send_lock, rtxVars, tx, seg, prog, netVars>>

-----------------------------------------------------------------------------
Init ==
    /\ life = [c \in Conns |-> "none"]
    /\ state = [c \in Conns |-> "CLOSED"]
    /\ snd_una = [c \in Conns |-> 0] /\ snd_nxt = [c \in Conns |-> 0]
    /\ snd_wnd = [c \in Conns |-> 0] /\ rcv_nxt = [c \in Conns |-> 0]
    /\ rcv_buff = [c \in Conns |-> [i \in 0..TCP_RCV_MAX - 1 |-> -1]]
    /\ rcv_buff_len = [c \in Conns |-> 0]
    /\ tcb_lock = [c \in Conns |-> Free] /\ send_lock = [c \in Conns |-> Free]
    /\ messages_array = {} /\ msg_arr_lock = Free
    /\ pc = [t \in Threads |-> "idle"]
    /\ tx = [t \in Senders |-> NoTx] /\ seg = NoSeg /\ todo = {}
    /\ prog \in Programs
    /\ p_rcv = [c \in Conns |-> 0] /\ p_fin = [c \in Conns |-> FALSE]
    /\ resolved = {} /\ crashed = FALSE
    /\ queued = [c \in Conns |-> 0] /\ read = [c \in Conns |-> 0]
    /\ fin_rcvd = [c \in Conns |-> FALSE]

Tx(t) == TxLock(t) \/ TxAdd(t)

App(a) ==
    \/ Connect(a) \/ ConnectSent(a) \/ ConnectWoken(a)
    \/ Send(a) \/ Tx(a)
    \/ Recv(a) \/ RecvLock(a) \/ RecvWoken(a)
    \/ Close(a) \/ CloseLock(a) \/ CloseSent(a) \/ CloseWoken(a)

\* The steps of tcp_rx once it has a segment.
RxStep ==
    \/ RxLockTcb \/ RxLockSend \/ RxDrop
    \/ RxSynSent \/ RxEstablished \/ RxSynReceived \/ RxOpened
    \/ RxAckEstablished \/ RxAckFinWait1
    \/ RxOutOfOrder \/ RxText \/ RxWake \/ RxNoText \/ RxFin \/ RxDone
    \/ Tx(RX)

TimeWait(c) == CloseConnectionLock(c) \/ CloseConnection(c)

Rtx ==
    \/ RtxLock \/ RtxDone
    \/ \E m \in messages_array : RtxSend(m) \/ RtxGiveUp(m)

Arrival == RxBadSegment \/ (\E c \in Conns : RxSegment(c))

Next ==
    /\ ~crashed
    /\ \/ \E a \in Apps : App(a) \/ SpuriousWakeup(a)
       \/ Arrival \/ RxStep
       \/ \E c \in Conns : RxArpReply(Hop[c]) \/ TimeWait(c)
       \/ Rtx

Spec == Init /\ [][Next]_vars
=============================================================================
