---------------------------- MODULE TcpConnProofs ----------------------------
(***************************************************************************)
(* The life of a connection: it is established only once the peer has our  *)
(* SYN; every mutex of its tcb is released by the code that took it, but   *)
(* for the two returns of tcp_rx and of close that keep tcb_lock, while no *)
(* segment is corrupt; and close frees it only after the peer's FIN.       *)
(***************************************************************************)
EXTENDS TcpStreamProofs

\* The applications hold tcb_lock in connect, in close, and after a close
\* outside ESTABLISHED, so never in ESTABLISHED; the state is CLOSED until
\* connect; tcp_rx leaves a lock behind only after a FIN in ESTABLISHED.
TcbReleased ==
    /\ \A c \in Conns : life[c] = "none" => state[c] = "CLOSED"
    /\ \A c \in Conns, a \in Apps : tcb_lock[c] = a => state[c] # "ESTABLISHED"
    /\ \A c \in Conns : Abandoned(c) => fin_rcvd[c] /\ state[c] = "ESTABLISHED"
    /\ \A c \in Conns : tcb_lock[c] = c => pc[c] = "tw_stop"

\* send_lock is held where tcp_tx builds a segment, and in tcp_rx at its state.
SendReleased ==
    \A c \in Conns, t \in Threads :
        send_lock[c] = t => t \in Senders /\ ConnOf(t) = c /\ pc[t] \in {"tx_add", "rx_state"}

\* tcp_tx called by tcp_rx goes back into tcp_rx.
RxReturns ==
    InTx(RX) => tx[RX].ret \in {"rx_established", "rx_done", "rx_opened", "rx_wake", "rx_time_wait"}

ReleaseInv == StreamInv /\ TcbReleased /\ SendReleased /\ RxReturns

-----------------------------------------------------------------------------
(* tcb_lock.                                                               *)

\* A step that changes the state of live connections only, forgets no FIN, and
\* brings no mutex where the invariant does not want it.
LEMMA TcbStep ==
    ASSUME TcbReleased,
           \A d \in Conns : life'[d] = "none" => life[d] = "none" /\ state'[d] = state[d],
           \A d \in Conns, a \in Apps : tcb_lock'[d] = a /\ state'[d] = "ESTABLISHED" =>
                                            tcb_lock[d] = a /\ state[d] = "ESTABLISHED",
           \A d \in Conns : Abandoned(d)' => fin_rcvd'[d] /\ state'[d] = "ESTABLISHED",
           \A d \in Conns : tcb_lock'[d] = d => pc'[d] = "tw_stop"
    PROVE  TcbReleased'
BY DEF TcbReleased

\* What the steps of application a do to its connection.
LEMMA AppEffects ==
    ASSUME ControlInv, NEW a \in Apps, App(a) \/ SpuriousWakeup(a)
    PROVE  LET c == AppConn[a] IN
           /\ UNCHANGED fin_rcvd
           /\ \/ UNCHANGED state
              \/ pc[a] = "connect_sent" /\ state' = [state EXCEPT ![c] = "SYN_SENT"]
              \/ /\ pc[a] = "close_lock" /\ tcb_lock[c] = Free
                 /\ state' = [state EXCEPT ![c] = "FIN_WAIT_1"]
           /\ \/ UNCHANGED tcb_lock \/ tcb_lock' = [tcb_lock EXCEPT ![c] = Free]
              \/ /\ tcb_lock' = [tcb_lock EXCEPT ![c] = a]
                 /\ \/ life[c] = "none" /\ UNCHANGED state
                    \/ state[c] # "ESTABLISHED" /\ UNCHANGED state
                    \/ state' = [state EXCEPT ![c] = "FIN_WAIT_1"]
<1>1. CASE Connect(a) \/ ConnectSent(a) \/ ConnectWoken(a)
  BY <1>1, Zenon DEF Connect, ConnectSent, ConnectWoken, tcbVars, rcvVars, locks
<1>2. CASE Send(a) \/ Recv(a) \/ RecvLock(a) \/ RecvWoken(a)
  BY <1>2, Zenon DEF Send, Recv, RecvLock, RecvWoken, ReadBytes, tcbVars, rcvVars, locks
<1>3. CASE Close(a) \/ CloseSent(a) \/ CloseWoken(a)
  BY <1>3, Zenon DEF Close, CloseSent, CloseWoken, tcbVars, rcvVars, locks
<1>4. CASE CloseLock(a)
  BY <1>4, Zenon DEF CloseLock, rcvVars
<1>5. CASE Tx(a) \/ SpuriousWakeup(a)
  BY <1>5, Zenon DEF Tx, TxLock, TxAdd, SpuriousWakeup, tcbVars, rcvVars, locks
<1>. QED
  BY <1>1, <1>2, <1>3, <1>4, <1>5, Zenon DEF App

\* The steps of the applications.
LEMMA AppTcb ==
    ASSUME ReleaseInv, NEW a \in Apps, App(a) \/ SpuriousWakeup(a)
    PROVE  TcbReleased'
<1>. DEFINE c == AppConn[a]
<1>0. /\ c \in Conns /\ a \notin Conns /\ a # RX /\ Free \notin Apps /\ Free # RX /\ Free \notin Conns
      /\ RX \notin Apps /\ RX \in Threads /\ Conns \subseteq Threads
      /\ ControlInv /\ TcbReleased /\ state \in [Conns -> States]
      /\ tcb_lock \in [Conns -> Threads \cup {Free}]
  BY EnvAssumption, ThreadsDistinct DEF Threads, ReleaseInv, StreamInv, ControlInv, TypeInv, TypeOK
<1>1. AppFrame(a)
  BY <1>0, AppConnects, AppTransfers, AppCloses, AppWaits, Zenon DEF App
<1>2. /\ UNCHANGED fin_rcvd
      /\ \/ UNCHANGED state
         \/ pc[a] = "connect_sent" /\ state' = [state EXCEPT ![c] = "SYN_SENT"]
         \/ /\ pc[a] = "close_lock" /\ tcb_lock[c] = Free
            /\ state' = [state EXCEPT ![c] = "FIN_WAIT_1"]
      /\ \/ UNCHANGED tcb_lock \/ tcb_lock' = [tcb_lock EXCEPT ![c] = Free]
         \/ /\ tcb_lock' = [tcb_lock EXCEPT ![c] = a]
            /\ \/ life[c] = "none" /\ UNCHANGED state
               \/ state[c] # "ESTABLISHED" /\ UNCHANGED state
               \/ state' = [state EXCEPT ![c] = "FIN_WAIT_1"]
  BY <1>0, AppEffects
<1>3. life[c] = "none" => pc[a] = "idle"
  BY <1>0 DEF ControlInv, LifeInv
<1>4. \A d \in Conns : life'[d] = "none" => life[d] = "none" /\ state'[d] = state[d]
  BY <1>0, <1>1, <1>2, <1>3 DEF AppFrame
<1>5. pc[a] = "connect_sent" => tcb_lock[c] = a
  BY <1>0 DEF ControlInv, LockInv, Connecting
<1>6. \A d \in Conns : tcb_lock[d] \in Conns \cup {RX} => state'[d] = state[d]
  BY <1>0, <1>2, <1>5
<1>7. \A d \in Conns : tcb_lock'[d] # tcb_lock[d] => tcb_lock'[d] \in {a, Free}
  BY <1>0, <1>2
<1>8. ASSUME NEW d \in Conns, NEW b \in Apps, tcb_lock'[d] = b, state'[d] = "ESTABLISHED"
      PROVE  tcb_lock[d] = b /\ state[d] = "ESTABLISHED"
  <2>1. state[d] = "ESTABLISHED"
    BY <1>0, <1>2, <1>8
  <2>2. tcb_lock[d] = b
    BY <1>0, <1>2, <1>8, <2>1 DEF TcbReleased
  <2>. QED
    BY <2>1, <2>2
<1>9. ASSUME NEW d \in Conns, Abandoned(d)' PROVE fin_rcvd'[d] /\ state'[d] = "ESTABLISHED"
  <2>1. tcb_lock[d] = RX
    BY <1>0, <1>7, <1>9 DEF Abandoned
  <2>2. Abandoned(d)
    BY <1>0, <1>1, <1>9, <2>1 DEF Abandoned, RxBusy, AppFrame, OthersKept
  <2>. QED
    BY <1>0, <1>2, <1>6, <2>1, <2>2 DEF TcbReleased
<1>10. ASSUME NEW d \in Conns, tcb_lock'[d] = d PROVE pc'[d] = "tw_stop"
  BY <1>0, <1>1, <1>7, <1>10 DEF TcbReleased, AppFrame, OthersKept
<1>. QED
  BY <1>0, <1>4, <1>8, <1>9, <1>10, TcbStep

\* tcp_rx moves nobody but the waiting threads it signals, itself, and the
\* thread of close_connection it starts.
LEMMA RxMoves ==
    ASSUME ControlInv, RxStep
    PROVE  \A u \in Threads : u \notin {RX, seg.conn} /\ pc[u] \notin WaitLabels => pc'[u] = pc[u]
<1>0. pc \in [Threads -> Labels] /\ RX \in Threads
  BY DEF ControlInv, TypeInv, TypeOK, Threads
<1>1. CASE RxEstablished \/ RxOpened \/ RxAckEstablished \/ RxWake
  <2>1. \E l, d, W : W \in {{}, TcbWaiters(d), SendWaiters(d)} /\ GotoSignalling(RX, l, W)
    BY <1>1, Zenon DEF RxEstablished, RxOpened, RxAckEstablished, RxWake, WakesSenders
  <2>2. PICK l, d, W : W \in {{}, TcbWaiters(d), SendWaiters(d)} /\ GotoSignalling(RX, l, W)
    BY <2>1, Zenon
  <2>3. \A w \in W : pc[w] \in WaitLabels
    BY <2>2, WaitersWait, Zenon
  <2>4. CASE pc' = [pc EXCEPT ![RX] = l]
    BY <1>0, <2>4
  <2>5. CASE \E w \in W : pc' = [pc EXCEPT ![RX] = l, ![w] = Woken(w)]
    BY <1>0, <2>3, <2>5
  <2>. QED
    BY <2>2, <2>4, <2>5 DEF GotoSignalling
<1>2. CASE RxDone
  BY <1>0, <1>2 DEF RxDone
<1>3. CASE \E l : Goto(RX, l)
  BY <1>0, <1>3 DEF Goto
<1>4. CASE RxLockTcb \/ RxLockSend \/ RxDrop \/ RxSynSent \/ RxSynReceived \/ RxAckFinWait1
  BY <1>3, <1>4, Zenon DEF RxLockTcb, RxLockSend, RxDrop, RxSynSent, RxSynReceived, RxAckFinWait1
<1>5. CASE RxOutOfOrder \/ RxText \/ RxNoText \/ RxFin \/ Tx(RX)
  BY <1>3, <1>5, Zenon DEF RxOutOfOrder, RxText, RxNoText, RxFin, Tx, TxLock, TxAdd
<1>. QED
  BY <1>1, <1>2, <1>4, <1>5, Zenon DEF RxStep

\* What the steps of tcp_rx do to the connection of the segment.
LEMMA RxEffects ==
    ASSUME RxStep
    PROVE  LET c == seg.conn IN
           /\ pc[RX] # "idle" /\ (RxBusy \/ tcb_lock[c] = Free)
           /\ UNCHANGED state \/ (RxBusy /\ \E s : state' = [state EXCEPT ![c] = s])
           /\ UNCHANGED fin_rcvd \/ fin_rcvd' = [fin_rcvd EXCEPT ![c] = TRUE]
<1>1. CASE RxLockTcb \/ RxLockSend \/ RxDrop \/ RxEstablished \/ RxOpened
  BY <1>1, Zenon DEF RxLockTcb, RxLockSend, RxDrop, RxEstablished, RxOpened, RxAt, RxBusy, tcbVars, rcvVars
<1>2. CASE RxAckEstablished \/ RxAckFinWait1 \/ RxText \/ RxWake \/ RxNoText
  BY <1>2, Zenon DEF RxAckEstablished, RxAckFinWait1, RxText, RxWake, RxNoText, RxAt, RxBusy, tcbVars,
     rcvVars
<1>3. CASE RxOutOfOrder \/ RxDone \/ Tx(RX)
  BY <1>3, Zenon DEF RxOutOfOrder, RxDone, Tx, TxLock, TxAdd, RxAt, RxBusy, tcbVars, rcvVars
<1>4. CASE RxSynSent
  BY <1>4, Zenon DEF RxSynSent, RxAt, RxBusy
<1>5. CASE RxSynReceived \/ RxFin
  BY <1>5, Zenon DEF RxSynReceived, RxFin, RxAt, RxBusy, rcvVars
<1>. QED
  BY <1>1, <1>2, <1>3, <1>4, <1>5, Zenon DEF RxStep

\* Where tcp_rx goes: on, still holding tcb_lock, or out.
LEMMA RxGoes ==
    ASSUME ReleaseInv, RxStep
    PROVE  /\ RxReturns'
           /\ \/ pc'[RX] \notin {"idle", "rx_tcb"} /\ seg' = seg
              \/ RxFin \/ tcb_lock'[seg.conn] = Free
<1>0. /\ RX \in Threads /\ RX \in Senders /\ RX \notin Apps
      /\ pc \in [Threads -> Labels] /\ tx \in [Senders -> TxCalls]
      /\ tcb_lock \in [Conns -> Threads \cup {Free}]
      /\ {"rx_done", "rx_text", "rx_fin"} \subseteq Labels
  BY ThreadsDistinct DEF ReleaseInv, StreamInv, ControlInv, TypeInv, TypeOK, Threads, Senders, Labels,
     RxLabels
<1>1. seg.conn \in Conns /\ seg.conn # RX
  <2>1. seg.conn \in Conns
    BY RxEffects DEF ReleaseInv, StreamInv, ControlInv, TypeInv, SegOK
  <2>. QED
    BY <2>1, ThreadsDistinct
<1>2. CASE RxEstablished \/ RxOpened \/ RxAckEstablished \/ RxWake
  <2>1. \E l \in {"rx_done", "rx_text", "rx_fin"} : \E d, W :
           W \in {{}, TcbWaiters(d), SendWaiters(d)} /\ GotoSignalling(RX, l, W)
    BY <1>2, Zenon DEF RxEstablished, RxOpened, RxAckEstablished, RxWake, WakesSenders
  <2>2. PICK l \in {"rx_done", "rx_text", "rx_fin"} : \E d, W :
           W \in {{}, TcbWaiters(d), SendWaiters(d)} /\ GotoSignalling(RX, l, W)
    BY <2>1, Zenon
  <2>3. PICK d, W : W \in {{}, TcbWaiters(d), SendWaiters(d)} /\ GotoSignalling(RX, l, W)
    BY <2>2, Zenon
  <2>4. W \subseteq Apps
    BY <2>3, WaitersWait, Zenon
  <2>5. pc'[RX] = l
    BY <1>0, <2>3, <2>4, SignalType
  <2>6. seg' = seg
    BY <1>2, Zenon DEF RxEstablished, RxOpened, RxAckEstablished, RxWake
  <2>. QED
    BY <2>5, <2>6 DEF RxReturns, InTx
<1>3. CASE RxLockTcb \/ RxLockSend \/ RxAckFinWait1 \/ RxNoText
  <2>1. pc'[RX] \in {"rx_send", "rx_state", "rx_text", "rx_fin"} /\ seg' = seg
    BY <1>0, <1>3 DEF RxLockTcb, RxLockSend, RxAckFinWait1, RxNoText, Goto
  <2>. QED
    BY <2>1 DEF RxReturns, InTx
<1>4. CASE RxDrop \/ RxOutOfOrder \/ RxDone
  <2>1. tcb_lock' = [tcb_lock EXCEPT ![seg.conn] = Free]
    BY <1>4, Zenon DEF RxDrop, RxOutOfOrder, RxDone
  <2>2. pc'[RX] = "idle"
    BY <1>0, <1>1, <1>4 DEF RxDrop, RxOutOfOrder, RxDone, Goto
  <2>. QED
    BY <1>0, <1>1, <2>1, <2>2 DEF RxReturns, InTx
<1>5. CASE \/ \E f, n, r : \E l \in {"rx_established", "rx_done", "rx_opened", "rx_wake", "rx_time_wait"} :
                CallTx(RX, f, n, r, l) /\ Goto(RX, "tx") /\ seg' = seg
           \/ Goto(RX, "rx_wake") /\ seg' = seg
  <2>1. \/ pc'[RX] = "rx_wake"
        \/ /\ pc'[RX] = "tx"
           /\ tx'[RX].ret \in {"rx_established", "rx_done", "rx_opened", "rx_wake", "rx_time_wait"}
    BY <1>0, <1>5 DEF CallTx, Goto
  <2>. QED
    BY <1>5, <2>1 DEF RxReturns, InTx
<1>6. CASE RxSynSent
  BY <1>5, <1>6, Zenon DEF RxSynSent
<1>7. CASE RxSynReceived
  BY <1>5, <1>7, Zenon DEF RxSynReceived
<1>8. CASE RxText
  BY <1>5, <1>8, Zenon DEF RxText
<1>9. CASE RxFin
  <2>1. CASE Goto(RX, "idle")
    BY <1>0, <1>9, <2>1 DEF Goto, RxReturns, InTx
  <2>. QED
    BY <1>5, <1>9, <2>1, Zenon DEF RxFin
<1>10. CASE TxLock(RX)
  <2>1. pc[RX] = "tx" /\ pc'[RX] = "tx_add" /\ UNCHANGED tx /\ seg' = seg
    BY <1>0, <1>10 DEF TxLock, Goto
  <2>. QED
    BY <2>1 DEF RxReturns, InTx, ReleaseInv
<1>11. CASE TxAdd(RX)
  <2>1. pc[RX] = "tx_add" /\ seg' = seg /\
        \/ Goto(RX, tx[RX].ret) /\ tx' = [tx EXCEPT ![RX] = NoTx]
        \/ (Goto(RX, "tx_wait") \/ Goto(RX, "tx")) /\ \E n : tx' = [tx EXCEPT ![RX].sent = n]
    BY <1>11, Zenon DEF TxAdd
  <2>2. \/ pc'[RX] = tx[RX].ret
        \/ pc'[RX] \in {"tx_wait", "tx"} /\ tx'[RX].ret = tx[RX].ret
    BY <1>0, <2>1 DEF Goto, TxCalls
  <2>. QED
    BY <2>1, <2>2 DEF RxReturns, InTx, ReleaseInv
<1>. QED
  BY <1>2, <1>3, <1>4, <1>6, <1>7, <1>8, <1>9, <1>10, <1>11, Zenon DEF RxStep, Tx

\* The steps of tcp_rx.  It returns with tcb_lock held only after a FIN in
\* ESTABLISHED: the text of a segment is reached in no other state than
\* ESTABLISHED and FIN_WAIT_2 (TextInv).
LEMMA RxTcb ==
    ASSUME ReleaseInv, RxStep
    PROVE  TcbReleased'
<1>. DEFINE c == seg.conn
<1>0. /\ RX \notin Apps /\ RX \notin Conns /\ Free # RX /\ Free \notin Apps /\ Free \notin Conns
      /\ Conns \subseteq Threads /\ (\A a \in Apps : a \notin Conns)
      /\ ControlInv /\ TcbReleased /\ state \in [Conns -> States] /\ fin_rcvd \in [Conns -> BOOLEAN]
  BY ThreadsDistinct DEF Threads, ReleaseInv, StreamInv, ControlInv, TypeInv, TypeOK
<1>1. RxFrame
  BY <1>0, RxHolds, RxTakes, Zenon DEF RxStep
<1>2. /\ pc[RX] # "idle" /\ (RxBusy \/ tcb_lock[c] = Free)
      /\ UNCHANGED state \/ (RxBusy /\ \E s : state' = [state EXCEPT ![c] = s])
      /\ UNCHANGED fin_rcvd \/ fin_rcvd' = [fin_rcvd EXCEPT ![c] = TRUE]
  BY RxEffects
<1>3. c \in Conns /\ life[c] # "none" /\ tcb_lock[c] \in {RX, Free}
  BY <1>0, <1>2 DEF ControlInv, TypeInv, SegOK, LifeInv, LockInv
<1>4. \A d \in Conns : d # c => /\ state'[d] = state[d] /\ fin_rcvd'[d] = fin_rcvd[d]
                                /\ tcb_lock'[d] = tcb_lock[d]
  BY <1>0, <1>1, <1>2, <1>3 DEF RxFrame
<1>5. tcb_lock'[c] \in {RX, Free}
  BY <1>1, <1>3 DEF RxFrame, OwnLockOnly
<1>6. \A d \in Conns : life'[d] = "none" => life[d] = "none" /\ state'[d] = state[d]
  BY <1>1, <1>3, <1>4 DEF RxFrame
<1>7. \A d \in Conns, a \in Apps : tcb_lock'[d] = a /\ state'[d] = "ESTABLISHED" =>
                                     tcb_lock[d] = a /\ state[d] = "ESTABLISHED"
  BY <1>0, <1>4, <1>5
<1>8. ASSUME NEW d \in Conns, Abandoned(d)' PROVE fin_rcvd'[d] /\ state'[d] = "ESTABLISHED"
  <2>1. CASE d # c
    <3>1. Abandoned(d)
      BY <1>4, <1>8, <2>1 DEF Abandoned
    <3>. QED
      BY <1>0, <1>4, <2>1, <3>1 DEF TcbReleased
  <2>2. CASE d = c
    <3>1. tcb_lock'[c] # Free /\ ~(pc'[RX] \notin {"idle", "rx_tcb"} /\ seg' = seg)
      BY <1>0, <1>8, <2>2 DEF Abandoned, RxBusy
    <3>2. RxFin
      BY <3>1, RxGoes
    <3>3. state[c] \in {"ESTABLISHED", "FIN_WAIT_2"}
      BY <3>2 DEF RxFin, RxAt, ReleaseInv, StreamInv, Received, TextInv, RxInText
    <3>4. ~(Goto(RX, "tx") /\ UNCHANGED seg)
      <4>1. pc \in [Threads -> Labels] /\ RX \in Threads
        BY <1>0 DEF ControlInv, TypeInv, TypeOK, Threads
      <4>. QED
        BY <3>1, <4>1 DEF Goto
    <3>5. state[c] = "ESTABLISHED" /\ UNCHANGED state
      BY <3>2, <3>3, <3>4 DEF RxFin
    <3>6. fin_rcvd' = [fin_rcvd EXCEPT ![c] = TRUE]
      BY <3>2, Zenon DEF RxFin
    <3>. QED
      BY <1>0, <1>3, <2>2, <3>5, <3>6
  <2>. QED
    BY <2>1, <2>2
<1>9. ASSUME NEW d \in Conns, tcb_lock'[d] = d PROVE pc'[d] = "tw_stop"
  <2>1. d # c /\ tcb_lock[d] = d
    BY <1>0, <1>4, <1>5, <1>9
  <2>2. pc[d] = "tw_stop" /\ d \notin {RX, c}
    BY <1>0, <2>1 DEF TcbReleased
  <2>. QED
    BY <1>0, <2>2, RxMoves DEF WaitLabels
<1>. QED
  BY <1>0, <1>6, <1>7, <1>8, <1>9, TcbStep

\* The steps of close_connection.
LEMMA TimeWaitTcb ==
    ASSUME ReleaseInv, NEW c \in Conns, TimeWait(c)
    PROVE  TcbReleased' /\ \A u \in Threads \ {c} : pc[u] \notin WaitLabels => pc'[u] = pc[u]
<1>0. /\ RX \notin Conns /\ Free # RX /\ Free \notin Apps /\ Free \notin Conns
      /\ Conns \subseteq Threads /\ (\A a \in Apps : a \notin Conns)
      /\ ControlInv /\ TcbReleased /\ state \in [Conns -> States]
      /\ tcb_lock \in [Conns -> Threads \cup {Free}] /\ pc \in [Threads -> Labels]
  BY ThreadsDistinct DEF Threads, ReleaseInv, StreamInv, ControlInv, TypeInv, TypeOK
<1>1. /\ AppsKept /\ UNCHANGED <<life, tx, seg>> /\ pc'[RX] = pc[RX]
  BY <1>0, TimeWaitControl
<1>2. UNCHANGED fin_rcvd /\ pc[c] # "idle"
  BY Zenon DEF TimeWait, CloseConnectionLock, CloseConnection, tcbVars, rcvVars
<1>3. \/ /\ tcb_lock[c] = Free /\ tcb_lock' = [tcb_lock EXCEPT ![c] = c]
         /\ Goto(c, "tw_stop") /\ UNCHANGED state
      \/ /\ tcb_lock[c] = c /\ tcb_lock' = [tcb_lock EXCEPT ![c] = Free]
         /\ GotoSignalling(c, "idle", TcbWaiters(c)) /\ state' = [state EXCEPT ![c] = "CLOSED"]
  BY <1>0 DEF TimeWait, CloseConnectionLock, CloseConnection, tcbVars, ControlInv, LockInv
<1>4. \A u \in Threads \ {c} : pc[u] \notin WaitLabels => pc'[u] = pc[u]
  <2>1. CASE \E l : pc' = [pc EXCEPT ![c] = l]
    BY <1>0, <2>1
  <2>2. CASE \E w \in TcbWaiters(c) : pc' = [pc EXCEPT ![c] = "idle", ![w] = Woken(w)]
    <3>1. \A w \in TcbWaiters(c) : pc[w] \in WaitLabels
      BY WaitersWait
    <3>. QED
      BY <1>0, <2>2, <3>1
  <2>. QED
    BY <1>3, <2>1, <2>2, Zenon DEF Goto, GotoSignalling
<1>5. life[c] # "none"
  BY <1>0, <1>2 DEF ControlInv, LifeInv
<1>6. \A d \in Conns : d # c => state'[d] = state[d] /\ tcb_lock'[d] = tcb_lock[d]
  BY <1>0, <1>3
<1>7. tcb_lock'[c] \in {c, Free} /\ (tcb_lock'[c] = c => pc'[c] = "tw_stop")
  BY <1>0, <1>3 DEF Goto
<1>8. \A d \in Conns : life'[d] = "none" => life[d] = "none" /\ state'[d] = state[d]
  BY <1>1, <1>5, <1>6
<1>9. \A d \in Conns, a \in Apps : tcb_lock'[d] = a /\ state'[d] = "ESTABLISHED" =>
                                     tcb_lock[d] = a /\ state[d] = "ESTABLISHED"
  BY <1>0, <1>6, <1>7
<1>10. ASSUME NEW d \in Conns, Abandoned(d)' PROVE fin_rcvd'[d] /\ state'[d] = "ESTABLISHED"
  <2>1. d # c
    BY <1>0, <1>7, <1>10 DEF Abandoned
  <2>2. Abandoned(d)
    BY <1>1, <1>6, <1>10, <2>1 DEF Abandoned, RxBusy
  <2>. QED
    BY <1>0, <1>2, <1>6, <2>1, <2>2 DEF TcbReleased
<1>11. \A d \in Conns : tcb_lock'[d] = d => pc'[d] = "tw_stop"
  BY <1>0, <1>4, <1>6, <1>7 DEF TcbReleased, WaitLabels
<1>12. TcbReleased'
  BY <1>0, <1>8, <1>9, <1>10, <1>11, TcbStep
<1>. QED
  BY <1>4, <1>12

\* A step outside connect, close, tcp_rx and close_connection.
LEMMA ElsewhereTcb ==
    ASSUME TcbReleased, UNCHANGED <<life, state, fin_rcvd, tcb_lock>>,
           \A d \in Conns : pc'[d] = pc[d],
           ~RxBusy \/ (pc'[RX] = pc[RX] /\ seg' = seg)
    PROVE  TcbReleased'
<1>1. \A d \in Conns : Abandoned(d)' => Abandoned(d)
  BY DEF Abandoned, RxBusy
<1>. QED
  BY <1>1 DEF TcbReleased

-----------------------------------------------------------------------------
(* send_lock.                                                              *)

SendLabels == {"tx_add", "rx_state"}

\* A step that is not one of the senders' own.
LEMMA SendElsewhere ==
    ASSUME SendReleased, UNCHANGED send_lock,
           \A u \in Senders : pc[u] \in SendLabels => pc'[u] = pc[u] /\ ConnOf(u)' = ConnOf(u)
    PROVE  SendReleased'
BY DEF SendReleased, SendLabels

\* A step of sender t that needs no send_lock, releases that of its connection,
\* or takes it and goes where it is held.
LEMMA SendStep ==
    ASSUME SendReleased, send_lock \in [Conns -> Threads \cup {Free}],
           NEW t \in Senders, ConnOf(t) \in Conns, t \in Threads,
           \A u \in Senders \ {t} : pc[u] \in SendLabels => pc'[u] = pc[u] /\ ConnOf(u)' = ConnOf(u),
           \/ UNCHANGED send_lock /\ pc[t] \notin SendLabels
           \/ send_lock' = [send_lock EXCEPT ![ConnOf(t)] = Free]
           \/ /\ send_lock' = [send_lock EXCEPT ![ConnOf(t)] = t] /\ pc[t] \notin SendLabels
              /\ pc'[t] \in SendLabels /\ ConnOf(t)' = ConnOf(t)
    PROVE  SendReleased'
<1>0. Free \notin Threads
  BY ThreadsDistinct DEF Threads
<1>1. SUFFICES ASSUME NEW d \in Conns, NEW u \in Threads, send_lock'[d] = u
               PROVE  u \in Senders /\ ConnOf(u)' = d /\ pc'[u] \in SendLabels
  BY DEF SendReleased, SendLabels
<1>2. CASE u # t
  <2>1. send_lock[d] = u
    BY <1>0, <1>1, <1>2
  <2>. QED
    BY <1>2, <2>1 DEF SendReleased, SendLabels
<1>3. CASE u = t
  <2>1. CASE send_lock[d] = t
    <3>1. ConnOf(t) = d /\ pc[t] \in SendLabels
      BY <2>1 DEF SendReleased, SendLabels
    <3>2. send_lock' = [send_lock EXCEPT ![d] = Free]
      BY <3>1
    <3>. QED
      BY <1>0, <1>1, <3>2
  <2>2. CASE send_lock[d] # t
    BY <1>0, <1>1, <1>3, <2>2
  <2>. QED
    BY <2>1, <2>2
<1>. QED
  BY <1>2, <1>3

\* The steps of the applications.
LEMMA AppSend ==
    ASSUME ReleaseInv, NEW a \in Apps, App(a) \/ SpuriousWakeup(a)
    PROVE  SendReleased'
<1>0. /\ a \in Senders /\ a \in Threads /\ a # RX /\ ConnOf(a) = AppConn[a] /\ AppConn[a] \in Conns
      /\ send_lock \in [Conns -> Threads \cup {Free}] /\ pc \in [Threads -> Labels]
      /\ Senders \subseteq Threads /\ ControlInv /\ SendReleased
  BY EnvAssumption, ThreadsDistinct
     DEF Threads, Senders, ConnOf, ReleaseInv, StreamInv, ControlInv, TypeInv, TypeOK
<1>1. OthersKept(a)
  BY <1>0, AppConnects, AppTransfers, AppCloses, AppWaits, Zenon DEF App, AppFrame
<1>2. \A u \in Senders \ {a} : pc[u] \in SendLabels => pc'[u] = pc[u] /\ ConnOf(u)' = ConnOf(u)
  BY <1>0, <1>1 DEF OthersKept, ConnOf
<1>3. \/ UNCHANGED send_lock /\ pc[a] \notin SendLabels
      \/ TxLock(a) \/ TxAdd(a)
  <2>1. CASE Connect(a) \/ ConnectSent(a) \/ ConnectWoken(a) \/ Send(a)
    BY <2>1 DEF Connect, ConnectSent, ConnectWoken, Send, Calling, locks, SendLabels
  <2>2. CASE Recv(a) \/ RecvLock(a) \/ RecvWoken(a)
    BY <2>2 DEF Recv, RecvLock, RecvWoken, Calling, locks, SendLabels
  <2>3. CASE Close(a) \/ CloseLock(a) \/ CloseSent(a) \/ CloseWoken(a)
    BY <2>3 DEF Close, CloseLock, CloseSent, CloseWoken, Calling, locks, SendLabels
  <2>4. CASE SpuriousWakeup(a)
    BY <2>4 DEF SpuriousWakeup, locks, SendLabels
  <2>. QED
    BY <2>1, <2>2, <2>3, <2>4, Zenon DEF App, Tx
<1>4. CASE TxLock(a)
  <2>1. /\ send_lock' = [send_lock EXCEPT ![ConnOf(a)] = a] /\ pc[a] \notin SendLabels
        /\ pc'[a] \in SendLabels /\ ConnOf(a)' = ConnOf(a)
    BY <1>0, <1>4 DEF TxLock, Goto, SendLabels, ConnOf
  <2>. QED
    BY <1>0, <1>2, <2>1, SendStep
<1>5. CASE TxAdd(a)
  <2>1. send_lock' = [send_lock EXCEPT ![ConnOf(a)] = Free]
    BY <1>5 DEF TxAdd
  <2>. QED
    BY <1>0, <1>2, <2>1, SendStep
<1>. QED
  BY <1>0, <1>2, <1>3, <1>4, <1>5, SendStep

\* The steps of tcp_rx.
LEMMA RxSend ==
    ASSUME ReleaseInv, RxStep
    PROVE  SendReleased'
<1>0. /\ RX \in Senders /\ RX \in Threads /\ ConnOf(RX) = seg.conn
      /\ send_lock \in [Conns -> Threads \cup {Free}] /\ pc \in [Threads -> Labels]
      /\ Senders \subseteq Threads /\ ControlInv /\ SendReleased
      /\ Senders = Apps \cup {RX} /\ Apps \cap Conns = {}
  BY ThreadsDistinct
     DEF Threads, Senders, ConnOf, ReleaseInv, StreamInv, ControlInv, TypeInv, TypeOK
<1>1. seg.conn \in Conns
  BY <1>0, RxEffects DEF ControlInv, TypeInv, SegOK
<1>2. \A u \in Senders \ {RX} : pc[u] \in SendLabels => pc'[u] = pc[u] /\ ConnOf(u)' = ConnOf(u)
  BY <1>0, <1>1, RxMoves DEF ConnOf, SendLabels, WaitLabels
<1>3. CASE UNCHANGED send_lock /\ pc[RX] \notin SendLabels
  BY <1>0, <1>1, <1>2, <1>3, SendStep
<1>4. CASE send_lock' = [send_lock EXCEPT ![seg.conn] = Free]
  BY <1>0, <1>1, <1>2, <1>4, SendStep
<1>5. CASE TxLock(RX) \/ RxLockSend
  <2>1. /\ send_lock' = [send_lock EXCEPT ![ConnOf(RX)] = RX] /\ pc[RX] \notin SendLabels
        /\ pc'[RX] \in SendLabels /\ ConnOf(RX)' = ConnOf(RX)
    BY <1>0, <1>5 DEF TxLock, RxLockSend, RxAt, Goto, SendLabels, ConnOf
  <2>. QED
    BY <1>0, <1>1, <1>2, <2>1, SendStep
<1>6. CASE RxLockTcb \/ RxEstablished \/ RxOpened \/ RxOutOfOrder \/ RxText
  BY <1>3, <1>6 DEF RxLockTcb, RxEstablished, RxOpened, RxOutOfOrder, RxText, RxAt, locks, SendLabels
<1>7. CASE RxWake \/ RxNoText \/ RxFin \/ RxDone
  BY <1>3, <1>7 DEF RxWake, RxNoText, RxFin, RxDone, RxAt, locks, SendLabels
<1>8. CASE RxDrop \/ RxSynSent \/ RxSynReceived \/ RxAckEstablished \/ RxAckFinWait1 \/ TxAdd(RX)
  BY <1>0, <1>4, <1>8, Zenon DEF RxDrop, RxSynSent, RxSynReceived, RxAckEstablished, RxAckFinWait1, TxAdd
<1>. QED
  BY <1>5, <1>6, <1>7, <1>8, Zenon DEF RxStep, Tx

-----------------------------------------------------------------------------
(* All steps together.                                                     *)

\* A step that leaves the mutexes and the connections alone: of the
\* retransmission thread, of an ARP reply, or none.
LEMMA QuietRelease ==
    ASSUME ReleaseInv, UNCHANGED <<life, state, fin_rcvd, tcb_lock, send_lock, tx, seg>>,
           \A u \in Threads : u # RTX /\ pc[u] \notin WaitLabels => pc'[u] = pc[u],
           \A u \in Conns \cup {RX} : pc'[u] = pc[u]
    PROVE  TcbReleased' /\ SendReleased' /\ RxReturns'
<1>0. RTX \notin Senders /\ Senders \subseteq Threads /\ TcbReleased /\ SendReleased /\ RxReturns
  BY ThreadsDistinct DEF Senders, Threads, ReleaseInv
<1>1. \A u \in Senders : pc[u] \in SendLabels => pc'[u] = pc[u] /\ ConnOf(u)' = ConnOf(u)
  BY <1>0 DEF SendLabels, WaitLabels, ConnOf
<1>2. RxReturns'
  BY <1>0 DEF RxReturns, InTx
<1>. QED
  BY <1>0, <1>1, <1>2, ElsewhereTcb, SendElsewhere

\* A segment that arrives.
LEMMA ArrivalRelease ==
    ASSUME ReleaseInv, NEW c \in Conns, RxSegment(c)
    PROVE  TcbReleased' /\ SendReleased' /\ RxReturns'
<1>0. /\ RX \in Threads /\ RX \notin Conns /\ RX \notin Apps /\ Senders = Apps \cup {RX}
      /\ Apps \subseteq Threads /\ Conns \subseteq Threads /\ pc \in [Threads -> Labels]
      /\ TcbReleased /\ SendReleased
  BY ThreadsDistinct DEF Senders, Threads, ReleaseInv, StreamInv, ControlInv, TypeInv, TypeOK
<1>1. pc[RX] = "idle" /\ UNCHANGED <<life, state, fin_rcvd, tcb_lock, send_lock, tx>>
  BY DEF RxSegment, RxAt, tcbVars, rcvVars, locks
<1>2. UNCHANGED pc \/ Goto(RX, "rx_tcb")
  BY Zenon DEF RxSegment
<1>3. pc'[RX] \in {"idle", "rx_tcb"} /\ \A u \in Threads : u # RX => pc'[u] = pc[u]
  BY <1>0, <1>1, <1>2 DEF Goto
<1>4. TcbReleased'
  BY <1>0, <1>1, <1>3, ElsewhereTcb DEF RxBusy
<1>5. \A u \in Senders : pc[u] \in SendLabels => pc'[u] = pc[u] /\ ConnOf(u)' = ConnOf(u)
  BY <1>0, <1>1, <1>3 DEF SendLabels, ConnOf
<1>6. SendReleased'
  BY <1>0, <1>1, <1>5, SendElsewhere
<1>. QED
  BY <1>3, <1>4, <1>6 DEF RxReturns, InTx

\* The retransmission thread moves itself and the waiting threads it signals.
LEMMA RtxMoves ==
    ASSUME ReleaseInv, Rtx
    PROVE  \A u \in Threads : u # RTX /\ pc[u] \notin WaitLabels => pc'[u] = pc[u]
<1>0. pc \in [Threads -> Labels] /\ RTX \in Threads
  BY DEF Threads, ReleaseInv, StreamInv, ControlInv, TypeInv, TypeOK
<1>1. CASE \E l : pc' = [pc EXCEPT ![RTX] = l]
  BY <1>0, <1>1
<1>2. CASE \E c : GotoSignalling(RTX, "rtx_scan", TcbWaiters(c))
  <2>1. PICK c : GotoSignalling(RTX, "rtx_scan", TcbWaiters(c))
    BY <1>2
  <2>2. CASE \E w \in TcbWaiters(c) : pc' = [pc EXCEPT ![RTX] = "rtx_scan", ![w] = Woken(w)]
    <3>1. \A w \in TcbWaiters(c) : pc[w] \in WaitLabels
      BY WaitersWait
    <3>. QED
      BY <1>0, <2>2, <3>1
  <2>. QED
    BY <1>1, <2>1, <2>2, Zenon DEF GotoSignalling
<1>. QED
  BY <1>1, <1>2, Zenon DEF Rtx, RtxLock, RtxDone, RtxSend, RtxGiveUp, Goto

\* Every step keeps the mutexes released.
LEMMA NextRelease ==
    ASSUME ReleaseInv, [Next]_vars, "corrupts" \notin Env
    PROVE  TcbReleased' /\ SendReleased' /\ RxReturns'
<1>0. ControlInv /\ TcbReleased /\ SendReleased /\ RxReturns
  BY DEF ReleaseInv, StreamInv
<1>1. CASE \E a \in Apps : App(a) \/ SpuriousWakeup(a)
  <2>1. PICK a \in Apps : App(a) \/ SpuriousWakeup(a)
    BY <1>1
  <2>2. OthersKept(a)
    BY <1>0, <2>1, AppConnects, AppTransfers, AppCloses, AppWaits, Zenon DEF App, AppFrame
  <2>3. RX \in Threads \ {a} /\ RX \in Senders \ {a}
    BY ThreadsDistinct DEF Threads, Senders
  <2>4. RxReturns'
    BY <1>0, <2>2, <2>3 DEF OthersKept, RxReturns, InTx
  <2>. QED
    BY <2>1, <2>4, AppTcb, AppSend
<1>2. CASE Arrival
  BY <1>2, ArrivalRelease, Zenon DEF Arrival, RxBadSegment
<1>3. CASE RxStep
  BY <1>3, RxTcb, RxSend, RxGoes
<1>4. CASE UNCHANGED vars \/ \E h : RxArpReply(h)
  <2>1. UNCHANGED <<life, state, fin_rcvd, tcb_lock, send_lock, tx, seg, pc>>
    BY <1>4, Zenon DEF vars, RxArpReply, tcbVars, rcvVars, locks, thrVars
  <2>. QED
    BY <2>1, QuietRelease
<1>5. CASE \E c \in Conns : TimeWait(c)
  <2>1. PICK c \in Conns : TimeWait(c)
    BY <1>5
  <2>2. /\ TcbReleased' /\ \A u \in Threads \ {c} : pc[u] \notin WaitLabels => pc'[u] = pc[u]
    BY <2>1, TimeWaitTcb
  <2>3. UNCHANGED <<tx, seg>> /\ pc'[RX] = pc[RX]
    BY <1>0, <2>1, TimeWaitControl
  <2>4. UNCHANGED send_lock
    BY <2>1, Zenon DEF TimeWait, CloseConnectionLock, CloseConnection
  <2>5. Senders \subseteq Threads /\ c \notin Senders
    BY ThreadsDistinct DEF Senders, Threads
  <2>6. \A u \in Senders : pc[u] \in SendLabels => pc'[u] = pc[u] /\ ConnOf(u)' = ConnOf(u)
    BY <2>2, <2>3, <2>5 DEF SendLabels, WaitLabels, ConnOf
  <2>7. RxReturns'
    BY <1>0, <2>3 DEF RxReturns, InTx
  <2>. QED
    BY <1>0, <2>2, <2>4, <2>6, <2>7, SendElsewhere
<1>6. CASE Rtx
  <2>1. /\ UNCHANGED <<life, state, rcvVars, tcb_lock, seg, tx>>
        /\ \A u \in Threads \ Apps : u # RTX => pc'[u] = pc[u]
    BY <1>0, <1>6, RtxControl
  <2>2. UNCHANGED fin_rcvd
    BY <2>1 DEF rcvVars
  <2>3. UNCHANGED send_lock
    BY <1>6, Zenon DEF Rtx, RtxLock, RtxDone, RtxSend, RtxGiveUp, locks
  <2>4. \A u \in Conns \cup {RX} : u \in Threads \ Apps /\ u # RTX
    BY ThreadsDistinct DEF Threads
  <2>. QED
    BY <1>6, <2>1, <2>2, <2>3, <2>4, RtxMoves, QuietRelease
<1>. QED
  BY <1>1, <1>2, <1>3, <1>4, <1>5, <1>6, Zenon DEF Next

\* The inductive invariant, from the one of the received stream.
THEOREM ReleaseInvariant ==
    ASSUME "corrupts" \notin Env PROVE Spec => []ReleaseInv
<1>1. Init => TcbReleased /\ SendReleased /\ RxReturns
  <2>0. /\ Free \notin Threads /\ RX \in Threads /\ Free # RX
    BY ThreadsDistinct DEF Threads
  <2>. QED
    BY <2>0, ThreadsDistinct, SMTT(30) DEF Init, TcbReleased, SendReleased, RxReturns, Abandoned, InTx
<1>2. ReleaseInv /\ [Next]_vars => TcbReleased' /\ SendReleased' /\ RxReturns'
  BY NextRelease
<1>3. StreamInv /\ TcbReleased /\ SendReleased /\ RxReturns <=> ReleaseInv
  BY DEF ReleaseInv
<1>4. Spec => []StreamInv
  BY StreamInvariant
<1>. QED
  BY <1>1, <1>2, <1>3, <1>4, PTL DEF Spec

\* The mutexes of a tcb are released by whoever took them: between two calls an
\* application holds tcb_lock only of a connection that close found outside
\* ESTABLISHED (anpwrapper.c:330), tcp_rx only of one whose peer sent a FIN in
\* ESTABLISHED (tcp.c:410), close_connection never, and send_lock is held only
\* inside tcp_tx and the state switch of tcp_rx.  Segments that fail the length
\* or checksum test are excluded.
THEOREM MutexesReleased ==
    ASSUME "corrupts" \notin Env PROVE Spec => []LocksAreReleased
<1>1. ReleaseInv => LocksAreReleased
  <2>1. SUFFICES ASSUME ReleaseInv PROVE LocksAreReleased
    OBVIOUS
  <2>2. TcbReleased /\ SendReleased /\ send_lock \in [Conns -> Threads \cup {Free}]
    BY <2>1 DEF ReleaseInv, StreamInv, ControlInv, TypeInv, TypeOK
  <2>3. \A c \in Conns : tcb_lock[c] = RX /\ seg.conn # c => Abandoned(c)
    BY DEF Abandoned
  <2>. QED
    BY <2>2, <2>3 DEF LocksAreReleased, TcbReleased, SendReleased
<1>. QED
  BY <1>1, ReleaseInvariant, PTL

-----------------------------------------------------------------------------
(* close returns 0, and frees the tcb, only after the peer's FIN: with     *)
(* corrupt segments, spurious wake-ups and signals meant for others.       *)

\* Application a is in close, past the test of ESTABLISHED.
InClose(a) ==
    LET close == {"close_sent", "close_wait", "close_woken"}
    IN  pc[a] \in close \/ (InTx(a) /\ tx[a].ret \in close)

\* tcp_rx is about to start the timer of close_connection.
InTimeWait == pc[RX] = "rx_time_wait" \/ (InTx(RX) /\ tx[RX].ret = "rx_time_wait")

\* CloseIsAnswered is not inductive.  The state is CLOSED before connect too,
\* but a close under way began in ESTABLISHED, so that only close_connection
\* can have set it; the timer of that one is started after a FIN alone.
AnsweredInv ==
    /\ \A a \in Apps : InClose(a) => state[AppConn[a]] # "CLOSED" \/ fin_rcvd[AppConn[a]]
    /\ \A c \in Conns : pc[c] # "idle" => fin_rcvd[c]
    /\ InTimeWait => fin_rcvd[seg.conn]
    /\ CloseIsAnswered

-----------------------------------------------------------------------------
(* Steps that can start nothing.                                           *)

\* A step that counts no FIN away, closes no connection, frees no tcb.
Harmless ==
    \A c \in Conns : /\ fin_rcvd[c] => fin_rcvd'[c]
                     /\ state'[c] = "CLOSED" => state[c] = "CLOSED"
                     /\ life'[c] = "freed" => life[c] = "freed"

\* No application enters close.
NoneCloses == \A a \in Apps : InClose(a)' => InClose(a)

\* No timer of close_connection is started, and tcp_rx does not come nearer.
NoTimer ==
    /\ \A c \in Conns : pc'[c] # "idle" => pc[c] # "idle"
    /\ InTimeWait' => InTimeWait /\ seg' = seg

\* Such steps keep the invariant.
LEMMA HarmlessKeeps ==
    ASSUME TypeInv, AnsweredInv, Harmless, NoneCloses, NoTimer
    PROVE  AnsweredInv'
<1>0. AppConn \in [Apps -> Conns]
  BY EnvAssumption
<1>1. InTimeWait => seg.conn \in Conns
  BY DEF TypeInv, SegOK, InTimeWait, InTx
<1>2. \A a \in Apps : InClose(a)' => state'[AppConn[a]] # "CLOSED" \/ fin_rcvd'[AppConn[a]]
  BY <1>0 DEF AnsweredInv, Harmless, NoneCloses
<1>3. \A c \in Conns : pc'[c] # "idle" => fin_rcvd'[c]
  BY DEF AnsweredInv, Harmless, NoTimer
<1>4. InTimeWait' => fin_rcvd'[seg'.conn]
  BY <1>1 DEF AnsweredInv, Harmless, NoTimer
<1>5. CloseIsAnswered'
  BY DEF AnsweredInv, Harmless, CloseIsAnswered
<1>. QED
  BY <1>2, <1>3, <1>4, <1>5, Zenon DEF AnsweredInv

\* A signal moves nobody into close, into TIME_WAIT or into close_connection
\* but the thread that gives it.
LEMMA SignalMoves ==
    ASSUME TypeInv, NEW t \in Threads \ Apps, NEW l \in Labels, NEW W, GotoSignalling(t, l, W),
           \A w \in W : \E c : w \in TcbWaiters(c) \cup SendWaiters(c),
           \A a \in Apps : tx'[a] = tx[a]
    PROVE  /\ NoneCloses /\ pc'[t] = l
           /\ \A u \in Threads \ Apps : u # t => pc'[u] = pc[u]
<1>0. pc \in [Threads -> Labels] /\ Apps \subseteq Threads
  BY DEF TypeInv, TypeOK, Threads
<1>1. \A w \in W : w \in Apps /\ pc[w] \in {"connect_wait", "recv_wait", "close_wait", "tx_wait"}
  BY DEF TcbWaiters, SendWaiters
<1>2. CASE W = {} /\ pc' = [pc EXCEPT ![t] = l]
  BY <1>0, <1>2 DEF NoneCloses, InClose, InTx
<1>3. CASE \E w \in W : pc' = [pc EXCEPT ![t] = l, ![w] = Woken(w)]
  <2>1. PICK w \in W : pc' = [pc EXCEPT ![t] = l, ![w] = Woken(w)]
    BY <1>3, Zenon
  <2>2. /\ w \in Apps /\ w # t /\ pc'[w] = Woken(w) /\ pc'[t] = l
        /\ \A u \in Threads : u \notin {t, w} => pc'[u] = pc[u]
    BY <1>0, <1>1, <2>1
  <2>3. \/ pc'[w] = "tx" /\ pc[w] = "tx_wait"
        \/ pc'[w] = "close_woken" /\ pc[w] = "close_wait"
        \/ pc'[w] \in {"connect_woken", "recv_woken"}
    BY <1>1, <2>2 DEF Woken
  <2>4. ASSUME NEW a \in Apps, InClose(a)' PROVE InClose(a)
    <3>1. CASE a = w
      BY <3>1, <2>2, <2>3, <2>4 DEF InClose, InTx
    <3>2. CASE a # w
      BY <3>2, <1>0, <2>2, <2>4 DEF InClose, InTx
    <3>. QED
      BY <3>1, <3>2
  <2>. QED
    BY <2>2, <2>4 DEF NoneCloses
<1>. QED
  BY <1>2, <1>3 DEF GotoSignalling

-----------------------------------------------------------------------------
(* The socket calls.                                                       *)

\* A step of application a leaves the other threads where they are.
OnlyMoves(a) ==
    /\ \A u \in Threads \ {a} : pc'[u] = pc[u]
    /\ \A u \in Senders \ {a} : tx'[u] = tx[u]
    /\ seg' = seg

\* It then matters only where a itself goes.
LEMMA OnlyAppMoves ==
    ASSUME NEW a \in Apps, OnlyMoves(a)
    PROVE  NoTimer /\ ((InClose(a)' => InClose(a)) => NoneCloses)
<1>0. /\ Apps \subseteq Threads /\ Conns \subseteq Threads /\ RX \in Threads /\ RX \in Senders
      /\ Apps \subseteq Senders /\ a # RX /\ a \notin Conns
  BY ThreadsDistinct DEF Threads, Senders
<1>1. NoTimer
  BY <1>0 DEF OnlyMoves, NoTimer, InTimeWait, InTx
<1>2. ASSUME NEW b \in Apps, b # a, InClose(b)' PROVE InClose(b)
  BY <1>0, <1>2 DEF OnlyMoves, InClose, InTx
<1>. QED
  BY <1>1, <1>2 DEF NoneCloses

\* connect, send and recv, the entry of close, and a wait that ends by itself.
LEMMA CallsAnswered ==
    ASSUME TypeInv, AnsweredInv, NEW a \in Apps,
           \/ Connect(a) \/ ConnectSent(a) \/ ConnectWoken(a) \/ Send(a) \/ Recv(a)
           \/ RecvLock(a) \/ RecvWoken(a) \/ Close(a) \/ CloseSent(a) \/ SpuriousWakeup(a)
    PROVE  AnsweredInv'
<1>0. /\ AppConn[a] \in Conns /\ a \in Threads /\ a \in Senders
      /\ pc \in [Threads -> Labels] /\ tx \in [Senders -> TxCalls]
      /\ state \in [Conns -> States] /\ life \in [Conns -> {"none", "live", "freed"}]
  BY EnvAssumption DEF Threads, Senders, TypeInv, TypeOK
<1>1. OnlyMoves(a)
  <2>1. UNCHANGED seg
    BY Zenon DEF Connect, ConnectSent, ConnectWoken, Send, Recv, RecvLock, RecvWoken, Close,
                 CloseSent, SpuriousWakeup
  <2>2. UNCHANGED pc \/ \E l : Goto(a, l)
    BY Zenon DEF Connect, ConnectSent, ConnectWoken, Send, Recv, RecvLock, RecvWoken, ReadBytes,
                 Close, CloseSent, SpuriousWakeup
  <2>3. UNCHANGED tx \/ \E v : tx' = [tx EXCEPT ![a] = v]
    BY Zenon DEF Connect, ConnectSent, ConnectWoken, Send, Recv, RecvLock, RecvWoken, ReadBytes,
                 CallTx, Close, CloseSent, SpuriousWakeup
  <2>. QED
    BY <1>0, <2>1, <2>2, <2>3 DEF OnlyMoves, Goto
<1>2. Harmless
  <2>1. UNCHANGED fin_rcvd
    BY Zenon DEF Connect, ConnectSent, ConnectWoken, Send, Recv, RecvLock, RecvWoken, ReadBytes,
                 Close, CloseSent, SpuriousWakeup, tcbVars, rcvVars
  <2>2. UNCHANGED state \/ \E d \in Conns : state' = [state EXCEPT ![d] = "SYN_SENT"]
    BY <1>0, Zenon DEF Connect, ConnectSent, ConnectWoken, Send, Recv, RecvLock, RecvWoken,
                       Close, CloseSent, SpuriousWakeup, tcbVars
  <2>3. UNCHANGED life \/ \E d \in Conns : life' = [life EXCEPT ![d] = "live"]
    BY <1>0, Zenon DEF Connect, ConnectSent, ConnectWoken, Send, Recv, RecvLock, RecvWoken,
                       Close, CloseSent, SpuriousWakeup, tcbVars
  <2>. QED
    BY <1>0, <2>1, <2>2, <2>3 DEF Harmless
<1>3. InClose(a)' => InClose(a)
  <2>1. CASE Connect(a) \/ Send(a)
    <3>1. \/ pc'[a] = pc[a] /\ tx'[a] = tx[a]
          \/ pc'[a] = "tx" /\ tx'[a].ret \in {"connect_sent", "idle"}
      <4>1. \/ UNCHANGED <<pc, tx>>
            \/ Goto(a, "tx") /\ \E r \in {"connect_sent", "idle"} : \E f, n, k : CallTx(a, f, n, k, r)
        BY <2>1, Zenon DEF Connect, Send
      <4>. QED
        BY <1>0, <4>1 DEF CallTx, Goto
    <3>. QED
      BY <3>1 DEF InClose, InTx
  <2>2. CASE ConnectSent(a) \/ ConnectWoken(a) \/ RecvLock(a) \/ RecvWoken(a)
    <3>1. pc'[a] \in {"connect_wait", "idle", "recv_wait"}
      BY <1>0, <2>2 DEF ConnectSent, ConnectWoken, RecvLock, RecvWoken, ReadBytes, Goto
    <3>. QED
      BY <3>1 DEF InClose, InTx
  <2>3. CASE Recv(a) \/ Close(a)
    <3>1. pc'[a] \in {"idle", "recv_lock", "close_lock"}
      BY <1>0, <2>3 DEF Recv, Close, Calling, Goto
    <3>. QED
      BY <3>1 DEF InClose, InTx
  <2>4. CASE CloseSent(a)
    BY <2>4 DEF CloseSent, InClose
  <2>5. CASE SpuriousWakeup(a)
    <3>1. /\ tx'[a] = tx[a]
          /\ \/ pc'[a] = "tx" /\ pc[a] = "tx_wait"
             \/ pc'[a] = "close_woken" /\ pc[a] = "close_wait"
             \/ pc'[a] \in {"connect_woken", "recv_woken"}
      BY <1>0, <2>5 DEF SpuriousWakeup, Goto, Woken
    <3>. QED
      BY <3>1 DEF InClose, InTx
  <2>. QED
    BY <2>1, <2>2, <2>3, <2>4, <2>5
<1>. QED
  BY <1>1, <1>2, <1>3, OnlyAppMoves, HarmlessKeeps, Zenon

\* tcp_tx returns to its caller, and to nobody else.
LEMMA TxReturns ==
    ASSUME TypeInv, NEW t \in Senders, Tx(t)
    PROVE  /\ OnlyMoves(t) /\ Harmless /\ InTx(t)
           /\ \/ pc'[t] = tx[t].ret /\ tx'[t].ret = "idle"
              \/ InTx(t)' /\ tx'[t].ret = tx[t].ret
<1>0. /\ t \in Threads /\ pc \in [Threads -> Labels] /\ tx \in [Senders -> TxCalls]
  BY DEF Threads, Senders, TypeInv, TypeOK
<1>1. UNCHANGED <<life, state, fin_rcvd, seg>>
  BY Zenon DEF Tx, TxLock, TxAdd, tcbVars, rcvVars
<1>2. CASE TxLock(t)
  <2>1. UNCHANGED tx /\ Goto(t, "tx_add") /\ pc[t] = "tx"
    BY <1>2, Zenon DEF TxLock
  <2>. QED
    BY <1>0, <1>1, <2>1 DEF OnlyMoves, Harmless, InTx, Goto
<1>3. CASE TxAdd(t)
  <2>1. pc[t] = "tx_add" /\
        \/ Goto(t, tx[t].ret) /\ tx' = [tx EXCEPT ![t] = NoTx]
        \/ (Goto(t, "tx_wait") \/ Goto(t, "tx")) /\ \E n : tx' = [tx EXCEPT ![t].sent = n]
    BY <1>3, Zenon DEF TxAdd
  <2>2. Harmless /\ InTx(t)
    BY <1>1, <2>1 DEF Harmless, InTx
  <2>3. CASE Goto(t, tx[t].ret) /\ tx' = [tx EXCEPT ![t] = NoTx]
    <3>1. OnlyMoves(t)
      BY <1>0, <1>1, <2>3 DEF OnlyMoves, Goto
    <3>2. pc'[t] = tx[t].ret /\ tx'[t].ret = "idle"
      BY <1>0, <2>3 DEF Goto, NoTx
    <3>. QED
      BY <2>2, <3>1, <3>2
  <2>4. CASE (Goto(t, "tx_wait") \/ Goto(t, "tx")) /\ \E n : tx' = [tx EXCEPT ![t].sent = n]
    <3>1. OnlyMoves(t)
      BY <1>0, <1>1, <2>4 DEF OnlyMoves, Goto
    <3>2. InTx(t)'
      BY <1>0, <2>4 DEF InTx, Goto
    <3>3. tx'[t].ret = tx[t].ret
      BY <1>0, <2>4 DEF TxCalls
    <3>. QED
      BY <2>2, <3>1, <3>2, <3>3
  <2>. QED
    BY <2>1, <2>3, <2>4
<1>. QED
  BY <1>2, <1>3 DEF Tx

\* tcp_tx called by an application.
LEMMA AppTxAnswered ==
    ASSUME TypeInv, AnsweredInv, NEW a \in Apps, Tx(a)
    PROVE  AnsweredInv'
<1>0. a \in Senders /\ tx[a].ret \in Labels
  BY DEF Senders, TypeInv, TypeOK, TxCalls
<1>1. InClose(a)' => InClose(a)
  BY <1>0, TxReturns DEF InClose, InTx
<1>. QED
  BY <1>0, <1>1, TxReturns, OnlyAppMoves, HarmlessKeeps, Zenon

\* close enters from ESTABLISHED, and so never finds CLOSED by itself; on
\* waking it frees the tcb if the state is CLOSED.
LEMMA CloseAnswered ==
    ASSUME TypeInv, AnsweredInv, NEW a \in Apps, CloseLock(a) \/ CloseWoken(a)
    PROVE  AnsweredInv'
<1>. DEFINE c == AppConn[a]
<1>0. /\ c \in Conns /\ a \in Threads /\ a \in Senders /\ AppConn \in [Apps -> Conns]
      /\ pc \in [Threads -> Labels] /\ tx \in [Senders -> TxCalls]
      /\ state \in [Conns -> States] /\ life \in [Conns -> {"none", "live", "freed"}]
  BY EnvAssumption DEF Threads, Senders, TypeInv, TypeOK
<1>1. CASE CloseLock(a)
  <2>1. OnlyMoves(a) /\ UNCHANGED <<life, fin_rcvd>>
    BY <1>0, <1>1 DEF CloseLock, OnlyMoves, Goto, CallTx, rcvVars
  <2>2. CASE state[c] = "ESTABLISHED"
    <3>1. state' = [state EXCEPT ![c] = "FIN_WAIT_1"]
      BY <1>1, <2>2 DEF CloseLock
    <3>2. Harmless /\ state'[c] # "CLOSED"
      BY <1>0, <2>1, <3>1 DEF Harmless
    <3>3. NoTimer
      BY <2>1, OnlyAppMoves
    <3>4. \A b \in Apps : b # a /\ InClose(b)' => InClose(b)
      BY <2>1 DEF OnlyMoves, InClose, InTx, Threads, Senders
    <3>5. \A b \in Apps : InClose(b)' => state'[AppConn[b]] # "CLOSED" \/ fin_rcvd'[AppConn[b]]
      BY <1>0, <3>2, <3>4 DEF AnsweredInv, Harmless
    <3>6. InTimeWait => seg.conn \in Conns
      BY DEF TypeInv, SegOK, InTimeWait, InTx
    <3>. QED
      BY <3>2, <3>3, <3>5, <3>6 DEF AnsweredInv, Harmless, NoTimer, CloseIsAnswered
  <2>3. CASE state[c] # "ESTABLISHED"
    <3>1. pc'[a] = "idle" /\ UNCHANGED state
      BY <1>0, <1>1, <2>3 DEF CloseLock, Goto
    <3>2. ~InClose(a)' /\ Harmless
      BY <2>1, <3>1 DEF InClose, InTx, Harmless
    <3>. QED
      BY <2>1, <3>2, OnlyAppMoves, HarmlessKeeps, Zenon
  <2>. QED
    BY <2>2, <2>3
<1>2. CASE CloseWoken(a)
  <2>1. OnlyMoves(a) /\ UNCHANGED <<state, fin_rcvd>> /\ pc'[a] = "idle"
    BY <1>0, <1>2 DEF CloseWoken, OnlyMoves, Goto, rcvVars
  <2>2. \A d \in Conns : life'[d] = "freed" => life[d] = "freed" \/ (d = c /\ state[c] = "CLOSED")
    <3>1. life' = [life EXCEPT ![c] = IF state[c] = "CLOSED" THEN "freed" ELSE @]
      BY <1>2, Zenon DEF CloseWoken
    <3>. QED
      BY <1>0, <3>1
  <2>3. InClose(a)
    BY <1>2, Zenon DEF CloseWoken, InClose
  <2>4. CloseIsAnswered'
    BY <2>1, <2>2, <2>3 DEF AnsweredInv, CloseIsAnswered
  <2>5. NoTimer /\ NoneCloses
    BY <2>1, OnlyAppMoves DEF InClose, InTx
  <2>6. InTimeWait => seg.conn \in Conns
    BY DEF TypeInv, SegOK, InTimeWait, InTx
  <2>. QED
    BY <2>1, <2>4, <2>5, <2>6 DEF AnsweredInv, NoTimer, NoneCloses
<1>. QED
  BY <1>1, <1>2

-----------------------------------------------------------------------------
(* tcp_rx, close_connection and tcp_retransmit_handler.                    *)

\* Thread t goes to l; nobody else goes into close or into close_connection.
Goes(t, l) ==
    /\ NoneCloses /\ pc'[t] = l
    /\ \A u \in Threads \ Apps : u # t => pc'[u] = pc[u]

\* A jump, a signal to those who wait on tcb_cond, or to those on send_cond.
LEMMA AllGo ==
    ASSUME TypeInv, NEW t \in Threads \ Apps, NEW l \in Labels, \A a \in Apps : tx'[a] = tx[a],
           NEW c, \/ Goto(t, l) \/ GotoSignalling(t, l, {})
                  \/ GotoSignalling(t, l, TcbWaiters(c)) \/ GotoSignalling(t, l, SendWaiters(c))
    PROVE  Goes(t, l)
<1>1. GotoSignalling(t, l, {}) => Goes(t, l)
  BY SignalMoves DEF Goes
<1>2. Goto(t, l) => GotoSignalling(t, l, {})
  BY DEF Goto, GotoSignalling
<1>3. GotoSignalling(t, l, TcbWaiters(c)) => Goes(t, l)
  <2>1. \A w \in TcbWaiters(c) : \E d : w \in TcbWaiters(d) \cup SendWaiters(d)
    BY Zenon
  <2>. QED
    BY <2>1, SignalMoves DEF Goes
<1>4. GotoSignalling(t, l, SendWaiters(c)) => Goes(t, l)
  <2>1. \A w \in SendWaiters(c) : \E d : w \in TcbWaiters(d) \cup SendWaiters(d)
    BY Zenon
  <2>. QED
    BY <2>1, SignalMoves DEF Goes
<1>. QED
  BY <1>1, <1>2, <1>3, <1>4, Zenon

\* tcp_rx before it counts a FIN, and where it returns without one.
LEMMA RxQuietAnswered ==
    ASSUME TypeInv, AnsweredInv,
           \/ RxLockTcb \/ RxLockSend \/ RxDrop \/ RxSynSent \/ RxEstablished \/ RxSynReceived
           \/ RxOpened \/ RxAckEstablished \/ RxAckFinWait1 \/ RxOutOfOrder \/ RxText \/ RxWake
           \/ RxNoText
    PROVE  AnsweredInv'
<1>. DEFINE Quiet == {"rx_send", "rx_state", "idle", "tx", "rx_done", "rx_text", "rx_fin", "rx_wake"}
            Returns == {"rx_established", "rx_done", "rx_opened", "rx_wake"}
<1>0. /\ RX \in Threads \ Apps /\ RX \in Senders /\ Conns \subseteq Threads \ Apps /\ RX \notin Conns
      /\ Apps \subseteq Senders /\ Quiet \subseteq Labels
      /\ tx \in [Senders -> TxCalls] /\ state \in [Conns -> States]
  BY ThreadsDistinct DEF Threads, Senders, TypeInv, TypeOK, Labels, RxLabels, AppLabels
<1>1. UNCHANGED tx \/ \E v : tx' = [tx EXCEPT ![RX] = v]
  BY Zenon DEF RxLockTcb, RxLockSend, RxDrop, RxSynSent, RxEstablished, RxSynReceived, RxOpened,
               RxAckEstablished, RxAckFinWait1, RxOutOfOrder, RxText, RxWake, RxNoText, CallTx
<1>2. \A a \in Apps : tx'[a] = tx[a]
  BY <1>0, <1>1
<1>3. \A l \in Quiet : \A c :
          \/ Goto(RX, l) \/ GotoSignalling(RX, l, {})
          \/ GotoSignalling(RX, l, TcbWaiters(c)) \/ GotoSignalling(RX, l, SendWaiters(c))
          => Goes(RX, l)
  BY <1>0, <1>2, AllGo
<1>4. \E l \in Quiet :
          Goes(RX, l) /\ (l = "tx" => \E r \in Returns : \E f, n, k : CallTx(RX, f, n, k, r))
  <2>1. CASE RxLockTcb \/ RxLockSend \/ RxDrop \/ RxAckFinWait1 \/ RxOutOfOrder \/ RxNoText
    <3>1. \E l \in Quiet \ {"tx"} : Goto(RX, l)
      BY <2>1, Zenon DEF RxLockTcb, RxLockSend, RxDrop, RxAckFinWait1, RxOutOfOrder, RxNoText
    <3>. QED
      BY <3>1, <1>3, Zenon
  <2>2. CASE RxSynSent \/ RxSynReceived
    <3>1. Goto(RX, "tx")
      BY <2>2, Zenon DEF RxSynSent, RxSynReceived
    <3>2. \E r \in Returns : \E f, n, k : CallTx(RX, f, n, k, r)
      BY <2>2, Zenon DEF RxSynSent, RxSynReceived
    <3>. QED
      BY <3>1, <3>2, <1>3, Zenon
  <2>3. CASE RxText
    <3>1. Goto(RX, "rx_wake") \/ (Goto(RX, "tx") /\ \E f, n, k : CallTx(RX, f, n, k, "rx_wake"))
      BY <2>3, Zenon DEF RxText
    <3>. QED
      BY <3>1, <1>3, Zenon
  <2>4. CASE RxEstablished \/ RxOpened \/ RxAckEstablished \/ RxWake
    <3>1. \/ \E l \in {"rx_done", "rx_text", "rx_fin"} :
               GotoSignalling(RX, l, TcbWaiters(seg.conn)) \/ GotoSignalling(RX, l, {})
          \/ GotoSignalling(RX, "rx_text", SendWaiters(seg.conn))
      BY <2>4, Zenon DEF RxEstablished, RxOpened, RxAckEstablished, RxWake, WakesSenders
    <3>. QED
      BY <3>1, <1>3, Zenon
  <2>. QED
    BY <2>1, <2>2, <2>3, <2>4
<1>5. PICK l \in Quiet :
          Goes(RX, l) /\ (l = "tx" => \E r \in Returns : \E f, n, k : CallTx(RX, f, n, k, r))
  BY <1>4, Zenon
<1>6. ~InTimeWait'
  <2>1. CASE l = "tx"
    <3>1. tx'[RX].ret \in Returns
      BY <1>0, <1>5, <2>1 DEF CallTx
    <3>. QED
      BY <3>1, <1>5, <2>1 DEF Goes, InTimeWait
  <2>2. CASE l # "tx"
    BY <1>5, <2>2 DEF Goes, InTimeWait, InTx
  <2>. QED
    BY <2>1, <2>2
<1>7. NoTimer
  BY <1>0, <1>5, <1>6 DEF Goes, NoTimer
<1>8. Harmless
  <2>1. UNCHANGED <<life, fin_rcvd>>
    BY Zenon DEF RxLockTcb, RxLockSend, RxDrop, RxSynSent, RxEstablished, RxSynReceived, RxOpened,
                 RxAckEstablished, RxAckFinWait1, RxOutOfOrder, RxText, RxWake, RxNoText, tcbVars,
                 rcvVars
  <2>2. UNCHANGED state \/ \E v \in States \ {"CLOSED"} : state' = [state EXCEPT ![seg.conn] = v]
    <3>1. {"ESTABLISHED", "SYN_RECEIVED", "FIN_WAIT_2"} \subseteq States \ {"CLOSED"}
      BY DEF States
    <3>. QED
      BY <3>1, Zenon DEF RxLockTcb, RxLockSend, RxDrop, RxSynSent, RxEstablished, RxSynReceived,
            RxOpened, RxAckEstablished, RxAckFinWait1, RxOutOfOrder, RxText, RxWake, RxNoText, tcbVars
  <2>. QED
    BY <1>0, <2>1, <2>2 DEF Harmless
<1>. QED
  BY <1>5, <1>7, <1>8, HarmlessKeeps DEF Goes

\* tcp_rx from the FIN on: it is counted, then acknowledged, then the timer of
\* close_connection is started.
LEMMA RxFinAnswered ==
    ASSUME TypeInv, AnsweredInv, RxFin \/ RxDone \/ Tx(RX)
    PROVE  AnsweredInv'
<1>0. /\ RX \in Threads \ Apps /\ RX \in Senders /\ Conns \subseteq Threads \ Apps /\ RX \notin Conns
      /\ Apps \subseteq Senders /\ Apps \subseteq Threads /\ AppConn \in [Apps -> Conns]
      /\ pc \in [Threads -> Labels] /\ tx \in [Senders -> TxCalls] /\ state \in [Conns -> States]
      /\ fin_rcvd \in [Conns -> BOOLEAN] /\ tx[RX].ret \in Labels
  <2>1. /\ RX \in Threads \ Apps /\ RX \in Senders /\ Conns \subseteq Threads \ Apps /\ RX \notin Conns
        /\ Apps \subseteq Senders /\ Apps \subseteq Threads /\ AppConn \in [Apps -> Conns]
    BY EnvAssumption, ThreadsDistinct DEF Threads, Senders
  <2>2. /\ pc \in [Threads -> Labels] /\ tx \in [Senders -> TxCalls] /\ state \in [Conns -> States]
        /\ fin_rcvd \in [Conns -> BOOLEAN]
    BY Zenon DEF TypeInv, TypeOK
  <2>3. tx[RX].ret \in Labels
    BY <2>1, <2>2 DEF TxCalls
  <2>. QED
    BY <2>1, <2>2, <2>3, Zenon
<1>1. CASE RxFin
  <2>1. /\ seg.conn \in Conns /\ UNCHANGED life
        /\ fin_rcvd' = [fin_rcvd EXCEPT ![seg.conn] = TRUE]
        /\ UNCHANGED state \/ state' = [state EXCEPT ![seg.conn] = "TIME_WAIT"]
    BY <1>1 DEF RxFin, RxAt, TypeInv, SegOK
  <2>2. Harmless
    <3>1. \A c \in Conns : fin_rcvd[c] => fin_rcvd'[c]
      BY <1>0, <2>1, Zenon
    <3>2. \A c \in Conns : state'[c] = "CLOSED" => state[c] = "CLOSED"
      BY <1>0, <2>1
    <3>. QED
      BY <2>1, <3>1, <3>2, Zenon DEF Harmless
  <2>3. /\ \A u \in Threads \ {RX} : pc'[u] = pc[u]
        /\ \A u \in Apps : tx'[u] = tx[u]
        /\ pc'[RX] = "idle" \/ seg' = seg
    BY <1>0, <1>1 DEF RxFin, Goto, CallTx
  <2>4. NoneCloses
    BY <1>0, <2>3 DEF NoneCloses, InClose, InTx
  <2>5. InTimeWait' => fin_rcvd'[seg'.conn]
    BY <1>0, <2>1, <2>3 DEF InTimeWait, InTx
  <2>. QED
    BY <1>0, <2>2, <2>3, <2>4, <2>5 DEF AnsweredInv, Harmless, NoneCloses, CloseIsAnswered
<1>2. CASE RxDone
  <2>0. UNCHANGED <<life, state, fin_rcvd, tx>>
    BY <1>2, Zenon DEF RxDone, tcbVars, rcvVars
  <2>1. /\ pc'[RX] = "idle" /\ UNCHANGED <<life, state, fin_rcvd, tx>>
        /\ \A u \in Threads \ {RX} : pc'[u] = pc[u] \/ (u = seg.conn /\ InTimeWait)
    <3>1. CASE InTimeWait /\ pc' = [pc EXCEPT ![RX] = "idle", ![seg.conn] = "tw_lock"]
      <4>1. pc[RX] # "idle"
        BY <1>2 DEF RxDone, RxAt
      <4>2. seg.conn \in Threads /\ seg.conn # RX
        BY <1>0, <4>1 DEF TypeInv, SegOK
      <4>. QED
        BY <1>0, <2>0, <3>1, <4>2
    <3>2. CASE pc' = [pc EXCEPT ![RX] = "idle"]
      BY <1>0, <2>0, <3>2
    <3>. QED
      BY <1>2, <3>1, <3>2, Zenon DEF RxDone, RxAt, InTimeWait
  <2>2. ~InTimeWait'
    BY <2>1 DEF InTimeWait, InTx
  <2>3. seg.conn \notin Apps
    BY <1>0, <1>2 DEF RxDone, RxAt, TypeInv, SegOK
  <2>4. NoneCloses
    BY <1>0, <2>1, <2>3 DEF NoneCloses, InClose, InTx
  <2>5. \A c \in Conns : pc'[c] # "idle" => fin_rcvd[c]
    BY <1>0, <2>1 DEF AnsweredInv
  <2>. QED
    BY <2>1, <2>2, <2>4, <2>5 DEF AnsweredInv, NoneCloses, CloseIsAnswered
<1>3. CASE Tx(RX)
  <2>1. OnlyMoves(RX) /\ Harmless
    BY <1>0, <1>3, TxReturns
  <2>2. NoneCloses
    BY <1>0, <2>1 DEF OnlyMoves, NoneCloses, InClose, InTx
  <2>3. InTimeWait' => InTimeWait
    BY <1>0, <1>3, TxReturns DEF InTimeWait, InTx
  <2>4. NoTimer
    BY <1>0, <2>1, <2>3 DEF OnlyMoves, NoTimer
  <2>. QED
    BY <2>1, <2>2, <2>4, HarmlessKeeps
<1>. QED
  BY <1>1, <1>2, <1>3

\* close_connection, which alone sets CLOSED, runs after a FIN.
LEMMA TimeWaitAnswered ==
    ASSUME TypeInv, AnsweredInv, NEW c \in Conns, TimeWait(c)
    PROVE  AnsweredInv'
<1>0. /\ c \in Threads \ Apps /\ RX \in Threads \ Apps /\ Conns \subseteq Threads \ Apps /\ RX # c
      /\ {"tw_stop", "idle"} \subseteq Labels /\ AppConn \in [Apps -> Conns]
      /\ state \in [Conns -> States]
  <2>1. state \in [Conns -> States]
    BY Zenon DEF TypeInv, TypeOK
  <2>2. {"tw_stop", "idle"} \subseteq Labels
    BY DEF Labels, AppLabels
  <2>. QED
    BY <2>1, <2>2, EnvAssumption, ThreadsDistinct DEF Threads
<1>1. fin_rcvd[c] /\ UNCHANGED <<life, fin_rcvd, tx, seg>>
  BY DEF TimeWait, CloseConnectionLock, CloseConnection, tcbVars, rcvVars, AnsweredInv
<1>2. UNCHANGED state \/ state' = [state EXCEPT ![c] = "CLOSED"]
  BY Zenon DEF TimeWait, CloseConnectionLock, CloseConnection, tcbVars
<1>3. \E l \in {"tw_stop", "idle"} : Goto(c, l) \/ GotoSignalling(c, l, TcbWaiters(c))
  BY Zenon DEF TimeWait, CloseConnectionLock, CloseConnection
<1>4. NoneCloses /\ \A u \in Threads \ Apps : u # c => pc'[u] = pc[u]
  BY <1>0, <1>1, <1>3, AllGo DEF Goes
<1>5. InTimeWait' => InTimeWait
  BY <1>0, <1>1, <1>4 DEF InTimeWait, InTx
<1>6. \A a \in Apps : InClose(a)' => state'[AppConn[a]] # "CLOSED" \/ fin_rcvd'[AppConn[a]]
  BY <1>0, <1>1, <1>2, <1>4 DEF AnsweredInv, NoneCloses
<1>. QED
  BY <1>0, <1>1, <1>4, <1>5, <1>6 DEF AnsweredInv, CloseIsAnswered

\* A pass of tcp_retransmit_handler wakes threads, no more.
LEMMA RtxAnswered ==
    ASSUME TypeInv, AnsweredInv, Rtx
    PROVE  AnsweredInv'
<1>0. /\ RTX \in Threads \ Apps /\ RX \in Threads \ Apps /\ Conns \subseteq Threads \ Apps
      /\ RTX # RX /\ RTX \notin Conns /\ {"rtx_scan", "rtx_give_up", "idle"} \subseteq Labels
  BY ThreadsDistinct DEF Threads, Labels, RtxLabels
<1>1. UNCHANGED <<life, state, fin_rcvd, tx, seg>>
  BY Zenon DEF Rtx, RtxLock, RtxDone, RtxSend, RtxGiveUp, tcbVars, rcvVars
<1>2. \E l \in {"rtx_scan", "rtx_give_up", "idle"} :
          Goto(RTX, l) \/ \E c : GotoSignalling(RTX, l, TcbWaiters(c))
  BY Zenon DEF Rtx, RtxLock, RtxDone, RtxSend, RtxGiveUp
<1>3. NoneCloses /\ \A u \in Threads \ Apps : u # RTX => pc'[u] = pc[u]
  BY <1>0, <1>1, <1>2, AllGo DEF Goes
<1>4. NoTimer
  BY <1>0, <1>1, <1>3 DEF NoTimer, InTimeWait, InTx
<1>. QED
  BY <1>1, <1>3, <1>4, HarmlessKeeps DEF Harmless

\* A segment that arrives, good or corrupt, and an ARP reply.
LEMMA ArrivalAnswered ==
    ASSUME TypeInv, AnsweredInv, Arrival \/ \E h : RxArpReply(h)
    PROVE  AnsweredInv'
<1>0. /\ RX \in Threads \ Apps /\ Conns \subseteq Threads \ Apps /\ RX \notin Conns
      /\ "rx_tcb" \in Labels /\ pc \in [Threads -> Labels]
  BY ThreadsDistinct DEF Threads, Labels, RxLabels, TypeInv, TypeOK
<1>1. UNCHANGED <<life, state, fin_rcvd, tx>> /\ pc[RX] = "idle"
  BY Zenon DEF Arrival, RxSegment, RxBadSegment, RxArpReply, RxAt, tcbVars, rcvVars, thrVars
<1>2. UNCHANGED pc \/ Goto(RX, "rx_tcb")
  BY Zenon DEF Arrival, RxSegment, RxBadSegment, RxArpReply, thrVars
<1>3. pc'[RX] \in {"idle", "rx_tcb"} /\ \A u \in Threads \ {RX} : pc'[u] = pc[u]
  BY <1>0, <1>1, <1>2 DEF Goto
<1>4. NoneCloses
  BY <1>0, <1>1, <1>3 DEF NoneCloses, InClose, InTx, Threads
<1>5. NoTimer
  BY <1>0, <1>3 DEF NoTimer, InTimeWait, InTx
<1>. QED
  BY <1>1, <1>4, <1>5, HarmlessKeeps DEF Harmless

-----------------------------------------------------------------------------
\* close frees the tcb, and returns 0, only after the peer's FIN has been
\* counted: no spurious wake-up of its one pthread_cond_wait, no signal meant
\* for a reader and no corrupt segment makes it return 0 before.
THEOREM CloseAfterFin == Spec => []CloseIsAnswered
<1>1. Init => TypeInv /\ AnsweredInv
  <2>1. Apps \subseteq Threads /\ Conns \subseteq Threads /\ RX \in Threads
    BY DEF Threads
  <2>. QED
    BY <2>1, InitType DEF Init, AnsweredInv, InClose, InTimeWait, InTx, CloseIsAnswered
<1>2. TypeInv /\ AnsweredInv /\ [Next]_vars => TypeInv' /\ AnsweredInv'
  <2>. SUFFICES ASSUME TypeInv, AnsweredInv, [Next]_vars PROVE AnsweredInv'
    BY NextType
  <2>1. CASE \E a \in Apps : App(a) \/ SpuriousWakeup(a)
    BY <2>1, CallsAnswered, AppTxAnswered, CloseAnswered, Zenon DEF App
  <2>2. CASE Arrival \/ \E h : RxArpReply(h)
    BY <2>2, ArrivalAnswered
  <2>3. CASE RxStep
    BY <2>3, RxQuietAnswered, RxFinAnswered, Zenon DEF RxStep
  <2>4. CASE \E c \in Conns : TimeWait(c)
    BY <2>4, TimeWaitAnswered, Zenon
  <2>5. CASE Rtx
    BY <2>5, RtxAnswered
  <2>6. CASE UNCHANGED vars
    <3>1. UNCHANGED <<life, state, fin_rcvd, pc, tx, seg>>
      BY <2>6, Zenon DEF vars, tcbVars, rcvVars, thrVars
    <3>. QED
      BY <3>1, Zenon DEF AnsweredInv, InClose, InTimeWait, InTx, CloseIsAnswered
  <2>. QED
    BY <2>1, <2>2, <2>3, <2>4, <2>5, <2>6, Zenon DEF Next
<1>3. AnsweredInv => CloseIsAnswered
  BY DEF AnsweredInv
<1>. QED
  BY <1>1, <1>2, <1>3, PTL DEF Spec

-----------------------------------------------------------------------------
(* A connection is established by our SYN, taken by the peer.              *)

\* What a segment acknowledges the peer has; so until the peer has our SYN
\* snd_una is what connect made it, one below the initial sequence number.
\* Every segment but the SYN of a simultaneous open acknowledges something.
SynInv ==
    /\ EstablishedBySyn
    /\ \A c \in Conns : p_rcv[c] > 0 \/ snd_una[c] \in {0, Minus(ISS[c], 1)}
    /\ seg.conn \in Conns => IF "ACK" \in seg.flags THEN p_rcv[seg.conn] > 0 ELSE "opens" \in Env

\* The states in which our SYN counts as acknowledged.
Synchronized == {"ESTABLISHED", "FIN_WAIT_1", "FIN_WAIT_2", "TIME_WAIT"}

\* A step in which the peer forgets nothing and that starts no connection by
\* itself keeps the invariant.
LEMMA SynKept ==
    ASSUME SynInv, \A c \in Conns : p_rcv[c] > 0 => p_rcv'[c] > 0,
           \A c \in Conns : state'[c] \in Synchronized => state[c] \in Synchronized \/ p_rcv[c] > 0,
           \A c \in Conns : snd_una'[c] \in {snd_una[c], Minus(ISS[c], 1)} \/ p_rcv[c] > 0,
           seg' \in {seg, NoSeg}
    PROVE  SynInv'
<1>1. EstablishedBySyn'
  BY Zenon DEF SynInv, EstablishedBySyn, Synchronized
<1>2. \A c \in Conns : p_rcv'[c] > 0 \/ snd_una'[c] \in {0, Minus(ISS[c], 1)}
  BY Zenon DEF SynInv
<1>3. seg'.conn \in Conns =>
         IF "ACK" \in seg'.flags THEN p_rcv'[seg'.conn] > 0 ELSE "opens" \in Env
  <2>1. NoSeg.conn \notin Conns
    BY ThreadsDistinct DEF NoSeg
  <2>. QED
    BY <2>1, Zenon DEF SynInv
<1>. QED
  BY <1>1, <1>2, <1>3, Zenon DEF SynInv

\* The socket calls: connect sets snd_una, close leaves ESTABLISHED.
LEMMA AppSyn ==
    ASSUME TypeInv, SynInv, NEW a \in Apps, App(a) \/ SpuriousWakeup(a)
    PROVE  SynInv'
<1>. PICK c \in Conns : c = AppConn[a]
  BY EnvAssumption
<1>0. state \in [Conns -> States] /\ snd_una \in [Conns -> 0..SeqSpace - 1]
  BY DEF TypeInv, TypeOK
<1>1. UNCHANGED <<seg, p_rcv>>
  BY Zenon DEF App, Connect, ConnectSent, ConnectWoken, Send, Tx, TxLock, TxAdd, Recv, RecvLock,
               RecvWoken, Close, CloseLock, CloseSent, CloseWoken, SpuriousWakeup, netVars
<1>2. \/ UNCHANGED state \/ state' = [state EXCEPT ![c] = "SYN_SENT"]
      \/ state[c] = "ESTABLISHED" /\ state' = [state EXCEPT ![c] = "FIN_WAIT_1"]
  BY Zenon DEF App, Connect, ConnectSent, ConnectWoken, Send, Tx, TxLock, TxAdd, Recv, RecvLock,
               RecvWoken, Close, CloseLock, CloseSent, CloseWoken, SpuriousWakeup, tcbVars
<1>3. UNCHANGED snd_una \/ snd_una' = [snd_una EXCEPT ![c] = Minus(ISS[c], 1)]
  BY Zenon DEF App, Connect, ConnectSent, ConnectWoken, Send, Tx, TxLock, TxAdd, Recv, RecvLock,
               RecvWoken, Close, CloseLock, CloseSent, CloseWoken, SpuriousWakeup, tcbVars, sndVars
<1>4. \A d \in Conns : state'[d] \in Synchronized => state[d] \in Synchronized
  BY <1>0, <1>2 DEF Synchronized
<1>5. \A d \in Conns : snd_una'[d] \in {snd_una[d], Minus(ISS[d], 1)}
  BY <1>0, <1>3
<1>. QED
  BY <1>1, <1>4, <1>5, SynKept, Zenon

\* snd_una as connect left it is not above the initial sequence number.
LEMMA NotAbove ==
    ASSUME NEW c \in Conns, ISS[c] # 0, NEW una \in {0, Minus(ISS[c], 1)}
    PROVE  ~SynAcked(c, una)
<1>1. ISS[c] \in 1..SeqSpace - 1 /\ SeqSpace \in Nat \ {0}
  BY SizeAssumption
<1>2. (ISS[c] - 1) % SeqSpace = ISS[c] - 1
  BY <1>1
<1>. QED
  BY <1>1, <1>2 DEF SynAcked, Minus

\* The SYN in SYN_SENT: snd_una is above the initial sequence number only when
\* the segment acknowledges our SYN.
LEMMA RxSynSentSyn ==
    ASSUME TypeInv, SynInv, RxSynSent, "opens" \in Env => \A c \in Conns : ISS[c] # 0
    PROVE  SynInv'
<1>. PICK c \in Conns : c = seg.conn
  BY DEF RxSynSent, RxAt, TypeInv, SegOK
<1>. DEFINE una == IF AcceptableAck(c) THEN seg.ack ELSE snd_una[c]
<1>0. state \in [Conns -> States] /\ snd_una \in [Conns -> 0..SeqSpace - 1]
  BY DEF TypeInv, TypeOK
<1>1. /\ UNCHANGED <<seg, p_rcv>> /\ snd_una' = [snd_una EXCEPT ![c] = una]
      /\ IF SynAcked(c, una) THEN state' = [state EXCEPT ![c] = "ESTABLISHED"]
         ELSE state' = [state EXCEPT ![c] = "SYN_RECEIVED"]
  BY Zenon DEF RxSynSent, netVars
<1>2. una = snd_una[c] \/ p_rcv[c] > 0
  BY Zenon DEF AcceptableAck, SynInv
<1>3. SynAcked(c, una) => p_rcv[c] > 0
  <2>. SUFFICES ASSUME ~(p_rcv[c] > 0) PROVE ~SynAcked(c, una)
    OBVIOUS
  <2>1. una \in {0, Minus(ISS[c], 1)} /\ ISS[c] # 0
    BY <1>2, Zenon DEF SynInv
  <2>. QED
    BY <2>1, NotAbove, Zenon
<1>. HIDE DEF una
<1>4. \A d \in Conns : state'[d] \in Synchronized => state[d] \in Synchronized \/ p_rcv[d] > 0
  BY <1>0, <1>1, <1>3 DEF Synchronized
<1>5. \A d \in Conns : snd_una'[d] \in {snd_una[d], Minus(ISS[d], 1)} \/ p_rcv[d] > 0
  BY <1>0, <1>1, <1>2
<1>. QED
  BY <1>1, <1>4, <1>5, SynKept, Zenon

\* The rest of tcp_rx: every other state drops a segment without ACK.
LEMMA RxStepSyn ==
    ASSUME TypeInv, SynInv, RxStep, "opens" \in Env => \A c \in Conns : ISS[c] # 0
    PROVE  SynInv'
<1>0. state \in [Conns -> States] /\ snd_una \in [Conns -> 0..SeqSpace - 1]
  BY DEF TypeInv, TypeOK
<1>1. CASE \/ RxLockTcb \/ RxLockSend \/ RxDrop \/ RxEstablished \/ RxOpened \/ RxOutOfOrder
           \/ RxText \/ RxWake \/ RxNoText \/ RxDone \/ Tx(RX)
  <2>1. UNCHANGED <<state, snd_una, p_rcv>> /\ seg' \in {seg, NoSeg}
    BY <1>1, Zenon DEF RxLockTcb, RxLockSend, RxDrop, RxEstablished, RxOpened, RxOutOfOrder, RxText,
         RxWake, RxNoText, RxDone, Tx, TxLock, TxAdd, tcbVars, sndVars, netVars
  <2>. QED
    BY <2>1, SynKept, Zenon
<1>2. CASE RxSynReceived \/ RxAckEstablished \/ RxAckFinWait1
  <2>. PICK c \in Conns : c = seg.conn
    BY <1>2 DEF RxSynReceived, RxAckEstablished, RxAckFinWait1, RxAt, TypeInv, SegOK
  <2>1. /\ UNCHANGED <<seg, p_rcv>> /\ "ACK" \in seg.flags
        /\ UNCHANGED state \/ \E s : state' = [state EXCEPT ![c] = s]
        /\ UNCHANGED snd_una \/ \E n : snd_una' = [snd_una EXCEPT ![c] = n]
    <3>1. ~Dropped(c) /\ state[c] \in {"SYN_RECEIVED", "ESTABLISHED", "FIN_WAIT_1"}
      BY <1>2 DEF RxSynReceived, RxAckEstablished, RxAckFinWait1
    <3>2. "ACK" \in seg.flags
      BY <3>1 DEF Dropped
    <3>. QED
      BY <1>2, <3>2, Zenon DEF RxSynReceived, RxAckEstablished, RxAckFinWait1, netVars, sndVars
  <2>2. p_rcv[c] > 0
    BY <2>1, Zenon DEF SynInv
  <2>3. \A d \in Conns : (state'[d] = state[d] /\ snd_una'[d] = snd_una[d]) \/ p_rcv[d] > 0
    BY <1>0, <2>1, <2>2, Zenon
  <2>. QED
    BY <2>1, <2>3, SynKept, Zenon
<1>3. CASE RxFin
  <2>1. /\ UNCHANGED <<snd_una, p_rcv>> /\ seg' \in {seg, NoSeg}
        /\ \/ UNCHANGED state
           \/ /\ state[seg.conn] \in {"FIN_WAIT_1", "FIN_WAIT_2"}
              /\ state' = [state EXCEPT ![seg.conn] = "TIME_WAIT"]
    BY <1>3, Zenon DEF RxFin, sndVars, netVars
  <2>2. \A d \in Conns : state'[d] \in Synchronized => state[d] \in Synchronized
    BY <1>0, <2>1 DEF Synchronized
  <2>. QED
    BY <2>1, <2>2, SynKept, Zenon
<1>. QED
  BY <1>1, <1>2, <1>3, RxSynSentSyn, Zenon DEF RxStep

\* What a peer sends acknowledges what it has, unless it is a SYN.
LEMMA InboundAcks ==
    ASSUME TypeOK, NEW c \in Conns, NEW s \in Inbound(c)
    PROVE  s.conn = c /\ IF "ACK" \in s.flags THEN p_rcv[c] > 0 ELSE "opens" \in Env
<1>0. p_rcv[c] \in Nat
  BY DEF TypeOK
<1>1. ASSUME NEW a \in Acks(c) PROVE p_rcv[c] > 0
  <2>1. PICK k \in 1..p_rcv[c] : TRUE
    BY DEF Acks
  <2>. QED
    BY <1>0
<1>2. CASE s \in Syns(c)
  <2>1. PICK w : s = Segment(c, {"SYN"}, IRS[c], 0, 0, 0, w) /\ "opens" \in Env
    BY <1>2, Zenon DEF Syns
  <2>2. s.conn = c /\ s.flags = {"SYN"}
    BY <2>1, Zenon DEF Segment
  <2>. QED
    BY <2>1, <2>2
<1>3. CASE s \in SynAcks(c)
  <2>1. PICK w : s = Segment(c, {"SYN", "ACK"}, IRS[c], Plus(ISS[c], 1), 0, 0, w) /\ p_rcv[c] > 0
    BY <1>3, Zenon DEF SynAcks
  <2>2. s.conn = c /\ s.flags = {"SYN", "ACK"}
    BY <2>1, Zenon DEF Segment
  <2>. QED
    BY <2>1, <2>2, Zenon
<1>4. CASE s \in Resets(c)
  <2>1. PICK a \in Acks(c) : s = Segment(c, {"RST", "ACK"}, 0, a, 0, 0, 0)
    BY <1>4, Zenon DEF Resets
  <2>2. s.conn = c /\ s.flags = {"RST", "ACK"}
    BY <2>1, Zenon DEF Segment
  <2>. QED
    BY <1>1, <2>2, Zenon
<1>5. ASSUME NEW p \in 0..PeerLen[c], s \in Texts(c, p)
      PROVE  s.conn = c /\ "ACK" \in s.flags /\ p_rcv[c] > 0
  <2>1. PICK l \in {k \in 0..PeerSeg : p + k <= PeerLen[c]} :
           \E f \in TextFlags(c, p, l), a \in Acks(c), w \in Windows :
              s = Segment(c, f, Plus(IRS[c], 1 + p), a, p, l, w)
    BY <1>5 DEF Texts
  <2>2. PICK f \in TextFlags(c, p, l), a \in Acks(c), w \in Windows :
           s = Segment(c, f, Plus(IRS[c], 1 + p), a, p, l, w)
    BY <2>1, Zenon
  <2>3. "ACK" \in f
    BY DEF TextFlags
  <2>4. s.conn = c /\ s.flags = f
    BY <2>2, Zenon DEF Segment
  <2>. QED
    BY <1>1, <2>3, <2>4, Zenon
<1>. QED
  BY <1>2, <1>3, <1>4, <1>5, Zenon DEF Inbound

\* A segment that arrives acknowledges nothing the peer does not have.
LEMMA ArrivalSyn ==
    ASSUME TypeInv, SynInv, NEW c \in Conns, RxSegment(c)
    PROVE  SynInv'
<1>1. UNCHANGED <<state, snd_una, p_rcv>> /\ (UNCHANGED seg \/ \E s \in Inbound(c) : seg' = s)
  BY Zenon DEF RxSegment, tcbVars, sndVars
<1>2. CASE UNCHANGED seg
  BY <1>1, <1>2, SynKept, Zenon
<1>3. ASSUME NEW s \in Inbound(c), seg' = s PROVE SynInv'
  <2>1. s.conn = c /\ IF "ACK" \in s.flags THEN p_rcv[c] > 0 ELSE "opens" \in Env
    BY InboundAcks DEF TypeInv
  <2>. QED
    BY <1>1, <1>3, <2>1, Zenon DEF SynInv, EstablishedBySyn
<1>. QED
  BY <1>1, <1>2, <1>3, Zenon

\* What the peer has it keeps.
LEMMA RtxSyn ==
    ASSUME TypeInv, SynInv, Rtx
    PROVE  SynInv'
<1>1. UNCHANGED <<state, snd_una, seg>>
  BY Zenon DEF Rtx, RtxLock, RtxDone, RtxSend, RtxGiveUp, tcbVars, sndVars
<1>2. \A c \in Conns : p_rcv[c] > 0 => p_rcv'[c] > 0
  <2>1. CASE UNCHANGED p_rcv
    BY <2>1
  <2>2. ASSUME NEW m \in messages_array, RtxSend(m)
        PROVE  \A c \in Conns : p_rcv[c] > 0 => p_rcv'[c] > 0
    <3>1. PICK r \in Reach(m) : p_rcv' = [p_rcv EXCEPT ![m.conn] = r]
      BY <2>2, Zenon DEF RtxSend
    <3>2. /\ m.conn \in Conns /\ p_rcv \in [Conns -> Nat] /\ m.seq \in 0..SeqSpace - 1
          /\ m.len \in Nat /\ ISS[m.conn] \in 0..SeqSpace - 1
      BY SizeAssumption DEF TypeInv, TypeOK, Messages
    <3>3. Minus(m.seq, ISS[m.conn]) \in Nat
      BY <3>2, SeqNumbers, SeqIsNat
    <3>4. Minus(m.seq, ISS[m.conn]) + m.len + Ctl(m.flags) \in Nat
      BY <3>2, <3>3 DEF Ctl
    <3>. HIDE DEF Reach
    <3>5. r >= p_rcv[m.conn] /\ r \in Nat
      <4>. DEFINE end == Minus(m.seq, ISS[m.conn]) + m.len + Ctl(m.flags)
                  k == p_rcv[m.conn]
      <4>1. r = k \/ (k < end /\ (r \in k + 1..end \/ r = end))
        BY Zenon DEF Reach
      <4>2. k \in Nat /\ end \in Nat
        BY <3>2, <3>4, Zenon
      <4>. HIDE DEF end, k
      <4>3. r >= k /\ r \in Nat
        BY <4>1, <4>2
      <4>. QED
        BY <4>3 DEF k
    <3>. QED
      BY <3>1, <3>2, <3>5
  <2>. QED
    BY <2>1, <2>2, Zenon DEF Rtx, RtxLock, RtxDone, RtxGiveUp, netVars
<1>. QED
  BY <1>1, <1>2, SynKept, Zenon

\* connect returns 0, and send and close act, on a connection of which the peer
\* has taken our SYN: tcp_rx takes it for established on no other ground, with
\* simultaneous opens and corrupt segments too.  The initial sequence number 0
\* is the exception: snd_una, one below it, is then 2^32 - 1, and the test
\* snd_una > iss of a simultaneous open holds before the SYN has arrived.
THEOREM EstablishedOnSyn ==
    ASSUME "opens" \in Env => \A c \in Conns : ISS[c] # 0
    PROVE  Spec => []EstablishedBySyn
<1>1. Init => TypeInv /\ SynInv
  <2>. SUFFICES ASSUME Init PROVE SynInv
    BY InitType
  <2>1. NoSeg.conn \notin Conns /\ seg = NoSeg
    BY ThreadsDistinct DEF NoSeg, Init
  <2>2. \A c \in Conns : state[c] = "CLOSED" /\ snd_una[c] = 0
    BY DEF Init
  <2>. QED
    BY <2>1, <2>2 DEF SynInv, EstablishedBySyn
<1>2. TypeInv /\ SynInv /\ [Next]_vars => TypeInv' /\ SynInv'
  <2>. SUFFICES ASSUME TypeInv, SynInv, [Next]_vars PROVE SynInv'
    BY NextType
  <2>1. CASE \E a \in Apps : App(a) \/ SpuriousWakeup(a)
    BY <2>1, AppSyn, Zenon
  <2>2. CASE \E c \in Conns : RxSegment(c)
    BY <2>2, ArrivalSyn, Zenon
  <2>3. CASE RxStep
    BY <2>3, RxStepSyn, Zenon
  <2>4. CASE \E c \in Conns : TimeWait(c)
    <3>1. PICK c \in Conns : TimeWait(c)
      BY <2>4, Zenon
    <3>2. /\ UNCHANGED <<snd_una, seg, p_rcv>>
          /\ UNCHANGED state \/ state' = [state EXCEPT ![c] = "CLOSED"]
      BY <3>1, Zenon DEF TimeWait, CloseConnectionLock, CloseConnection, tcbVars, sndVars, netVars
    <3>3. \A d \in Conns : state'[d] \in Synchronized => state[d] \in Synchronized
      BY <3>2 DEF Synchronized, TypeInv, TypeOK
    <3>. QED
      BY <3>2, <3>3, SynKept, Zenon
  <2>5. CASE Rtx
    BY <2>5, RtxSyn
  <2>6. CASE UNCHANGED vars \/ RxBadSegment \/ \E h : RxArpReply(h)
    <3>1. UNCHANGED <<state, snd_una, seg, p_rcv>>
      BY <2>6, Zenon DEF vars, RxBadSegment, RxArpReply, tcbVars, sndVars, thrVars, netVars
    <3>. QED
      BY <3>1, SynKept, Zenon
  <2>. QED
    BY <2>1, <2>2, <2>3, <2>4, <2>5, <2>6, Zenon DEF Next, Arrival
<1>3. SynInv => EstablishedBySyn
  BY DEF SynInv
<1>. QED
  BY <1>1, <1>2, <1>3, PTL DEF Spec
=============================================================================
