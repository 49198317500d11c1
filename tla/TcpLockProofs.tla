---------------------------- MODULE TcpLockProofs ----------------------------
(***************************************************************************)
(* Who holds tcb_lock while no segment is corrupt: connect, close, tcp_rx  *)
(* and close_connection own the tcb_lock of the connection they work on,   *)
(* and nobody works on a connection before connect has made its tcb.       *)
(***************************************************************************)
EXTENDS TcpTypeProofs

InTx(t) == pc[t] \in {"tx", "tx_add", "tx_wait"}
Connecting(a) == pc[a] = "connect_sent" \/ (InTx(a) /\ tx[a].ret = "connect_sent")
Closing(a) == pc[a] = "close_sent" \/ (InTx(a) /\ tx[a].ret = "close_sent")
RxBusy == pc[RX] \notin {"idle", "rx_tcb"}

\* Every thread between the lock and the unlock of a tcb_lock is its owner:
\* connect and close until they wait, tcp_rx until it returns, close_connection.
LockInv ==
    /\ \A a \in Apps : Connecting(a) \/ Closing(a) => tcb_lock[AppConn[a]] = a
    /\ RxBusy => tcb_lock[seg.conn] = RX
    /\ \A c \in Conns : pc[c] = "tw_stop" => tcb_lock[c] = c

\* Nobody works on a tcb before connect has made it.
LifeInv ==
    /\ \A c \in Conns : life[c] = "none" => tcb_lock[c] = Free /\ pc[c] = "idle"
    /\ \A a \in Apps : life[AppConn[a]] = "none" => pc[a] = "idle"
    /\ pc[RX] # "idle" => life[seg.conn] # "none"

ControlInv == TypeInv /\ LockInv /\ LifeInv

-----------------------------------------------------------------------------
(* What a step of one thread leaves alone.                                 *)

\* A step of t takes a free tcb_lock or releases one t holds.
OwnLockOnly(t) ==
    \A d \in Conns : tcb_lock'[d] = tcb_lock[d] \/ {tcb_lock[d], tcb_lock'[d]} \subseteq {t, Free}

\* A step of application a leaves the other threads where they are.
OthersKept(a) ==
    /\ \A u \in Threads \ {a} : pc'[u] = pc[u]
    /\ \A u \in Senders \ {a} : tx'[u] = tx[u]
    /\ seg' = seg

\* A step of another thread may wake an application, no more.
AppsKept ==
    \A a \in Apps : /\ Connecting(a)' => Connecting(a)
                    /\ Closing(a)' => Closing(a)
                    /\ InTx(a)' => InTx(a) /\ tx'[a] = tx[a]
                    /\ pc'[a] = "idle" <=> pc[a] = "idle"

\* What a step of application a, and what a step of tcp_rx, leaves alone.
AppFrame(a) ==
    /\ OthersKept(a) /\ OwnLockOnly(a)
    /\ Connecting(a)' => Connecting(a) \/ life[AppConn[a]] = "none"
    /\ \A d \in Conns : life'[d] = "none" => life[d] = "none"
RxFrame ==
    /\ AppsKept /\ OwnLockOnly(RX) /\ UNCHANGED life
    /\ pc'[RX] # "idle" => seg' = seg
    /\ \A d \in Conns : d # seg.conn => tcb_lock'[d] = tcb_lock[d]

\* A step of an application that takes or releases only the mutexes of its own
\* connection, and leaves the other threads where they are, keeps LockInv.
LEMMA AppControl ==
    ASSUME ControlInv, NEW a \in Apps, OthersKept(a), OwnLockOnly(a),
           Connecting(a)' => Connecting(a) \/ life[AppConn[a]] = "none",
           Connecting(a)' \/ Closing(a)' => tcb_lock'[AppConn[a]] = a,
           \A d \in Conns : life'[d] = "none" => life[d] = "none" /\ tcb_lock'[d] = tcb_lock[d],
           life'[AppConn[a]] = "none" => pc'[a] = "idle"
    PROVE  LockInv' /\ LifeInv' /\ AppFrame(a)
<1>0. /\ AppConn \in [Apps -> Conns] /\ RX \in Threads /\ Apps \subseteq Threads /\ Conns \subseteq Threads
      /\ Apps \subseteq Senders /\ a # RX /\ a \notin Conns /\ Free \notin Threads
      /\ pc[RX] # "idle" => seg.conn \in Conns
  BY EnvAssumption, ThreadsDistinct DEF Threads, Senders, ControlInv, TypeInv, SegOK
<1>1. \A u \in Threads \ {a}, d \in Conns : tcb_lock[d] = u => tcb_lock'[d] = u
  BY <1>0 DEF OwnLockOnly
<1>2. ASSUME NEW b \in Apps, Connecting(b)' \/ Closing(b)' PROVE tcb_lock'[AppConn[b]] = b
  <2>1. CASE b # a
    <3>1. Connecting(b) \/ Closing(b)
      BY <2>1, <1>0, <1>2 DEF OthersKept, Connecting, Closing, InTx
    <3>. QED
      BY <3>1, <1>0, <1>1, <2>1 DEF ControlInv, LockInv
  <2>. QED
    BY <2>1, <1>2
<1>3. RxBusy' => tcb_lock'[seg'.conn] = RX
  BY <1>0, <1>1 DEF OthersKept, RxBusy, ControlInv, LockInv
<1>4. ASSUME NEW c \in Conns, pc'[c] = "tw_stop" PROVE tcb_lock'[c] = c
  BY <1>0, <1>1, <1>4 DEF OthersKept, ControlInv, LockInv
<1>5. LockInv'
  BY <1>2, <1>3, <1>4, Zenon DEF LockInv
<1>6. LifeInv'
  BY <1>0 DEF OthersKept, ControlInv, LifeInv
<1>. QED
  BY <1>5, <1>6, Zenon DEF AppFrame

\* A step of tcp_rx that keeps its tcb_lock, or gives it back on leaving, keeps
\* LockInv.
LEMMA RxControl ==
    ASSUME ControlInv, AppsKept, OwnLockOnly(RX), UNCHANGED life, pc[RX] # "idle",
           RxBusy' => tcb_lock'[seg.conn] = RX,
           pc'[RX] # "idle" => seg' = seg,
           \A d \in Conns : d # seg.conn => tcb_lock'[d] = tcb_lock[d],
           \A c \in Conns : pc'[c] = pc[c] \/ (c = seg.conn /\ pc'[c] = "tw_lock")
    PROVE  LockInv' /\ LifeInv' /\ RxFrame
<1>0. /\ AppConn \in [Apps -> Conns] /\ Apps \subseteq Threads /\ Conns \subseteq Threads
      /\ RX \notin Apps /\ RX \notin Conns /\ Free \notin Threads /\ seg.conn \in Conns
      /\ life[seg.conn] # "none"
  BY EnvAssumption, ThreadsDistinct DEF Threads, ControlInv, TypeInv, SegOK, LifeInv
<1>1. \A u \in Threads \ {RX}, d \in Conns : tcb_lock[d] = u => tcb_lock'[d] = u
  BY <1>0 DEF OwnLockOnly
<1>2. ASSUME NEW b \in Apps, Connecting(b)' \/ Closing(b)' PROVE tcb_lock'[AppConn[b]] = b
  BY <1>0, <1>1, <1>2 DEF AppsKept, ControlInv, LockInv
<1>3. RxBusy' => tcb_lock'[seg'.conn] = RX
  BY DEF RxBusy
<1>4. ASSUME NEW c \in Conns, pc'[c] = "tw_stop" PROVE tcb_lock'[c] = c
  BY <1>0, <1>1, <1>4 DEF ControlInv, LockInv
<1>5. LockInv'
  BY <1>2, <1>3, <1>4, Zenon DEF LockInv
<1>6. LifeInv'
  BY <1>0 DEF AppsKept, ControlInv, LifeInv
<1>. QED
  BY <1>5, <1>6, Zenon DEF RxFrame

-----------------------------------------------------------------------------
(* The socket calls.                                                       *)

\* connect holds tcb_lock until it waits.
LEMMA AppConnects ==
    ASSUME ControlInv, NEW a \in Apps, Connect(a) \/ ConnectSent(a) \/ ConnectWoken(a)
    PROVE  LockInv' /\ LifeInv' /\ AppFrame(a)
<1>. DEFINE c == AppConn[a]
<1>0. /\ c \in Conns /\ a \in Threads /\ a \in Senders
      /\ pc \in [Threads -> Labels] /\ tx \in [Senders -> TxCalls]
      /\ tcb_lock \in [Conns -> Threads \cup {Free}] /\ life \in [Conns -> {"none", "live", "freed"}]
  BY EnvAssumption DEF Threads, Senders, ControlInv, TypeInv, TypeOK
<1>1. CASE Connect(a)
  <2>1. OthersKept(a) /\ pc'[a] = "tx"
    BY <1>0, <1>1 DEF Connect, Goto, CallTx, OthersKept
  <2>2. tcb_lock[c] = Free /\ tcb_lock' = [tcb_lock EXCEPT ![c] = a]
    BY <1>0, <1>1 DEF Connect, ControlInv, LifeInv
  <2>3. life[c] = "none" /\ life' = [life EXCEPT ![c] = "live"]
    BY <1>1 DEF Connect
  <2>. QED
    BY <1>0, <2>1, <2>2, <2>3, AppControl DEF OwnLockOnly
<1>2. CASE ConnectSent(a)
  <2>1. OthersKept(a) /\ pc'[a] = "connect_wait" /\ UNCHANGED life
    BY <1>0, <1>2 DEF ConnectSent, Goto, OthersKept
  <2>2. tcb_lock[c] = a /\ tcb_lock' = [tcb_lock EXCEPT ![c] = Free]
    BY <1>0, <1>2 DEF ConnectSent, ControlInv, LockInv, Connecting
  <2>3. ~Connecting(a)' /\ ~Closing(a)' /\ life[c] # "none"
    BY <1>0, <1>2, <2>1 DEF ConnectSent, Connecting, Closing, InTx, ControlInv, LifeInv
  <2>. QED
    BY <1>0, <2>1, <2>2, <2>3, AppControl DEF OwnLockOnly
<1>3. CASE ConnectWoken(a)
  <2>1. OthersKept(a) /\ pc'[a] = "idle" /\ UNCHANGED <<life, tcb_lock>>
    BY <1>0, <1>3 DEF ConnectWoken, Goto, OthersKept, tcbVars, locks
  <2>2. ~Connecting(a)' /\ ~Closing(a)'
    BY <2>1 DEF Connecting, Closing, InTx
  <2>. QED
    BY <1>0, <2>1, <2>2, AppControl DEF OwnLockOnly
<1>. QED
  BY <1>1, <1>2, <1>3

\* send and recv leave tcb_lock to whoever holds it.
LEMMA AppTransfers ==
    ASSUME ControlInv, NEW a \in Apps,
           Send(a) \/ Recv(a) \/ RecvLock(a) \/ RecvWoken(a)
    PROVE  LockInv' /\ LifeInv' /\ AppFrame(a)
<1>. DEFINE c == AppConn[a]
<1>0. /\ c \in Conns /\ a \in Threads /\ a \in Senders
      /\ pc \in [Threads -> Labels] /\ tx \in [Senders -> TxCalls]
  BY EnvAssumption DEF Threads, Senders, ControlInv, TypeInv, TypeOK
<1>1. OthersKept(a) /\ UNCHANGED <<life, tcb_lock>>
  <2>1. UNCHANGED <<life, tcb_lock, seg>>
    BY Zenon DEF Send, Recv, RecvLock, RecvWoken, tcbVars, locks
  <2>2. UNCHANGED pc \/ \E l \in Labels : Goto(a, l)
    BY Zenon DEF Send, Recv, RecvLock, RecvWoken, ReadBytes, Labels, AppLabels
  <2>3. UNCHANGED tx \/ \E v : tx' = [tx EXCEPT ![a] = v]
    BY Zenon DEF Send, Recv, RecvLock, RecvWoken, ReadBytes, CallTx
  <2>. QED
    BY <1>0, <2>1, <2>2, <2>3 DEF OthersKept, Goto
<1>2. ~Connecting(a)' /\ ~Closing(a)'
  <2>1. CASE Send(a)
    <3>1. \/ pc'[a] = "idle"
          \/ tx'[a].ret = "idle" /\ pc'[a] = "tx"
      BY <1>0, <2>1 DEF Send, Calling, CallTx, Goto
    <3>. QED
      BY <3>1 DEF Connecting, Closing, InTx
  <2>2. CASE Recv(a) \/ RecvLock(a) \/ RecvWoken(a)
    <3>1. pc'[a] \in {"idle", "recv_lock", "recv_wait"}
      BY <1>0, <2>2 DEF Recv, Calling, RecvLock, RecvWoken, ReadBytes, Goto
    <3>. QED
      BY <3>1 DEF Connecting, Closing, InTx
  <2>. QED
    BY <2>1, <2>2
<1>3. life[c] = "none" => pc'[a] = "idle"
  <2>1. ASSUME life[c] = "none" PROVE pc[a] = "idle"
    BY <2>1, <1>0 DEF ControlInv, LifeInv
  <2>. QED
    BY <2>1, Zenon DEF Send, Recv, RecvLock, RecvWoken
<1>. QED
  BY <1>0, <1>1, <1>2, <1>3, AppControl DEF OwnLockOnly

\* close holds tcb_lock until it waits.
LEMMA AppCloses ==
    ASSUME ControlInv, NEW a \in Apps, Close(a) \/ CloseLock(a) \/ CloseSent(a) \/ CloseWoken(a)
    PROVE  LockInv' /\ LifeInv' /\ AppFrame(a)
<1>. DEFINE c == AppConn[a]
<1>0. /\ c \in Conns /\ a \in Threads /\ a \in Senders
      /\ pc \in [Threads -> Labels] /\ tx \in [Senders -> TxCalls]
      /\ tcb_lock \in [Conns -> Threads \cup {Free}] /\ life \in [Conns -> {"none", "live", "freed"}]
      /\ (life[c] = "none" => pc[a] = "idle")
  BY EnvAssumption DEF Threads, Senders, ControlInv, TypeInv, TypeOK, LifeInv
<1>1. CASE Close(a)
  <2>1. /\ OthersKept(a) /\ UNCHANGED <<life, tcb_lock>>
        /\ pc'[a] \in {"idle", "close_lock"} /\ (life[c] = "none" => pc'[a] = "idle")
    BY <1>0, <1>1 DEF Close, Calling, Goto, OthersKept, tcbVars, locks
  <2>2. ~Connecting(a)' /\ ~Closing(a)'
    BY <2>1 DEF Connecting, Closing, InTx
  <2>. QED
    BY <1>0, <2>1, <2>2, AppControl DEF OwnLockOnly
<1>2. CASE CloseLock(a)
  <2>1. OthersKept(a) /\ UNCHANGED life /\ life[c] # "none"
    BY <1>0, <1>2 DEF CloseLock, Goto, CallTx, OthersKept
  <2>2. tcb_lock[c] = Free /\ tcb_lock' = [tcb_lock EXCEPT ![c] = a]
    BY <1>2 DEF CloseLock
  <2>3. pc'[a] = "idle" \/ (pc'[a] = "tx" /\ tx'[a].ret = "close_sent")
    BY <1>0, <1>2 DEF CloseLock, Goto, CallTx
  <2>4. ~Connecting(a)'
    BY <2>3 DEF Connecting, InTx
  <2>. QED
    BY <1>0, <2>1, <2>2, <2>4, AppControl DEF OwnLockOnly
<1>3. CASE CloseSent(a)
  <2>1. OthersKept(a) /\ pc'[a] = "close_wait" /\ UNCHANGED life /\ life[c] # "none"
    BY <1>0, <1>3 DEF CloseSent, Goto, OthersKept, tcbVars
  <2>2. tcb_lock[c] = a /\ tcb_lock' = [tcb_lock EXCEPT ![c] = Free]
    BY <1>0, <1>3 DEF CloseSent, ControlInv, LockInv, Closing
  <2>3. ~Connecting(a)' /\ ~Closing(a)'
    BY <2>1 DEF Connecting, Closing, InTx
  <2>. QED
    BY <1>0, <2>1, <2>2, <2>3, AppControl DEF OwnLockOnly
<1>4. CASE CloseWoken(a)
  <2>1. OthersKept(a) /\ pc'[a] = "idle" /\ UNCHANGED tcb_lock /\ life[c] # "none"
    BY <1>0, <1>4 DEF CloseWoken, Goto, OthersKept, locks
  <2>2. \A d \in Conns : life'[d] = "none" => life[d] = "none"
    BY <1>0, <1>4 DEF CloseWoken
  <2>3. ~Connecting(a)' /\ ~Closing(a)'
    BY <2>1 DEF Connecting, Closing, InTx
  <2>. QED
    BY <1>0, <2>1, <2>2, <2>3, AppControl DEF OwnLockOnly
<1>. QED
  BY <1>1, <1>2, <1>3, <1>4

\* tcp_tx, and a wait that ends without a signal, leave tcb_lock alone.
LEMMA AppWaits ==
    ASSUME ControlInv, NEW a \in Apps, SpuriousWakeup(a) \/ Tx(a)
    PROVE  LockInv' /\ LifeInv' /\ AppFrame(a)
<1>. DEFINE c == AppConn[a]
<1>0. /\ c \in Conns /\ a \in Threads /\ a \in Senders
      /\ pc \in [Threads -> Labels] /\ tx \in [Senders -> TxCalls]
      /\ (life[c] = "none" => pc[a] = "idle")
  BY EnvAssumption DEF Threads, Senders, ControlInv, TypeInv, TypeOK, LifeInv
<1>1. OthersKept(a) /\ UNCHANGED <<life, tcb_lock>> /\ pc[a] # "idle"
  <2>1. UNCHANGED <<life, tcb_lock, seg>> /\ pc[a] # "idle"
    BY Zenon DEF SpuriousWakeup, Tx, TxLock, TxAdd, tcbVars, locks
  <2>2. \E l : Goto(a, l)
    BY Zenon DEF SpuriousWakeup, Tx, TxLock, TxAdd
  <2>3. UNCHANGED tx \/ \E v : tx' = [tx EXCEPT ![a] = v]
    BY Zenon DEF SpuriousWakeup, Tx, TxLock, TxAdd
  <2>. QED
    BY <1>0, <2>1, <2>2, <2>3 DEF OthersKept, Goto
<1>2. (Connecting(a)' => Connecting(a)) /\ (Closing(a)' => Closing(a))
  <2>1. CASE SpuriousWakeup(a)
    <3>1. /\ UNCHANGED tx
          /\ \/ (pc'[a] = "tx") /\ (pc[a] = "tx_wait")
             \/ pc'[a] \in {"connect_woken", "recv_woken", "close_woken"}
      BY <1>0, <2>1 DEF SpuriousWakeup, Goto, Woken
    <3>. QED
      BY <3>1 DEF Connecting, Closing, InTx
  <2>2. CASE TxLock(a)
    <3>1. UNCHANGED tx /\ pc'[a] = "tx_add" /\ pc[a] = "tx"
      BY <1>0, <2>2 DEF TxLock, Goto
    <3>. QED
      BY <3>1 DEF Connecting, Closing, InTx
  <2>3. CASE TxAdd(a)
    <3>1. /\ pc[a] = "tx_add"
          /\ \/ pc'[a] = tx[a].ret /\ tx'[a].ret = "idle"
             \/ pc'[a] \in {"tx_wait", "tx"} /\ tx'[a].ret = tx[a].ret
      <4>1. pc[a] = "tx_add" /\
            \/ Goto(a, tx[a].ret) /\ tx' = [tx EXCEPT ![a] = NoTx]
            \/ (Goto(a, "tx_wait") \/ Goto(a, "tx")) /\ \E n : tx' = [tx EXCEPT ![a].sent = n]
        BY <2>3, Zenon DEF TxAdd
      <4>. QED
        BY <1>0, <4>1 DEF Goto, NoTx, TxCalls
    <3>. QED
      BY <3>1 DEF Connecting, Closing, InTx
  <2>. QED
    BY <2>1, <2>2, <2>3 DEF Tx
<1>. QED
  BY <1>0, <1>1, <1>2, AppControl DEF OwnLockOnly, ControlInv, LockInv

-----------------------------------------------------------------------------
(* tcp_rx, close_connection and tcp_retransmit_handler.                    *)

WaitLabels == {"connect_wait", "recv_wait", "close_wait", "tx_wait"}

\* A thread that moves, and signals threads that wait, leaves the applications
\* in the critical sections they are in.
LEMMA SignalControl ==
    ASSUME ControlInv, NEW t \in Threads \ Apps, NEW l \in Labels, NEW W,
           GotoSignalling(t, l, W), \A w \in W : w \in Apps /\ pc[w] \in WaitLabels,
           \A a \in Apps : tx'[a] = tx[a]
    PROVE  AppsKept /\ pc'[t] = l /\ \A u \in Threads \ Apps : u # t => pc'[u] = pc[u]
<1>0. pc \in [Threads -> Labels] /\ Apps \subseteq Threads
  BY DEF ControlInv, TypeInv, TypeOK, Threads
<1>1. CASE W = {} /\ pc' = [pc EXCEPT ![t] = l]
  BY <1>0, <1>1 DEF AppsKept, Connecting, Closing, InTx
<1>2. CASE \E w \in W : pc' = [pc EXCEPT ![t] = l, ![w] = Woken(w)]
  <2>1. PICK w \in W : pc' = [pc EXCEPT ![t] = l, ![w] = Woken(w)]
    BY <1>2, Zenon
  <2>2. w \in Apps /\ w # t /\ pc[w] \in WaitLabels
    BY <2>1
  <2>3. /\ pc'[w] = Woken(w) /\ pc'[t] = l
        /\ \A u \in Threads : u \notin {t, w} => pc'[u] = pc[u]
    BY <1>0, <2>1, <2>2
  <2>4. \/ pc'[w] = "tx" /\ pc[w] = "tx_wait"
        \/ pc'[w] \in {"connect_woken", "recv_woken", "close_woken"}
    BY <2>2, <2>3 DEF Woken, WaitLabels
  <2>5. ASSUME NEW a \in Apps
        PROVE  /\ Connecting(a)' => Connecting(a)
               /\ Closing(a)' => Closing(a)
               /\ InTx(a)' => InTx(a) /\ tx'[a] = tx[a]
               /\ pc'[a] = "idle" <=> pc[a] = "idle"
    <3>1. CASE a = w
      BY <3>1, <2>2, <2>4 DEF Connecting, Closing, InTx, WaitLabels
    <3>2. CASE a # w
      BY <3>2, <1>0, <2>3 DEF Connecting, Closing, InTx
    <3>. QED
      BY <3>1, <3>2
  <2>. QED
    BY <2>2, <2>3, <2>5 DEF AppsKept
<1>. QED
  BY <1>1, <1>2 DEF GotoSignalling

\* A jump moves one thread.
LEMMA GotoControl ==
    ASSUME ControlInv, NEW t \in Threads \ Apps, NEW l \in Labels, Goto(t, l),
           \A a \in Apps : tx'[a] = tx[a]
    PROVE  AppsKept /\ pc'[t] = l /\ \A u \in Threads \ Apps : u # t => pc'[u] = pc[u]
<1>0. pc \in [Threads -> Labels] /\ Apps \subseteq Threads
  BY DEF ControlInv, TypeInv, TypeOK, Threads
<1>. QED
  BY <1>0 DEF Goto, AppsKept, Connecting, Closing, InTx

\* The threads a signal may wake are waiting ones.
LEMMA WaitersWait ==
    ASSUME NEW c, NEW w, w \in TcbWaiters(c) \/ w \in SendWaiters(c)
    PROVE  w \in Apps /\ pc[w] \in WaitLabels
BY DEF TcbWaiters, SendWaiters, WaitLabels

\* The steps of tcp_rx that keep tcb_lock.
LEMMA RxHolds ==
    ASSUME ControlInv,
           \/ RxLockSend \/ RxSynSent \/ RxEstablished \/ RxSynReceived \/ RxOpened
           \/ RxAckEstablished \/ RxAckFinWait1 \/ RxText \/ RxWake \/ RxNoText \/ Tx(RX)
    PROVE  LockInv' /\ LifeInv' /\ RxFrame
<1>0. /\ RX \in Threads \ Apps /\ RX \in Senders /\ Conns \subseteq Threads \ Apps /\ RX \notin Conns
      /\ tx \in [Senders -> TxCalls] /\ Apps \subseteq Senders
      /\ {"rx_state", "tx", "tx_add", "tx_wait", "rx_done", "rx_text", "rx_wake", "rx_fin"} \subseteq Labels
  BY ThreadsDistinct DEF Threads, Senders, ControlInv, TypeInv, TypeOK, Labels, RxLabels, AppLabels
<1>1. RxBusy /\ pc[RX] # "idle" /\ UNCHANGED <<life, tcb_lock, seg>>
  BY Zenon DEF RxLockSend, RxSynSent, RxEstablished, RxSynReceived, RxOpened, RxAckEstablished,
     RxAckFinWait1, RxText, RxWake, RxNoText, Tx, TxLock, TxAdd, RxAt, RxBusy, tcbVars, locks
<1>2. \A a \in Apps : tx'[a] = tx[a]
  <2>1. UNCHANGED tx \/ \E v : tx' = [tx EXCEPT ![RX] = v]
    BY Zenon DEF RxLockSend, RxSynSent, RxEstablished, RxSynReceived, RxOpened, RxAckEstablished,
       RxAckFinWait1, RxText, RxWake, RxNoText, Tx, TxLock, TxAdd, CallTx
  <2>. QED
    BY <1>0, <2>1
<1>3. AppsKept /\ \A u \in Threads \ Apps : u # RX => pc'[u] = pc[u]
  <2>1. CASE RxEstablished \/ RxOpened \/ RxAckEstablished \/ RxWake
    <3>1. \E l \in Labels : \E d, W : /\ W \in {{}, TcbWaiters(d), SendWaiters(d)}
                                      /\ GotoSignalling(RX, l, W)
      BY <1>0, <2>1, Zenon DEF RxEstablished, RxOpened, RxAckEstablished, RxWake, WakesSenders
    <3>2. PICK l \in Labels : \E d, W : /\ W \in {{}, TcbWaiters(d), SendWaiters(d)}
                                        /\ GotoSignalling(RX, l, W)
      BY <3>1, Zenon
    <3>3. PICK d, W : W \in {{}, TcbWaiters(d), SendWaiters(d)} /\ GotoSignalling(RX, l, W)
      BY <3>2, Zenon
    <3>4. \A w \in W : w \in Apps /\ pc[w] \in WaitLabels
      BY <3>3, WaitersWait, Zenon
    <3>. QED
      BY <1>0, <1>2, <3>3, <3>4, SignalControl
  <2>2. CASE \/ RxLockSend \/ RxSynSent \/ RxSynReceived \/ RxAckFinWait1 \/ RxText \/ RxNoText
             \/ Tx(RX)
    <3>1. tx[RX].ret \in Labels
      BY <1>0 DEF TxCalls
    <3>2. \E l \in Labels : Goto(RX, l)
      BY <1>0, <2>2, <3>1, Zenon DEF RxLockSend, RxSynSent, RxSynReceived, RxAckFinWait1, RxText,
         RxNoText, Tx, TxLock, TxAdd
    <3>. QED
      BY <1>0, <1>2, <3>2, GotoControl
  <2>. QED
    BY <2>1, <2>2
<1>. QED
  BY <1>0, <1>1, <1>3, RxControl DEF OwnLockOnly, ControlInv, LockInv

\* The steps of tcp_rx that take tcb_lock or return.
LEMMA RxTakes ==
    ASSUME ControlInv, RxLockTcb \/ RxDrop \/ RxOutOfOrder \/ RxFin \/ RxDone
    PROVE  LockInv' /\ LifeInv' /\ RxFrame
<1>. DEFINE c == seg.conn
<1>0. /\ RX \in Threads \ Apps /\ RX \in Senders /\ Conns \subseteq Threads \ Apps /\ RX \notin Conns
      /\ tx \in [Senders -> TxCalls] /\ Apps \subseteq Senders
      /\ {"rx_send", "tx", "idle"} \subseteq Labels
      /\ tcb_lock \in [Conns -> Threads \cup {Free}] /\ pc \in [Threads -> Labels]
  BY ThreadsDistinct DEF Threads, Senders, ControlInv, TypeInv, TypeOK, Labels, RxLabels, AppLabels
<1>1. pc[RX] # "idle" /\ UNCHANGED life /\ c \in Conns
  <2>1. pc[RX] # "idle" /\ UNCHANGED life
    BY Zenon DEF RxLockTcb, RxDrop, RxOutOfOrder, RxFin, RxDone, RxAt, tcbVars
  <2>. QED
    BY <2>1 DEF ControlInv, TypeInv, SegOK
<1>2. CASE RxLockTcb
  <2>1. tcb_lock[c] = Free /\ tcb_lock' = [tcb_lock EXCEPT ![c] = RX] /\ seg' = seg /\ UNCHANGED tx
    BY <1>2 DEF RxLockTcb
  <2>2. AppsKept /\ \A u \in Threads \ Apps : u # RX => pc'[u] = pc[u]
    BY <1>0, <1>2, <2>1, GotoControl DEF RxLockTcb
  <2>. QED
    BY <1>0, <1>1, <2>1, <2>2, RxControl DEF OwnLockOnly
<1>3. CASE RxDrop \/ RxOutOfOrder \/ RxDone
  <2>1. tcb_lock' = [tcb_lock EXCEPT ![c] = Free] /\ UNCHANGED tx /\ tcb_lock[c] = RX
    <3>1. RxBusy
      BY <1>3 DEF RxDrop, RxOutOfOrder, RxDone, RxAt, RxBusy
    <3>. QED
      BY <1>3, <3>1 DEF RxDrop, RxOutOfOrder, RxDone, ControlInv, LockInv
  <2>2. /\ AppsKept /\ pc'[RX] = "idle"
        /\ \A d \in Conns : pc'[d] = pc[d] \/ (d = c /\ pc'[d] = "tw_lock")
    <3>1. CASE Goto(RX, "idle")
      BY <1>0, <2>1, <3>1, GotoControl
    <3>2. CASE pc' = [pc EXCEPT ![RX] = "idle", ![c] = "tw_lock"]
      BY <1>0, <1>1, <2>1, <3>2 DEF AppsKept, Connecting, Closing, InTx, Threads
    <3>. QED
      BY <1>3, <3>1, <3>2 DEF RxDrop, RxOutOfOrder, RxDone, Goto
  <2>. QED
    BY <1>0, <1>1, <2>1, <2>2, RxControl DEF OwnLockOnly, RxBusy
<1>4. CASE RxFin
  <2>1. UNCHANGED tcb_lock /\ tcb_lock[c] = RX /\ (\A a \in Apps : tx'[a] = tx[a])
    BY <1>0, <1>4 DEF RxFin, RxAt, RxBusy, locks, CallTx, ControlInv, LockInv
  <2>2. \/ Goto(RX, "tx") /\ seg' = seg
        \/ Goto(RX, "idle")
    BY <1>4, Zenon DEF RxFin
  <2>3. /\ AppsKept /\ (\A u \in Threads \ Apps : u # RX => pc'[u] = pc[u])
        /\ (pc'[RX] # "idle" => seg' = seg)
    BY <1>0, <2>1, <2>2, GotoControl
  <2>. QED
    BY <1>0, <1>1, <2>1, <2>3, RxControl DEF OwnLockOnly
<1>. QED
  BY <1>2, <1>3, <1>4

\* close_connection owns tcb_lock while it stops the retransmission.
LEMMA TimeWaitControl ==
    ASSUME ControlInv, NEW c \in Conns, TimeWait(c)
    PROVE  /\ LockInv' /\ LifeInv' /\ AppsKept /\ OwnLockOnly(c)
           /\ UNCHANGED <<life, tx, seg>> /\ pc'[RX] = pc[RX]
<1>0. /\ c \in Threads \ Apps /\ RX \in Threads \ Apps /\ Conns \subseteq Threads \ Apps
      /\ RX # c /\ Free \notin Threads /\ AppConn \in [Apps -> Conns] /\ Apps \subseteq Threads
      /\ {"tw_stop", "idle"} \subseteq Labels /\ tcb_lock \in [Conns -> Threads \cup {Free}]
      /\ (pc[RX] # "idle" => seg.conn \in Conns)
  BY EnvAssumption, ThreadsDistinct
     DEF Threads, ControlInv, TypeInv, TypeOK, SegOK, Labels, AppLabels
<1>1. UNCHANGED <<life, tx, seg>> /\ life[c] # "none"
  <2>1. UNCHANGED <<life, tx, seg>> /\ pc[c] # "idle"
    BY Zenon DEF TimeWait, CloseConnectionLock, CloseConnection, tcbVars
  <2>. QED
    BY <2>1 DEF ControlInv, LifeInv
<1>2. /\ \/ tcb_lock[c] = Free /\ tcb_lock' = [tcb_lock EXCEPT ![c] = c] /\ pc'[c] = "tw_stop"
         \/ tcb_lock[c] = c /\ tcb_lock' = [tcb_lock EXCEPT ![c] = Free] /\ pc'[c] = "idle"
      /\ AppsKept /\ \A u \in Threads \ Apps : u # c => pc'[u] = pc[u]
  <2>1. CASE CloseConnectionLock(c)
    BY <1>0, <1>1, <2>1, GotoControl DEF CloseConnectionLock
  <2>2. CASE CloseConnection(c)
    <3>1. tcb_lock[c] = c /\ tcb_lock' = [tcb_lock EXCEPT ![c] = Free]
      BY <2>2 DEF CloseConnection, ControlInv, LockInv
    <3>2. GotoSignalling(c, "idle", TcbWaiters(c))
      BY <2>2 DEF CloseConnection
    <3>3. \A w \in TcbWaiters(c) : w \in Apps /\ pc[w] \in WaitLabels
      BY WaitersWait
    <3>. QED
      BY <1>0, <1>1, <3>1, <3>2, <3>3, SignalControl
  <2>. QED
    BY <2>1, <2>2 DEF TimeWait
<1>3. \A u \in Threads \ {c}, d \in Conns : tcb_lock[d] = u => tcb_lock'[d] = u
  BY <1>0, <1>2
<1>4. ASSUME NEW b \in Apps, Connecting(b)' \/ Closing(b)' PROVE tcb_lock'[AppConn[b]] = b
  BY <1>0, <1>2, <1>3, <1>4 DEF AppsKept, ControlInv, LockInv
<1>5. RxBusy' => tcb_lock'[seg'.conn] = RX
  BY <1>0, <1>1, <1>2, <1>3 DEF RxBusy, ControlInv, LockInv
<1>6. ASSUME NEW d \in Conns, pc'[d] = "tw_stop" PROVE tcb_lock'[d] = d
  BY <1>0, <1>2, <1>3, <1>6 DEF ControlInv, LockInv
<1>7. LockInv'
  BY <1>4, <1>5, <1>6, Zenon DEF LockInv
<1>8. LifeInv'
  BY <1>0, <1>1, <1>2 DEF AppsKept, ControlInv, LifeInv
<1>. QED
  BY <1>0, <1>1, <1>2, <1>7, <1>8 DEF OwnLockOnly

\* tcp_retransmit_handler takes no tcb_lock it keeps.
LEMMA RtxControl ==
    ASSUME ControlInv, Rtx
    PROVE  /\ LockInv' /\ LifeInv' /\ AppsKept
           /\ UNCHANGED <<life, state, rcvVars, tcb_lock, seg, tx>>
           /\ \A u \in Threads \ Apps : u # RTX => pc'[u] = pc[u]
<1>0. /\ RTX \in Threads \ Apps /\ RX \in Threads \ Apps /\ Conns \subseteq Threads \ Apps
      /\ RTX # RX /\ RTX \notin Conns /\ {"rtx_scan", "rtx_give_up", "idle"} \subseteq Labels
  BY ThreadsDistinct DEF Threads, Labels, RtxLabels
<1>1. UNCHANGED <<life, state, rcvVars, tcb_lock, tx, seg>>
  BY Zenon DEF Rtx, RtxLock, RtxDone, RtxSend, RtxGiveUp, tcbVars, locks
<1>2. AppsKept /\ \A u \in Threads \ Apps : u # RTX => pc'[u] = pc[u]
  <2>1. CASE \E l \in Labels : Goto(RTX, l)
    BY <1>0, <1>1, <2>1, GotoControl
  <2>2. CASE \E m \in messages_array : RtxGiveUp(m)
    <3>1. PICK m \in messages_array : RtxGiveUp(m)
      BY <2>2
    <3>2. GotoSignalling(RTX, "rtx_scan", TcbWaiters(m.conn))
      BY <3>1 DEF RtxGiveUp
    <3>3. \A w \in TcbWaiters(m.conn) : w \in Apps /\ pc[w] \in WaitLabels
      BY WaitersWait
    <3>. QED
      BY <1>0, <1>1, <3>2, <3>3, SignalControl
  <2>. QED
    BY <1>0, <2>1, <2>2, Zenon DEF Rtx, RtxLock, RtxDone, RtxSend
<1>3. LockInv' /\ LifeInv'
  BY <1>0, <1>1, <1>2 DEF AppsKept, ControlInv, LockInv, LifeInv, RxBusy
<1>. QED
  BY <1>1, <1>2, <1>3

\* A segment that arrives finds tcp_rx with nothing in hand.
LEMMA ArrivalControl ==
    ASSUME ControlInv, NEW c \in Conns, RxSegment(c)
    PROVE  LockInv' /\ LifeInv' /\ AppsKept
<1>0. RX \in Threads \ Apps /\ Conns \subseteq Threads \ Apps /\ RX \notin Conns /\ "rx_tcb" \in Labels
  BY ThreadsDistinct DEF Threads, Labels, RxLabels
<1>1. UNCHANGED <<life, tcb_lock, tx>> /\ pc[RX] = "idle"
  BY DEF RxSegment, tcbVars, locks, RxAt
<1>2. CASE UNCHANGED <<seg, pc>>
  BY <1>1, <1>2 DEF AppsKept, ControlInv, LockInv, LifeInv, RxBusy, Connecting, Closing, InTx
<1>3. CASE Goto(RX, "rx_tcb") /\ life[c] = "live" /\ \E s \in Inbound(c) : seg' = s
  <2>1. seg'.conn = c
    BY <1>3, InboundType DEF ControlInv, TypeInv
  <2>2. AppsKept /\ pc'[RX] = "rx_tcb" /\ \A u \in Threads \ Apps : u # RX => pc'[u] = pc[u]
    BY <1>0, <1>1, <1>3, GotoControl
  <2>. QED
    <3>1. LockInv'
      <4>1. \A a \in Apps : Connecting(a)' \/ Closing(a)' => tcb_lock'[AppConn[a]] = a
        BY <1>1, <2>2, Zenon DEF AppsKept, ControlInv, LockInv
      <4>2. ~RxBusy'
        BY <2>2, Zenon DEF RxBusy
      <4>3. \A d \in Conns : pc'[d] = "tw_stop" => tcb_lock'[d] = d
        BY <1>0, <1>1, <2>2, Zenon DEF ControlInv, LockInv
      <4>. QED
        BY <4>1, <4>2, <4>3, Zenon DEF LockInv
    <3>2. LifeInv'
      BY <1>0, <1>1, <1>3, <2>1, <2>2 DEF AppsKept, ControlInv, LifeInv, RxBusy
    <3>. QED
      BY <2>2, <3>1, <3>2
<1>. QED
  BY <1>2, <1>3, Zenon DEF RxSegment

-----------------------------------------------------------------------------
(* All steps together.                                                     *)

\* Nobody holds a mutex at the start.
LEMMA InitControl == ASSUME Init PROVE LockInv /\ LifeInv
<1>0. Apps \subseteq Threads /\ Conns \subseteq Threads /\ RX \in Threads /\ AppConn \in [Apps -> Conns]
  BY EnvAssumption DEF Threads
<1>. QED
  BY <1>0 DEF Init, LockInv, LifeInv, RxBusy, Connecting, Closing, InTx

\* Every step keeps the mutexes with their owners.
LEMMA NextControl ==
    ASSUME ControlInv, [Next]_vars, "corrupts" \notin Env
    PROVE  LockInv' /\ LifeInv'
<1>1. CASE \E a \in Apps : App(a) \/ SpuriousWakeup(a)
  BY <1>1, AppConnects, AppTransfers, AppCloses, AppWaits, Zenon DEF App
<1>2. CASE Arrival
  BY <1>2, ArrivalControl, Zenon DEF Arrival, RxBadSegment
<1>3. CASE RxStep
  BY <1>3, RxHolds, RxTakes, Zenon DEF RxStep
<1>4. CASE \E h : RxArpReply(h)
  <2>1. UNCHANGED <<life, tcb_lock, pc, tx, seg>>
    BY <1>4, Zenon DEF RxArpReply, tcbVars, locks, thrVars
  <2>. QED
    BY <2>1 DEF ControlInv, LockInv, LifeInv, RxBusy, Connecting, Closing, InTx
<1>5. CASE \E c \in Conns : TimeWait(c)
  BY <1>5, TimeWaitControl, Zenon
<1>6. CASE Rtx
  BY <1>6, RtxControl
<1>7. CASE UNCHANGED vars
  <2>1. UNCHANGED <<life, tcb_lock, pc, tx, seg>>
    BY <1>7, Zenon DEF vars, tcbVars, locks, thrVars
  <2>. QED
    BY <2>1 DEF ControlInv, LockInv, LifeInv, RxBusy, Connecting, Closing, InTx
<1>. QED
  BY <1>1, <1>2, <1>3, <1>4, <1>5, <1>6, <1>7, Zenon DEF Next

\* Between the lock and the unlock of tcb_lock in connect, close, tcp_rx and
\* close_connection nobody else releases it, as long as every segment passes
\* the length and checksum tests of tcp_rx.
THEOREM LocksOwned ==
    ASSUME "corrupts" \notin Env PROVE Spec => []ControlInv
<1>1. Init => ControlInv
  BY InitType, InitControl DEF ControlInv
<1>2. ControlInv /\ [Next]_vars => ControlInv'
  BY NextType, NextControl DEF ControlInv
<1>. QED
  BY <1>1, <1>2, PTL DEF Spec
=============================================================================
