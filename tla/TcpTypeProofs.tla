---------------------------- MODULE TcpTypeProofs ----------------------------
(***************************************************************************)
(* Type correctness of Tcp, for every value of its constants.              *)
(***************************************************************************)
EXTENDS TcpProperties, TLAPS

\* TypeOK is not inductive by itself.  tcp_tx computes data_size - data_sent
\* unsigned: that is a length only while data_sent <= data_size.  And tcp_rx
\* works on a tcb only while it has a segment.
SentOK == \A t \in Senders : tx[t].sent <= tx[t].size
SegOK == pc[RX] # "idle" => seg.conn \in Conns
TypeInv == TypeOK /\ SentOK /\ SegOK

-----------------------------------------------------------------------------
(* What the operators that several actions share do to the types.          *)

\* Sequence arithmetic, as on uint32_t, stays in the sequence space.
LEMMA SeqNumbers ==
    ASSUME NEW a \in Int, NEW b \in Int
    PROVE  Plus(a, b) \in 0..SeqSpace - 1 /\ Minus(a, b) \in 0..SeqSpace - 1
BY SizeAssumption DEF Plus, Minus

\* A sequence number is a number.
LEMMA SeqIsNat == ASSUME NEW a \in 0..SeqSpace - 1 PROVE a \in Nat /\ a \in Int
BY SizeAssumption

\* A minimum of two lengths is a length, and bounded by both.
LEMMA MinBounds ==
    ASSUME NEW a \in Nat, NEW b \in Nat
    PROVE  Min(a, b) \in Nat /\ Min(a, b) <= a /\ Min(a, b) <= b
BY DEF Min

\* What tcp_tx takes of the data, and what recv takes of the buffer, leave a
\* length.
LEMMA Rest ==
    ASSUME NEW size \in Nat, NEW used \in Nat, used <= size
    PROVE  /\ size - used \in Nat /\ size - used <= size
           /\ \A n \in Nat : n <= size - used => used + n \in Nat /\ used + n <= size
OBVIOUS

\* A jump to a label leaves pc well typed.
LEMMA GotoType ==
    ASSUME pc \in [Threads -> Labels], NEW t \in Threads, NEW l \in Labels, Goto(t, l)
    PROVE  /\ pc' \in [Threads -> Labels]
           /\ pc'[t] = l
           /\ \A u \in Threads : u # t => pc'[u] = pc[u]
BY DEF Goto

\* A signal moves one waiting application, and nobody else.
LEMMA SignalType ==
    ASSUME pc \in [Threads -> Labels], NEW t \in Threads, NEW l \in Labels,
           NEW W, W \subseteq Apps, t \notin Apps, GotoSignalling(t, l, W)
    PROVE  /\ pc' \in [Threads -> Labels]
           /\ pc'[t] = l
           /\ \A u \in Threads : u # t => pc'[u] \in {pc[u], Woken(u)}
           /\ \A u \in Threads : u # t /\ u \notin W => pc'[u] = pc[u]
<1>1. CASE W = {} /\ pc' = [pc EXCEPT ![t] = l]
  BY <1>1
<1>2. CASE \E w \in W : pc' = [pc EXCEPT ![t] = l, ![w] = Woken(w)]
  <2>1. PICK w \in W : pc' = [pc EXCEPT ![t] = l, ![w] = Woken(w)]
    BY <1>2, Zenon
  <2>2. w \in Threads /\ w # t
    BY DEF Threads
  <2>3. Woken(w) \in Labels
    BY DEF Woken, Labels, AppLabels
  <2>. QED
    BY <2>1, <2>2, <2>3
<1>. QED
  BY <1>1, <1>2 DEF GotoSignalling

\* A call of tcp_tx fills in well-typed locals, with nothing sent yet.
LEMMA CallTxType ==
    ASSUME TypeOK, SentOK, NEW t \in Senders, NEW flags \in {"SYN", "SYNACK", "ACK", "FINACK"},
           NEW n \in Nat, NEW retries \in Int, NEW ret \in Labels,
           CallTx(t, flags, n, retries, ret)
    PROVE  tx' \in [Senders -> TxCalls] /\ SentOK'
<1>1. tx \in [Senders -> TxCalls]
  BY DEF TypeOK
<1>. QED
  BY <1>1 DEF CallTx, TxCalls, SentOK

\* A return from tcp_tx or read_bytes clears the locals.
LEMMA NoTxType ==
    ASSUME TypeOK, SentOK, NEW t \in Senders, NEW n \in Nat,
           tx' = [tx EXCEPT ![t] = [NoTx EXCEPT !.size = n]] \/ tx' = [tx EXCEPT ![t] = NoTx]
    PROVE  tx' \in [Senders -> TxCalls] /\ SentOK'
<1>1. tx \in [Senders -> TxCalls]
  BY DEF TypeOK
<1>2. NoTx \in TxCalls /\ [NoTx EXCEPT !.size = n] \in TxCalls
  BY DEF NoTx, TxCalls, Labels, AppLabels
<1>. QED
  BY <1>1, <1>2 DEF NoTx, SentOK

-----------------------------------------------------------------------------
(* The socket calls.                                                       *)

\* An application that makes a call has one left to make.
LEMMA CallingType == ASSUME TypeOK, NEW a \in Apps, NEW op, Calling(a, op)
                     PROVE  prog' \in [Apps -> Seq(Calls)] /\ Head(prog[a]).n \in Nat
<1>1. prog[a] \in Seq(Calls) /\ prog[a] # <<>>
  BY DEF TypeOK, Calling
<1>2. Head(prog[a]) \in Calls /\ Tail(prog[a]) \in Seq(Calls)
  BY <1>1
<1>. QED
  BY <1>2 DEF TypeOK, Calling, Calls

\* connect, up to tcp_tx of the SYN, keeps the types.
LEMMA ConnectType == ASSUME TypeInv, NEW a \in Apps, Connect(a) PROVE TypeInv'
<1>. DEFINE c == AppConn[a]
<1>0. c \in Conns /\ a \in Threads /\ a \in Senders /\ RX \in Threads /\ a # RX
  BY EnvAssumption, ThreadsDistinct DEF Threads, Senders
<1>1. /\ pc' \in [Threads -> Labels] /\ pc'[RX] = pc[RX]
  BY <1>0, GotoType DEF Connect, TypeInv, TypeOK, Labels, AppLabels
<1>2. tx' \in [Senders -> TxCalls] /\ SentOK'
  BY <1>0, CallTxType, SizeAssumption DEF Connect, TypeInv, Labels, AppLabels
<1>3. prog' \in [Apps -> Seq(Calls)]
  BY CallingType DEF Connect, TypeInv
<1>4. ISS[c] \in 0..SeqSpace - 1 /\ Minus(ISS[c], 1) \in 0..SeqSpace - 1
  BY <1>0, SizeAssumption DEF Minus
<1>5. TypeOK'
  BY <1>0, <1>1, <1>2, <1>3, <1>4, Zenon DEF Connect, TypeInv, TypeOK, rcvVars, rtxVars, netVars
<1>. QED
  BY <1>1, <1>2, <1>5 DEF Connect, TypeInv, SegOK

\* The steps of an application that move its pc and write no more than its
\* locals, its program, the mutexes and the state of its tcb.
LEMMA AppStepType ==
    ASSUME TypeInv, NEW a \in Apps, NEW l \in Labels, Goto(a, l) \/ UNCHANGED pc,
           life' \in [Conns -> {"none", "live", "freed"}], state' \in [Conns -> States],
           tcb_lock' \in [Conns -> Threads \cup {Free}],
           tx' \in [Senders -> TxCalls] /\ SentOK', prog' \in [Apps -> Seq(Calls)],
           UNCHANGED <<sndVars, rcvVars, send_lock, msg_arr_lock, rtxVars, seg, netVars>>
    PROVE  TypeInv'
<1>0. a \in Threads /\ RX \in Threads /\ a # RX
  BY ThreadsDistinct DEF Threads
<1>1. pc' \in [Threads -> Labels] /\ pc'[RX] = pc[RX]
  BY <1>0, GotoType DEF TypeInv, TypeOK
<1>2. TypeOK'
  BY <1>1 DEF TypeInv, TypeOK, sndVars, rcvVars, rtxVars, netVars
<1>. QED
  BY <1>1, <1>2 DEF TypeInv, SegOK

\* The calls that only enter a function, or leave connect, keep the types.
LEMMA CallsType ==
    ASSUME TypeInv, NEW a \in Apps, Send(a) \/ Recv(a) \/ Close(a)
    PROVE  TypeInv'
<1>. USE DEF TypeInv
<1>0. a \in Senders /\ {"idle", "tx", "recv_lock", "close_lock"} \subseteq Labels
  BY DEF Senders, Labels, AppLabels
<1>1. prog' \in [Apps -> Seq(Calls)] /\ Head(prog[a]).n \in Nat
  BY CallingType DEF Send, Recv, Close
<1>2. UNCHANGED <<tcbVars, locks, rtxVars, seg, netVars>>
  BY DEF Send, Recv, Close
<1>3. /\ life' \in [Conns -> {"none", "live", "freed"}] /\ state' \in [Conns -> States]
      /\ tcb_lock' \in [Conns -> Threads \cup {Free}]
  BY <1>2 DEF TypeOK, tcbVars, locks
<1>4. UNCHANGED tx => tx' \in [Senders -> TxCalls] /\ SentOK'
  BY DEF TypeOK, SentOK
<1>5. ASSUME Send(a) PROVE TypeInv'
  <2>1. DataRetries \in Int
    BY DEF DataRetries, RETRIES_INFINITE
  <2>2. tx' \in [Senders -> TxCalls] /\ SentOK'
    BY <1>0, <1>1, <1>4, <1>5, <2>1, CallTxType DEF Send
  <2>3. Goto(a, "tx") \/ UNCHANGED pc
    BY <1>5 DEF Send
  <2>. QED
    BY <1>0, <1>1, <1>2, <1>3, <2>2, <2>3, AppStepType DEF tcbVars, locks
<1>6. ASSUME Recv(a) PROVE TypeInv'
  <2>1. tx' \in [Senders -> TxCalls] /\ SentOK'
    BY <1>0, <1>1, <1>4, <1>6, NoTxType DEF Recv
  <2>2. Goto(a, "recv_lock") \/ UNCHANGED pc
    BY <1>6 DEF Recv
  <2>. QED
    BY <1>0, <1>1, <1>2, <1>3, <2>1, <2>2, AppStepType DEF tcbVars, locks
<1>7. ASSUME Close(a) PROVE TypeInv'
  <2>1. tx' \in [Senders -> TxCalls] /\ SentOK'
    BY <1>4, <1>7 DEF Close
  <2>2. Goto(a, "close_lock") \/ UNCHANGED pc
    BY <1>7 DEF Close
  <2>. QED
    BY <1>0, <1>1, <1>2, <1>3, <2>1, <2>2, AppStepType DEF tcbVars, locks
<1>. QED
  BY <1>5, <1>6, <1>7

\* The steps of connect and close around their waits keep the types.
LEMMA BlockingCallsType ==
    ASSUME TypeInv, NEW a \in Apps,
           \/ ConnectSent(a) \/ ConnectWoken(a) \/ CloseLock(a) \/ CloseSent(a)
           \/ CloseWoken(a) \/ SpuriousWakeup(a)
    PROVE  TypeInv'
<1>. USE DEF TypeInv
<1>. DEFINE c == AppConn[a]
<1>0. /\ a \in Senders /\ a \in Threads /\ c \in Conns
      /\ {"idle", "tx", "connect_wait", "close_wait", "close_sent", Woken(a)} \subseteq Labels
  BY EnvAssumption DEF Senders, Threads, Labels, AppLabels, Woken
<1>1. life' \in [Conns -> {"none", "live", "freed"}]
  BY Zenon DEF TypeOK, ConnectSent, ConnectWoken, CloseLock, CloseSent, CloseWoken, SpuriousWakeup,
         tcbVars
<1>2. tcb_lock' \in [Conns -> Threads \cup {Free}]
  <2>1. tcb_lock' \in {tcb_lock, [tcb_lock EXCEPT ![c] = a], [tcb_lock EXCEPT ![c] = Free]}
    BY DEF ConnectSent, ConnectWoken, CloseLock, CloseSent, CloseWoken, SpuriousWakeup, locks
  <2>. QED
    BY <1>0, <2>1, Zenon DEF TypeOK
<1>7. prog' \in [Apps -> Seq(Calls)]
  <2>1. prog' \in {prog, [prog EXCEPT ![a] = <<>>]}
    BY DEF ConnectSent, ConnectWoken, CloseLock, CloseSent, CloseWoken, SpuriousWakeup
  <2>2. <<>> \in Seq(Calls)
    OBVIOUS
  <2>. QED
    BY <2>1, <2>2, Zenon DEF TypeOK
<1>6. state' \in [Conns -> States]
  <2>1. /\ state \in [Conns -> States] /\ {"SYN_SENT", "FIN_WAIT_1"} \subseteq States
        /\ \/ state' = state \/ state' = [state EXCEPT ![c] = "SYN_SENT"]
           \/ state' = [state EXCEPT ![c] = "FIN_WAIT_1"]
    BY Zenon DEF TypeOK, States, ConnectSent, ConnectWoken, CloseLock, CloseSent, CloseWoken,
           SpuriousWakeup, tcbVars
  <2>. QED
    BY <2>1
<1>3. tx' \in [Senders -> TxCalls] /\ SentOK'
  <2>1. RETRIES_SENDONCE \in Int /\ 0 \in Nat
    BY DEF RETRIES_SENDONCE
  <2>2. CASE UNCHANGED tx
    BY <2>2 DEF TypeOK, SentOK
  <2>3. CASE CallTx(a, "FINACK", 0, RETRIES_SENDONCE, "close_sent")
    BY <1>0, <2>1, <2>3, CallTxType
  <2>. QED
    BY <2>2, <2>3 DEF ConnectSent, ConnectWoken, CloseLock, CloseSent, CloseWoken,
                      SpuriousWakeup
<1>4. UNCHANGED <<sndVars, rcvVars, send_lock, msg_arr_lock, rtxVars, seg, netVars>>
  <2>1. UNCHANGED <<sndVars, rcvVars>>
    BY Zenon DEF ConnectSent, ConnectWoken, CloseLock, CloseSent, CloseWoken, SpuriousWakeup, tcbVars
  <2>2. UNCHANGED <<send_lock, msg_arr_lock>>
    BY Zenon DEF ConnectSent, ConnectWoken, CloseLock, CloseSent, CloseWoken, SpuriousWakeup, locks
  <2>3. UNCHANGED <<rtxVars, seg, netVars>>
    BY Zenon DEF ConnectSent, ConnectWoken, CloseLock, CloseSent, CloseWoken, SpuriousWakeup
  <2>. QED
    BY <2>1, <2>2, <2>3
<1>5. \E l \in Labels : Goto(a, l)
  BY <1>0 DEF ConnectSent, ConnectWoken, CloseLock, CloseSent, CloseWoken, SpuriousWakeup
<1>. QED
  BY <1>1, <1>2, <1>3, <1>4, <1>5, <1>6, <1>7, AppStepType

-----------------------------------------------------------------------------
(* tcp_tx and read_bytes.                                                  *)

\* A thread inside tcp_tx works on a connection.
LEMMA SenderType == ASSUME TypeInv, NEW t \in Senders, pc[t] # "idle"
                    PROVE  ConnOf(t) \in Conns /\ t \in Threads
BY EnvAssumption DEF TypeInv, SegOK, ConnOf, Senders, Threads

\* Taking send_lock at the top of the loop of tcp_tx keeps the types.
LEMMA TxLockType == ASSUME TypeInv, NEW t \in Senders, TxLock(t) PROVE TypeInv'
<1>0. ConnOf(t) \in Conns /\ t \in Threads /\ RX \in Threads
  BY SenderType DEF TxLock, Threads
<1>1. pc' \in [Threads -> Labels] /\ (pc'[RX] = pc[RX] \/ t = RX)
  BY <1>0, GotoType DEF TxLock, TypeInv, TypeOK, Labels, AppLabels
<1>2. send_lock' \in [Conns -> Threads \cup {Free}]
  BY <1>0 DEF TxLock, TypeInv, TypeOK
<1>3. TypeOK'
  BY <1>1, <1>2 DEF TxLock, TypeInv, TypeOK, tcbVars, sndVars, rcvVars, rtxVars, netVars
<1>4. SegOK'
  BY <1>0, <1>1 DEF TxLock, TypeInv, SegOK, ConnOf
<1>. QED
  BY <1>3, <1>4 DEF TxLock, TypeInv, SentOK

\* An iteration of tcp_tx keeps the types: the segment fits what is left of
\* the data, so data_sent never passes data_size.
LEMMA TxAddType == ASSUME TypeInv, NEW t \in Senders, TxAdd(t) PROVE TypeInv'
<1>. DEFINE c == ConnOf(t)
            n == Min(snd_wnd[c], Min(TCP_MAX_SEG_SIZE, tx[t].size - tx[t].sent))
            sent == tx[t].sent + n
<1>0. c \in Conns /\ t \in Threads /\ RX \in Threads
  BY SenderType DEF TxAdd, Threads
<1>1. tx \in [Senders -> TxCalls] /\ tx[t] \in TxCalls
  BY DEF TypeInv, TypeOK
<1>2. n \in Nat /\ sent \in Nat /\ sent <= tx[t].size
  <2>1. /\ tx[t].size \in Nat /\ tx[t].sent \in Nat /\ tx[t].sent <= tx[t].size
        /\ snd_wnd[c] \in Nat /\ TCP_MAX_SEG_SIZE \in Nat
    <3>1. tx[t].size \in Nat /\ tx[t].sent \in Nat
      BY <1>1 DEF TxCalls
    <3>2. tx[t].sent <= tx[t].size
      BY Zenon DEF TypeInv, SentOK
    <3>3. snd_wnd[c] \in Nat
      BY <1>0, Zenon DEF TypeInv, TypeOK
    <3>. QED
      BY <3>1, <3>2, <3>3, SizeAssumption, Zenon
  <2>2. tx[t].size - tx[t].sent \in Nat
    BY <2>1, Rest, Zenon
  <2>3. Min(TCP_MAX_SEG_SIZE, tx[t].size - tx[t].sent) \in Nat
    BY <2>1, <2>2, MinBounds, Zenon
  <2>4. n \in Nat /\ n <= tx[t].size - tx[t].sent
    <3>1. /\ n \in Nat /\ n <= Min(TCP_MAX_SEG_SIZE, tx[t].size - tx[t].sent)
          /\ Min(TCP_MAX_SEG_SIZE, tx[t].size - tx[t].sent) <= tx[t].size - tx[t].sent
      BY <2>1, <2>2, <2>3, MinBounds, Zenon
    <3>2. ASSUME NEW x \in Nat, NEW y \in Nat, NEW z \in Nat, x <= y, y <= z PROVE x <= z
      BY <3>2
    <3>. QED
      BY <2>2, <2>3, <3>1, <3>2, Zenon
  <2>. QED
    BY <2>1, <2>4, Rest, Zenon
<1>. HIDE DEF n, sent
<1>3. messages_array' \subseteq Messages
  <2>1. Packet(c, tx[t].flags, n, tx[t].retries) \in Messages
    BY <1>0, <1>1, <1>2 DEF Packet, Messages, TxCalls, TypeInv, TypeOK
  <2>2. messages_array' = messages_array \cup {Packet(c, tx[t].flags, n, tx[t].retries)}
    BY DEF TxAdd, n
  <2>. QED
    BY <2>1, <2>2 DEF TypeInv, TypeOK
<1>4. snd_nxt' \in [Conns -> 0..SeqSpace - 1]
  <2>1. Ctl(tx[t].flags) \in Nat
    BY DEF Ctl
  <2>2. snd_nxt[c] \in Int
    <3>1. snd_nxt[c] \in 0..SeqSpace - 1
      BY <1>0, Zenon DEF TypeInv, TypeOK
    <3>. QED
      BY <3>1, SeqIsNat, Zenon
  <2>5. n + Ctl(tx[t].flags) \in Int
    BY <1>2, <2>1
  <2>3. Plus(snd_nxt[c], n + Ctl(tx[t].flags)) \in 0..SeqSpace - 1
    BY <2>2, <2>5, SeqNumbers, Zenon
  <2>4. snd_nxt' = [snd_nxt EXCEPT ![c] = Plus(snd_nxt[c], n + Ctl(tx[t].flags))]
    BY <1>0 DEF TxAdd, TypeInv, TypeOK, n
  <2>. QED
    BY <1>0, <2>3, <2>4 DEF TypeInv, TypeOK
<1>5. queued' \in [Conns -> Nat]
  <2>1. queued' = [queued EXCEPT ![c] = queued[c] + n]
    BY <1>0 DEF TxAdd, TypeInv, TypeOK, n
  <2>. QED
    BY <1>0, <1>2, <2>1 DEF TypeInv, TypeOK
<1>6. tx' \in [Senders -> TxCalls] /\ SentOK'
  <2>1. tx' = [tx EXCEPT ![t] = NoTx] \/ tx' = [tx EXCEPT ![t].sent = sent]
    BY DEF TxAdd, sent, n
  <2>2. CASE tx' = [tx EXCEPT ![t] = NoTx]
    BY <2>2, NoTxType, 0 \in Nat, Zenon DEF TypeInv
  <2>3. CASE tx' = [tx EXCEPT ![t].sent = sent]
    BY <1>1, <1>2, <2>3 DEF TxCalls, SentOK, TypeInv
  <2>. QED
    BY <2>1, <2>2, <2>3
<1>7. pc' \in [Threads -> Labels] /\ (pc'[RX] = pc[RX] \/ t = RX)
  <2>1. tx[t].ret \in Labels /\ {"tx", "tx_wait"} \subseteq Labels
    BY <1>1 DEF TxCalls, Labels, AppLabels
  <2>2. \E l \in Labels : Goto(t, l)
    BY <2>1 DEF TxAdd
  <2>. QED
    BY <1>0, <2>2, GotoType DEF TypeInv, TypeOK
<1>8. TypeOK'
  <2>1. send_lock' \in [Conns -> Threads \cup {Free}]
    BY <1>0 DEF TxAdd, TypeInv, TypeOK
  <2>2. UNCHANGED <<life, state, snd_una, snd_wnd, rcvVars, tcb_lock, msg_arr_lock, todo,
                    seg, prog, netVars>>
    BY DEF TxAdd
  <2>. QED
    BY <1>3, <1>4, <1>5, <1>6, <1>7, <2>1, <2>2 DEF TypeInv, TypeOK, rcvVars, netVars
<1>9. SegOK'
  BY <1>0, <1>7 DEF TxAdd, TypeInv, SegOK, ConnOf
<1>. QED
  BY <1>6, <1>8, <1>9 DEF TypeInv

\* read_bytes keeps the types: it takes no more than the buffer holds.
LEMMA ReadBytesType ==
    ASSUME TypeInv, NEW a \in Apps, ReadBytes(a),
           UNCHANGED <<life, state, sndVars, locks, rtxVars, seg, prog, netVars>>
    PROVE  TypeInv'
<1>. DEFINE c == AppConn[a]
            n == Min(tx[a].size, rcv_buff_len[c])
            left == rcv_buff_len[c] - n
<1>0. c \in Conns /\ a \in Threads /\ a \in Senders /\ RX \in Threads /\ a # RX
  BY EnvAssumption, ThreadsDistinct DEF Threads, Senders
<1>1. n \in Nat /\ left \in 0..TCP_RCV_MAX /\ left + n <= TCP_RCV_MAX
  <2>1. tx[a].size \in Nat /\ rcv_buff_len[c] \in 0..TCP_RCV_MAX /\ TCP_RCV_MAX \in Nat
    BY <1>0, SizeAssumption DEF TypeInv, TypeOK, TxCalls
  <2>2. ASSUME NEW max \in Nat, NEW have \in 0..max, NEW take \in Nat, take <= have
        PROVE  have - take \in 0..max /\ have - take + take <= max
    BY <2>2
  <2>3. rcv_buff_len[c] \in Nat
    BY <2>1
  <2>4. n \in Nat /\ n <= rcv_buff_len[c]
    BY <2>1, <2>3, MinBounds, Zenon
  <2>. QED
    BY <2>1, <2>2, <2>4, Zenon
<1>. HIDE DEF n, left
<1>2. rcv_buff_len' \in [Conns -> 0..TCP_RCV_MAX] /\ read' \in [Conns -> Nat]
  <2>1. /\ rcv_buff_len' = [rcv_buff_len EXCEPT ![c] = left]
        /\ read' = [read EXCEPT ![c] = read[c] + n]
    BY <1>0 DEF ReadBytes, left, n, TypeInv, TypeOK
  <2>. QED
    BY <1>0, <1>1, <2>1, SMTT(30) DEF TypeInv, TypeOK
<1>3. rcv_buff' \in [Conns -> [0..TCP_RCV_MAX - 1 -> Int]]
  <2>. DEFINE b == [i \in 0..TCP_RCV_MAX - 1 |->
                      IF i < left THEN rcv_buff[c][i + n] ELSE rcv_buff[c][i]]
  <2>1. rcv_buff[c] \in [0..TCP_RCV_MAX - 1 -> Int] /\ TCP_RCV_MAX \in Nat
    BY <1>0, SizeAssumption, Zenon DEF TypeInv, TypeOK
  <2>2. b \in [0..TCP_RCV_MAX - 1 -> Int]
    <3>. HIDE DEF c
    <3>0. ASSUME NEW max \in Nat, NEW k \in Nat, NEW l \in 0..max, l + k <= max,
                 NEW i \in 0..max - 1, i < l
          PROVE  i + k \in 0..max - 1
      BY <3>0
    <3>1. ASSUME NEW i \in 0..TCP_RCV_MAX - 1, i < left PROVE i + n \in 0..TCP_RCV_MAX - 1
      BY <1>1, <2>1, <3>0, <3>1, Zenon
    <3>2. \A i \in 0..TCP_RCV_MAX - 1 : rcv_buff[c][i] \in Int
      BY <2>1, Zenon
    <3>. QED
      BY <3>1, <3>2, Zenon
  <2>3. rcv_buff' = [rcv_buff EXCEPT ![c] = b]
    BY DEF ReadBytes, left, n
  <2>. QED
    BY <1>0, <2>2, <2>3 DEF TypeInv, TypeOK
<1>4. tx' \in [Senders -> TxCalls] /\ SentOK'
  BY <1>0, NoTxType, 0 \in Nat, Zenon DEF ReadBytes, TypeInv
<1>5. pc' \in [Threads -> Labels] /\ pc'[RX] = pc[RX]
  BY <1>0, GotoType DEF ReadBytes, TypeInv, TypeOK, Labels, AppLabels
<1>6. TypeOK'
  BY <1>2, <1>3, <1>4, <1>5, Zenon
     DEF ReadBytes, TypeInv, TypeOK, sndVars, locks, rtxVars, netVars
<1>. QED
  BY <1>4, <1>5, <1>6 DEF TypeInv, SegOK

\* recv keeps the types, whether or not it had to wait.
LEMMA RecvType == ASSUME TypeInv, NEW a \in Apps, RecvLock(a) \/ RecvWoken(a) PROVE TypeInv'
<1>1. CASE ReadBytes(a)
  BY <1>1, ReadBytesType, Zenon DEF RecvLock, RecvWoken
<1>2. CASE RecvLock(a) /\ Goto(a, "recv_wait") /\ UNCHANGED <<rcvVars, tx>>
  <2>1. "recv_wait" \in Labels
    BY DEF Labels, AppLabels
  <2>2. UNCHANGED <<life, state, sndVars, rcvVars, locks, rtxVars, tx, seg, prog, netVars>>
    BY <1>2, Zenon DEF RecvLock
  <2>3. /\ life' \in [Conns -> {"none", "live", "freed"}] /\ state' \in [Conns -> States]
        /\ tcb_lock' \in [Conns -> Threads \cup {Free}] /\ prog' \in [Apps -> Seq(Calls)]
        /\ tx' \in [Senders -> TxCalls] /\ SentOK'
    BY <2>2 DEF TypeInv, TypeOK, SentOK, locks
  <2>. QED
    BY <1>2, <2>1, <2>2, <2>3, AppStepType, Zenon DEF locks
<1>. QED
  BY <1>1, <1>2, Zenon DEF RecvLock, RecvWoken

-----------------------------------------------------------------------------
(* tcp_rx.                                                                 *)

\* The value of seg while tcp_rx has no segment is well typed.
LEMMA NoSegType == NoSeg \in Segments
BY SizeAssumption DEF NoSeg, Segments

\* stop_retransmit leaves well-typed entries.
LEMMA StopRetransmitType ==
    ASSUME TypeOK, NEW c, NEW una PROVE StopRetransmit(c, una) \subseteq Messages
<1>1. ASSUME NEW m \in messages_array
      PROVE  m \in Messages /\ [m EXCEPT !.dangling = TRUE] \in Messages
  <2>1. m \in Messages
    BY DEF TypeOK
  <2>. QED
    BY <2>1, Zenon DEF Messages
<1>. QED
  BY <1>1, Zenon DEF StopRetransmit

\* Every segment a peer may have sent has the type of one, and its connection.
LEMMA InboundType ==
    ASSUME TypeOK, NEW c \in Conns, NEW s \in Inbound(c)
    PROVE  s \in Segments /\ s.conn = c
<1>1. /\ IRS[c] \in 0..SeqSpace - 1 /\ ISS[c] \in 0..SeqSpace - 1
      /\ PeerLen[c] \in Nat /\ PeerSeg \in Nat /\ Windows \subseteq Nat /\ p_rcv[c] \in Nat
  BY SizeAssumption DEF TypeOK
<1>2. IRS[c] \in Int /\ ISS[c] \in Int /\ 0 \in Nat /\ 1 \in Int /\ 0 \in 0..SeqSpace - 1
  BY <1>1, SizeAssumption
<1>3. Acks(c) \subseteq 0..SeqSpace - 1
  <2>1. 1..p_rcv[c] \subseteq Int
    OBVIOUS
  <2>. QED
    BY <1>2, <2>1, SeqNumbers, Zenon DEF Acks
<1>4. CASE s \in Syns(c)
  <2>1. PICK w \in Windows : s = Segment(c, {"SYN"}, IRS[c], 0, 0, 0, w)
    BY <1>4, Zenon DEF Syns
  <2>2. {"SYN"} \in SUBSET {"SYN", "ACK", "FIN", "PSH", "RST"} /\ w \in Nat
    BY <1>1
  <2>. QED
    BY <1>1, <1>2, <2>1, <2>2 DEF Segment, Segments
<1>5. CASE s \in SynAcks(c)
  <2>1. PICK w \in Windows : s = Segment(c, {"SYN", "ACK"}, IRS[c], Plus(ISS[c], 1), 0, 0, w)
    BY <1>5, Zenon DEF SynAcks
  <2>2. {"SYN", "ACK"} \in SUBSET {"SYN", "ACK", "FIN", "PSH", "RST"} /\ w \in Nat
    BY <1>1
  <2>3. Plus(ISS[c], 1) \in 0..SeqSpace - 1
    BY <1>2, SeqNumbers, Zenon
  <2>. QED
    BY <1>1, <1>2, <2>1, <2>2, <2>3 DEF Segment, Segments
<1>6. CASE s \in Resets(c)
  <2>1. PICK a \in Acks(c) : s = Segment(c, {"RST", "ACK"}, 0, a, 0, 0, 0)
    BY <1>6, Zenon DEF Resets
  <2>2. {"RST", "ACK"} \in SUBSET {"SYN", "ACK", "FIN", "PSH", "RST"} /\ a \in 0..SeqSpace - 1
    BY <1>3
  <2>. QED
    BY <1>2, <2>1, <2>2 DEF Segment, Segments
<1>7. ASSUME NEW p \in 0..PeerLen[c], s \in Texts(c, p) PROVE s \in Segments /\ s.conn = c
  <2>1. PICK l \in 0..PeerSeg : \E f \in TextFlags(c, p, l), a \in Acks(c), w \in Windows :
           s = Segment(c, f, Plus(IRS[c], 1 + p), a, p, l, w)
    <3>. DEFINE K == {k \in 0..PeerSeg : p + k <= PeerLen[c]}
                T(l) == {Segment(c, f, Plus(IRS[c], 1 + p), a, p, l, w) :
                           f \in TextFlags(c, p, l), a \in Acks(c), w \in Windows}
    <3>1. Texts(c, p) = UNION {T(l) : l \in K}
      BY SMTT(30) DEF Texts
    <3>. HIDE DEF T, K
    <3>2. PICK l \in K : s \in T(l)
      BY <1>7, <3>1, Zenon
    <3>3. l \in 0..PeerSeg
      BY DEF K
    <3>4. \E f \in TextFlags(c, p, l), a \in Acks(c), w \in Windows :
            s = Segment(c, f, Plus(IRS[c], 1 + p), a, p, l, w)
      BY <3>2 DEF T
    <3>. QED
      BY <3>3, <3>4, Zenon
  <2>2. PICK f \in TextFlags(c, p, l), a \in Acks(c), w \in Windows :
           s = Segment(c, f, Plus(IRS[c], 1 + p), a, p, l, w)
    BY <2>1, Zenon
  <2>3. f \in SUBSET {"SYN", "ACK", "FIN", "PSH", "RST"}
    BY DEF TextFlags
  <2>4. p \in Nat /\ 1 + p \in Int /\ l \in Nat /\ w \in Nat /\ a \in 0..SeqSpace - 1
    <3>1. ASSUME NEW k \in Nat, NEW j \in 0..k PROVE j \in Nat /\ 1 + j \in Int
      OBVIOUS
    <3>. QED
      BY <1>1, <1>3, <3>1, Zenon
  <2>5. Plus(IRS[c], 1 + p) \in 0..SeqSpace - 1
    BY <1>2, <2>4, SeqNumbers, Zenon
  <2>. QED
    BY <2>2, <2>3, <2>4, <2>5 DEF Segment, Segments
<1>. QED
  BY <1>4, <1>5, <1>6, <1>7, Zenon DEF Inbound

\* The entry of tcp_rx keeps the types.
LEMMA RxSegmentType == ASSUME TypeInv, NEW c \in Conns, RxSegment(c) PROVE TypeInv'
<1>0. RX \in Threads
  BY DEF Threads
<1>1. seg' \in Segments /\ pc' \in [Threads -> Labels] /\ crashed' \in BOOLEAN /\ SegOK'
  <2>1. PICK s \in Inbound(c) :
           IF life[c] = "live" THEN seg' = s /\ Goto(RX, "rx_tcb") /\ UNCHANGED crashed
                               ELSE crashed' = TRUE /\ UNCHANGED <<seg, pc>>
    BY DEF RxSegment
  <2>2. s \in Segments /\ s.conn = c
    BY InboundType DEF TypeInv
  <2>3. CASE seg' = s /\ Goto(RX, "rx_tcb") /\ UNCHANGED crashed
    BY <1>0, <2>2, <2>3, GotoType DEF TypeInv, TypeOK, SegOK, Labels, RxLabels
  <2>4. CASE crashed' = TRUE /\ UNCHANGED <<seg, pc>>
    BY <2>4 DEF TypeInv, TypeOK, SegOK
  <2>. QED
    BY <2>1, <2>3, <2>4, Zenon
<1>2. UNCHANGED <<tcbVars, locks, rtxVars, tx, prog, p_rcv, p_fin, resolved>>
  BY DEF RxSegment
<1>3. TypeOK'
  BY <1>1, <1>2, Zenon DEF TypeInv, TypeOK, tcbVars, sndVars, rcvVars, locks, rtxVars
<1>. QED
  BY <1>1, <1>2, <1>3 DEF TypeInv, SentOK

\* A segment that fails its checksum keeps the types.
LEMMA RxBadSegmentType == ASSUME TypeInv, RxBadSegment PROVE TypeInv'
<1>1. /\ tcb_lock' \in [Conns -> Threads \cup {Free}] /\ send_lock' \in [Conns -> Threads \cup {Free}]
      /\ msg_arr_lock' = msg_arr_lock /\ crashed' \in BOOLEAN
  BY Zenon DEF RxBadSegment, TypeInv, TypeOK, locks
<1>2. UNCHANGED <<tcbVars, rtxVars, thrVars, p_rcv, p_fin, resolved>>
  BY DEF RxBadSegment
<1>3. TypeOK'
  BY <1>1, <1>2 DEF TypeInv, TypeOK, tcbVars, sndVars, rcvVars, rtxVars, thrVars
<1>. QED
  BY <1>2, <1>3, Zenon DEF TypeInv, SentOK, SegOK, thrVars

\* An ARP reply keeps the types.
LEMMA RxArpReplyType == ASSUME TypeInv, NEW h, RxArpReply(h) PROVE TypeInv'
<1>1. resolved' \subseteq LiveHops
  BY DEF RxArpReply, TypeInv, TypeOK
<1>2. UNCHANGED <<tcbVars, locks, rtxVars, thrVars, p_rcv, p_fin, crashed>>
  BY DEF RxArpReply
<1>3. TypeOK'
  BY <1>1, <1>2 DEF TypeInv, TypeOK, tcbVars, sndVars, rcvVars, locks, rtxVars, thrVars
<1>. QED
  BY <1>2, <1>3 DEF TypeInv, SentOK, SegOK, thrVars

\* The steps of tcp_rx on the segment it has.
LEMMA RxStepType ==
    ASSUME TypeInv, pc[RX] # "idle", pc' \in [Threads -> Labels],
           seg' = seg \/ (seg' = NoSeg /\ pc'[RX] = "idle"),
           state' \in [Conns -> States],
           snd_una' \in [Conns -> 0..SeqSpace - 1], snd_nxt' \in [Conns -> 0..SeqSpace - 1],
           snd_wnd' \in [Conns -> Nat], rcv_nxt' \in [Conns -> 0..SeqSpace - 1],
           rcv_buff' \in [Conns -> [0..TCP_RCV_MAX - 1 -> Int]],
           rcv_buff_len' \in [Conns -> 0..TCP_RCV_MAX], fin_rcvd' \in [Conns -> BOOLEAN],
           tcb_lock' \in [Conns -> Threads \cup {Free}],
           send_lock' \in [Conns -> Threads \cup {Free}], messages_array' \subseteq Messages,
           tx' \in [Senders -> TxCalls] /\ SentOK',
           UNCHANGED <<life, queued, read, msg_arr_lock, todo, prog, netVars>>
    PROVE  TypeInv'
<1>1. seg' \in Segments
  BY NoSegType DEF TypeInv, TypeOK
<1>2. TypeOK'
  BY <1>1, Zenon DEF TypeInv, TypeOK, netVars
<1>3. SegOK'
  BY DEF TypeInv, SegOK
<1>. QED
  BY <1>2, <1>3 DEF TypeInv

\* What RxStepType asks of a step that leaves the tcb alone.
LEMMA SameTcbType ==
    ASSUME TypeInv, UNCHANGED tcbVars
    PROVE  /\ state' \in [Conns -> States]
           /\ snd_una' \in [Conns -> 0..SeqSpace - 1] /\ snd_nxt' \in [Conns -> 0..SeqSpace - 1]
           /\ snd_wnd' \in [Conns -> Nat] /\ rcv_nxt' \in [Conns -> 0..SeqSpace - 1]
           /\ rcv_buff' \in [Conns -> [0..TCP_RCV_MAX - 1 -> Int]]
           /\ rcv_buff_len' \in [Conns -> 0..TCP_RCV_MAX] /\ fin_rcvd' \in [Conns -> BOOLEAN]
           /\ UNCHANGED <<life, queued, read>>
BY DEF TypeInv, TypeOK, tcbVars, sndVars, rcvVars

\* What RxStepType asks of a step that calls nothing.
LEMMA SameTxType == ASSUME TypeInv, UNCHANGED tx PROVE tx' \in [Senders -> TxCalls] /\ SentOK'
BY DEF TypeInv, TypeOK, SentOK

\* Only applications wait on condition variables.
LEMMA WaitersType == ASSUME NEW c PROVE TcbWaiters(c) \subseteq Apps /\ SendWaiters(c) \subseteq Apps
BY DEF TcbWaiters, SendWaiters

\* tcp_rx between two changes to the tcb: it takes and releases mutexes,
\* signals, and goes on or returns.
LEMMA RxPassingType ==
    ASSUME TypeInv,
           \/ RxLockTcb \/ RxLockSend \/ RxDrop \/ RxEstablished \/ RxOpened \/ RxOutOfOrder
           \/ RxWake \/ RxNoText \/ RxDone
    PROVE  TypeInv'
<1>. DEFINE c == seg.conn
<1>0. /\ pc[RX] # "idle" /\ c \in Conns /\ RX \in Threads /\ RX \notin Apps /\ c \in Threads /\ c # RX
      /\ {"idle", "rx_send", "rx_state", "rx_done", "rx_text", "rx_fin", "tw_lock"} \subseteq Labels
  BY ThreadsDistinct, Zenon
     DEF TypeInv, SegOK, Threads, Labels, RxLabels, RxLockTcb, RxLockSend, RxDrop, RxEstablished,
         RxOpened, RxOutOfOrder, RxWake, RxNoText, RxDone, RxAt
<1>1. pc' \in [Threads -> Labels] /\ (seg' = seg \/ (seg' = NoSeg /\ pc'[RX] = "idle"))
  <2>1. pc \in [Threads -> Labels]
    BY DEF TypeInv, TypeOK
  <2>2. CASE \E l \in Labels : Goto(RX, l) /\ (seg' = seg \/ (seg' = NoSeg /\ l = "idle"))
    BY <1>0, <2>1, <2>2, GotoType
  <2>3. CASE \E l \in Labels, W \in SUBSET Apps : GotoSignalling(RX, l, W) /\ seg' = seg
    BY <1>0, <2>1, <2>3, SignalType
  <2>4. CASE RxDone
    <3>1. seg' = NoSeg /\ pc' \in {[pc EXCEPT ![RX] = "idle", ![c] = "tw_lock"],
                                   [pc EXCEPT ![RX] = "idle"]}
      BY <2>4, Zenon DEF RxDone
    <3>. QED
      BY <1>0, <2>1, <3>1
  <2>5. CASE RxEstablished \/ RxOpened \/ RxWake
    <3>1. \E l \in Labels, W \in SUBSET Apps : GotoSignalling(RX, l, W) /\ seg' = seg
      <4>1. /\ TcbWaiters(c) \in SUBSET Apps /\ {} \in SUBSET Apps
            /\ (IF WakesReader(c) THEN TcbWaiters(c) ELSE {}) \in SUBSET Apps
        BY WaitersType, Zenon
      <4>. QED
        BY <1>0, <2>5, <4>1, Zenon DEF RxEstablished, RxOpened, RxWake
    <3>. QED
      BY <2>3, <3>1
  <2>6. CASE RxLockTcb \/ RxLockSend \/ RxDrop \/ RxOutOfOrder \/ RxNoText
    <3>1. \E l \in Labels : Goto(RX, l) /\ (seg' = seg \/ (seg' = NoSeg /\ l = "idle"))
      BY <1>0, <2>6, Zenon DEF RxLockTcb, RxLockSend, RxDrop, RxOutOfOrder, RxNoText
    <3>. QED
      BY <2>2, <3>1
  <2>. QED
    BY <2>4, <2>5, <2>6
<1>2. /\ tcb_lock' \in [Conns -> Threads \cup {Free}]
      /\ send_lock' \in [Conns -> Threads \cup {Free}]
  <2>1. /\ tcb_lock' \in {tcb_lock, [tcb_lock EXCEPT ![c] = RX], [tcb_lock EXCEPT ![c] = Free]}
        /\ send_lock' \in {send_lock, [send_lock EXCEPT ![c] = RX], [send_lock EXCEPT ![c] = Free]}
    BY Zenon DEF RxLockTcb, RxLockSend, RxDrop, RxEstablished, RxOpened, RxOutOfOrder, RxWake,
           RxNoText, RxDone, locks
  <2>2. /\ tcb_lock \in [Conns -> Threads \cup {Free}]
        /\ send_lock \in [Conns -> Threads \cup {Free}]
    BY DEF TypeInv, TypeOK
  <2>3. RX \in Threads
    BY <1>0
  <2>. QED
    BY <2>1, <2>2, <2>3
<1>3. UNCHANGED <<tcbVars, msg_arr_lock, rtxVars, tx, prog, netVars>>
  BY Zenon DEF RxLockTcb, RxLockSend, RxDrop, RxEstablished, RxOpened, RxOutOfOrder, RxWake,
         RxNoText, RxDone, locks
<1>4. messages_array' \subseteq Messages /\ UNCHANGED todo
  BY <1>3 DEF TypeInv, TypeOK, rtxVars
<1>. QED
  BY <1>0, <1>1, <1>2, <1>3, <1>4, SameTcbType, SameTxType, RxStepType, Zenon

\* tcp_rx in SYN_SENT keeps the types.
LEMMA RxSynSentType == ASSUME TypeInv, RxSynSent PROVE TypeInv'
<1>. DEFINE c == seg.conn
            una == IF AcceptableAck(c) THEN seg.ack ELSE snd_una[c]
<1>0. /\ pc[RX] # "idle" /\ c \in Conns /\ RX \in Threads /\ RX \in Senders
      /\ {"tx", "rx_established", "rx_done"} \subseteq Labels
  BY Zenon DEF RxSynSent, RxAt, TypeInv, SegOK, Threads, Senders, Labels, RxLabels
<1>1. /\ seg.seq \in 0..SeqSpace - 1 /\ seg.ack \in 0..SeqSpace - 1 /\ seg.win \in Nat
      /\ una \in 0..SeqSpace - 1 /\ ISS[c] \in 0..SeqSpace - 1 /\ SeqSpace \in Nat \ {0}
  BY <1>0, SizeAssumption, Zenon DEF TypeInv, TypeOK, Segments
<1>. HIDE DEF una
<1>2. /\ pc' \in [Threads -> Labels]
  BY <1>0, GotoType, Zenon DEF RxSynSent, TypeInv, TypeOK
<1>3. snd_una' \in [Conns -> 0..SeqSpace - 1] /\ snd_wnd' \in [Conns -> Nat]
  BY <1>0, <1>1, Zenon DEF RxSynSent, una, TypeInv, TypeOK
<1>4. snd_nxt' \in [Conns -> 0..SeqSpace - 1]
  BY <1>0, <1>1, Zenon DEF RxSynSent, TypeInv, TypeOK
<1>5. state' \in [Conns -> States]
  <2>1. state' \in {[state EXCEPT ![c] = "ESTABLISHED"], [state EXCEPT ![c] = "SYN_RECEIVED"]}
    BY Zenon DEF RxSynSent
  <2>. QED
    BY <1>0, <2>1, Zenon DEF TypeInv, TypeOK, States
<1>6. rcv_nxt' \in [Conns -> 0..SeqSpace - 1]
  <2>1. Plus(seg.seq, 1) \in 0..SeqSpace - 1
    BY <1>1 DEF Plus
  <2>. QED
    BY <1>0, <2>1, Zenon DEF RxSynSent, TypeInv, TypeOK
<1>7. tx' \in [Senders -> TxCalls] /\ SentOK'
  <2>1. RETRIES_SENDONCE \in Int /\ RETRIES_CONN_MAX \in Int /\ 0 \in Nat
    BY SizeAssumption DEF RETRIES_SENDONCE
  <2>2. \/ CallTx(RX, "ACK", 0, RETRIES_SENDONCE, "rx_established")
        \/ CallTx(RX, "SYNACK", 0, RETRIES_CONN_MAX, "rx_done")
    BY Zenon DEF RxSynSent
  <2>. QED
    BY <1>0, <2>1, <2>2, CallTxType DEF TypeInv
<1>8. messages_array' \subseteq Messages
  BY StopRetransmitType, Zenon DEF RxSynSent, TypeInv
<1>9. send_lock' \in [Conns -> Threads \cup {Free}]
  BY <1>0, Zenon DEF RxSynSent, TypeInv, TypeOK
<1>10. UNCHANGED <<life, queued, rcv_buff, rcv_buff_len, read, fin_rcvd, tcb_lock,
                   msg_arr_lock, todo, seg, prog, netVars>>
  BY Zenon DEF RxSynSent
<1>11. /\ rcv_buff' \in [Conns -> [0..TCP_RCV_MAX - 1 -> Int]]
       /\ rcv_buff_len' \in [Conns -> 0..TCP_RCV_MAX] /\ fin_rcvd' \in [Conns -> BOOLEAN]
       /\ tcb_lock' \in [Conns -> Threads \cup {Free}]
  BY <1>10 DEF TypeInv, TypeOK
<1>. QED
  BY <1>0, <1>2, <1>3, <1>4, <1>5, <1>6, <1>7, <1>8, <1>9, <1>10, <1>11, RxStepType

\* The three states in which tcp_rx goes on to the segment text.
LEMMA RxAckType ==
    ASSUME TypeInv, RxSynReceived \/ RxAckEstablished \/ RxAckFinWait1
    PROVE  TypeInv'
<1>. DEFINE c == seg.conn
<1>0. /\ pc[RX] # "idle" /\ c \in Conns /\ RX \in Threads /\ RX \in Senders /\ RX \notin Apps
      /\ {"tx", "rx_opened", "rx_text"} \subseteq Labels /\ pc \in [Threads -> Labels]
      /\ seg.ack \in 0..SeqSpace - 1 /\ seg.win \in Nat
  BY ThreadsDistinct, Zenon
     DEF RxSynReceived, RxAckEstablished, RxAckFinWait1, RxAt, TypeInv, TypeOK, SegOK, Threads,
         Senders, Labels, RxLabels, Segments
<1>1. pc' \in [Threads -> Labels]
  <2>1. CASE RxAckEstablished
    <3>1. GotoSignalling(RX, "rx_text", SendWaiters(c))
      BY <2>1, Zenon DEF RxAckEstablished, WakesSenders
    <3>. QED
      BY <1>0, <3>1, SignalType, WaitersType
  <2>2. CASE RxSynReceived \/ RxAckFinWait1
    BY <1>0, <2>2, GotoType, Zenon DEF RxSynReceived, RxAckFinWait1
  <2>. QED
    BY <2>1, <2>2
<1>2. state' \in [Conns -> States]
  <2>1. state' \in {state, [state EXCEPT ![c] = "ESTABLISHED"], [state EXCEPT ![c] = "FIN_WAIT_2"]}
    BY DEF RxSynReceived, RxAckEstablished, RxAckFinWait1
  <2>. QED
    BY <1>0, <2>1, Zenon DEF TypeInv, TypeOK, States
<1>3. snd_una' \in [Conns -> 0..SeqSpace - 1] /\ snd_wnd' \in [Conns -> Nat]
  <2>1. /\ snd_una' \in {snd_una, [snd_una EXCEPT ![c] = seg.ack]}
        /\ snd_wnd' \in {snd_wnd, [snd_wnd EXCEPT ![c] = seg.win]}
    BY DEF RxSynReceived, RxAckEstablished, RxAckFinWait1, sndVars
  <2>. QED
    BY <1>0, <2>1, Zenon DEF TypeInv, TypeOK
<1>4. tx' \in [Senders -> TxCalls] /\ SentOK'
  <2>1. RETRIES_SENDONCE \in Int /\ 0 \in Nat
    BY DEF RETRIES_SENDONCE
  <2>2. UNCHANGED tx \/ CallTx(RX, "ACK", 0, RETRIES_SENDONCE, "rx_opened")
    BY DEF RxSynReceived, RxAckEstablished, RxAckFinWait1
  <2>. QED
    BY <1>0, <2>1, <2>2, CallTxType, SameTxType DEF TypeInv
<1>5. messages_array' \subseteq Messages
  <2>1. messages_array' \in {messages_array, StopRetransmit(c, seg.ack), StopRetransmit(c, snd_una[c])}
    BY DEF RxSynReceived, RxAckEstablished, RxAckFinWait1, rtxVars
  <2>2. /\ StopRetransmit(c, seg.ack) \subseteq Messages
        /\ StopRetransmit(c, snd_una[c]) \subseteq Messages
    BY StopRetransmitType, Zenon DEF TypeInv
  <2>. QED
    BY <2>1, <2>2, Zenon DEF TypeInv, TypeOK
<1>6. send_lock' \in [Conns -> Threads \cup {Free}]
  BY <1>0, Zenon DEF RxSynReceived, RxAckEstablished, RxAckFinWait1, TypeInv, TypeOK
<1>7. UNCHANGED <<life, snd_nxt, queued, rcvVars, tcb_lock, msg_arr_lock, todo, seg, prog, netVars>>
  BY DEF RxSynReceived, RxAckEstablished, RxAckFinWait1, sndVars, rtxVars
<1>8. /\ rcv_buff' \in [Conns -> [0..TCP_RCV_MAX - 1 -> Int]] /\ rcv_nxt' \in [Conns -> 0..SeqSpace - 1]
      /\ rcv_buff_len' \in [Conns -> 0..TCP_RCV_MAX] /\ fin_rcvd' \in [Conns -> BOOLEAN]
      /\ tcb_lock' \in [Conns -> Threads \cup {Free}] /\ snd_nxt' \in [Conns -> 0..SeqSpace - 1]
  BY <1>7 DEF TypeInv, TypeOK, rcvVars
<1>. QED
  BY <1>0, <1>1, <1>2, <1>3, <1>4, <1>5, <1>6, <1>7, <1>8, RxStepType DEF rcvVars

\* save_data_and_ack keeps the types: what it stores fits the buffer.
LEMMA RxTextType == ASSUME TypeInv, RxText PROVE TypeInv'
<1>. DEFINE c == seg.conn
            n == Stored(c)
            len == rcv_buff_len[c]
<1>0. /\ pc[RX] # "idle" /\ c \in Conns /\ RX \in Threads /\ RX \in Senders
      /\ {"tx", "rx_wake"} \subseteq Labels
  BY Zenon DEF RxText, RxAt, TypeInv, SegOK, Threads, Senders, Labels, RxLabels
<1>1. /\ len \in 0..TCP_RCV_MAX /\ TCP_RCV_MAX \in Nat /\ seg.len \in Nat /\ seg.pos \in Nat
      /\ rcv_buff[c] \in [0..TCP_RCV_MAX - 1 -> Int] /\ rcv_nxt[c] \in 0..SeqSpace - 1
      /\ SeqSpace \in Nat \ {0}
  BY <1>0, SizeAssumption DEF TypeInv, TypeOK, Segments
<1>2. n \in Nat /\ len + n \in 0..TCP_RCV_MAX
  BY <1>1 DEF Stored, Min
<1>. HIDE DEF n
<1>3. rcv_buff' \in [Conns -> [0..TCP_RCV_MAX - 1 -> Int]]
  <2>. DEFINE b == [i \in 0..TCP_RCV_MAX - 1 |->
                      IF i \in len..len + n - 1 THEN seg.pos + (i - len) ELSE rcv_buff[c][i]]
  <2>1. b \in [0..TCP_RCV_MAX - 1 -> Int]
    <3>. HIDE DEF c, len
    <3>1. ASSUME NEW i \in 0..TCP_RCV_MAX - 1, NEW p \in Nat, NEW k \in 0..TCP_RCV_MAX
          PROVE  p + (i - k) \in Int
      OBVIOUS
    <3>2. \A i \in 0..TCP_RCV_MAX - 1 : rcv_buff[c][i] \in Int /\ seg.pos + (i - len) \in Int
      BY <1>1, <3>1, Zenon
    <3>. QED
      BY <3>2, Zenon
  <2>2. rcv_buff' = [rcv_buff EXCEPT ![c] = b]
    BY DEF RxText, n
  <2>. QED
    BY <1>0, <2>1, <2>2 DEF TypeInv, TypeOK
<1>4. rcv_nxt' \in [Conns -> 0..SeqSpace - 1]
  <2>1. Plus(rcv_nxt[c], n) \in 0..SeqSpace - 1
    <3>. HIDE DEF c, len
    <3>1. rcv_nxt[c] \in Int
      BY <1>1, SeqIsNat, Zenon
    <3>2. n \in Int
      BY <1>2
    <3>. QED
      BY <3>1, <3>2, SeqNumbers, Zenon
  <2>2. rcv_nxt' = [rcv_nxt EXCEPT ![c] = Plus(rcv_nxt[c], n)]
    BY DEF RxText, NextExpected, n
  <2>. QED
    BY <1>0, <2>1, <2>2 DEF TypeInv, TypeOK
<1>5. rcv_buff_len' \in [Conns -> 0..TCP_RCV_MAX]
  <2>1. rcv_buff_len' = [rcv_buff_len EXCEPT ![c] = len + n]
    BY <1>0 DEF RxText, n, TypeInv, TypeOK
  <2>. QED
    BY <1>0, <1>2, <2>1 DEF TypeInv, TypeOK
<1>6. tx' \in [Senders -> TxCalls] /\ SentOK'
  <2>1. RETRIES_SENDONCE \in Int /\ 0 \in Nat
    BY DEF RETRIES_SENDONCE
  <2>2. UNCHANGED tx \/ CallTx(RX, "ACK", 0, RETRIES_SENDONCE, "rx_wake")
    BY DEF RxText
  <2>. QED
    BY <1>0, <2>1, <2>2, CallTxType, SameTxType DEF TypeInv
<1>7. pc' \in [Threads -> Labels]
  <2>1. Goto(RX, "tx") \/ Goto(RX, "rx_wake")
    BY DEF RxText
  <2>. QED
    BY <1>0, <2>1, GotoType DEF TypeInv, TypeOK
<1>8. UNCHANGED <<life, state, sndVars, read, fin_rcvd, locks, rtxVars, seg, prog, netVars>>
  BY DEF RxText
<1>9. /\ state' \in [Conns -> States] /\ snd_una' \in [Conns -> 0..SeqSpace - 1]
      /\ snd_nxt' \in [Conns -> 0..SeqSpace - 1] /\ snd_wnd' \in [Conns -> Nat]
      /\ fin_rcvd' \in [Conns -> BOOLEAN] /\ tcb_lock' \in [Conns -> Threads \cup {Free}]
      /\ send_lock' \in [Conns -> Threads \cup {Free}] /\ messages_array' \subseteq Messages
  BY <1>8 DEF TypeInv, TypeOK, sndVars, locks, rtxVars
<1>. QED
  BY <1>0, <1>3, <1>4, <1>5, <1>6, <1>7, <1>8, <1>9, RxStepType DEF sndVars, locks, rtxVars

\* tcp_rx on a FIN keeps the types.
LEMMA RxFinType == ASSUME TypeInv, RxFin PROVE TypeInv'
<1>. DEFINE c == seg.conn
<1>0. /\ pc[RX] # "idle" /\ c \in Conns /\ RX \in Threads /\ RX \in Senders
      /\ {"tx", "idle", "rx_time_wait"} \subseteq Labels
  BY Zenon DEF RxFin, RxAt, TypeInv, SegOK, Threads, Senders, Labels, RxLabels
<1>1. rcv_nxt' \in [Conns -> 0..SeqSpace - 1]
  <2>1. rcv_nxt[c] \in 0..SeqSpace - 1 /\ SeqSpace \in Nat \ {0}
    BY <1>0, SizeAssumption DEF TypeInv, TypeOK
  <2>2. Plus(rcv_nxt[c], 1) \in 0..SeqSpace - 1
    <3>1. 1 \in Int
      OBVIOUS
    <3>. QED
      BY <2>1, <3>1, SeqIsNat, SeqNumbers, Zenon
  <2>3. rcv_nxt' = [rcv_nxt EXCEPT ![c] = Plus(rcv_nxt[c], 1)]
    BY <1>0, Zenon DEF RxFin, TypeInv, TypeOK
  <2>. QED
    BY <1>0, <2>2, <2>3 DEF TypeInv, TypeOK
<1>2. fin_rcvd' \in [Conns -> BOOLEAN]
  BY Zenon DEF RxFin, TypeInv, TypeOK
<1>3. state' \in [Conns -> States]
  <2>1. state' \in {state, [state EXCEPT ![c] = "TIME_WAIT"]}
    BY Zenon DEF RxFin
  <2>. QED
    BY <2>1, Zenon DEF TypeInv, TypeOK, States
<1>4. tx' \in [Senders -> TxCalls] /\ SentOK'
  <2>1. RETRIES_SENDONCE \in Int /\ 0 \in Nat
    BY DEF RETRIES_SENDONCE
  <2>2. UNCHANGED tx \/ CallTx(RX, "ACK", 0, RETRIES_SENDONCE, "rx_time_wait")
    BY Zenon DEF RxFin
  <2>. QED
    BY <1>0, <2>1, <2>2, CallTxType, SameTxType DEF TypeInv
<1>5. pc' \in [Threads -> Labels] /\ (seg' = seg \/ (seg' = NoSeg /\ pc'[RX] = "idle"))
  <2>1. (Goto(RX, "tx") /\ seg' = seg) \/ (Goto(RX, "idle") /\ seg' = NoSeg)
    BY Zenon DEF RxFin
  <2>. QED
    BY <1>0, <2>1, GotoType DEF TypeInv, TypeOK
<1>6. UNCHANGED <<life, sndVars, rcv_buff, rcv_buff_len, read, locks, rtxVars, prog, netVars>>
  BY Zenon DEF RxFin
<1>7. /\ snd_una' \in [Conns -> 0..SeqSpace - 1] /\ snd_nxt' \in [Conns -> 0..SeqSpace - 1]
      /\ snd_wnd' \in [Conns -> Nat] /\ rcv_buff' \in [Conns -> [0..TCP_RCV_MAX - 1 -> Int]]
      /\ rcv_buff_len' \in [Conns -> 0..TCP_RCV_MAX] /\ messages_array' \subseteq Messages
      /\ tcb_lock' \in [Conns -> Threads \cup {Free}] /\ send_lock' \in [Conns -> Threads \cup {Free}]
  BY <1>6 DEF TypeInv, TypeOK, sndVars, locks, rtxVars
<1>. QED
  BY <1>0, <1>1, <1>2, <1>3, <1>4, <1>5, <1>6, <1>7, RxStepType DEF sndVars, locks, rtxVars

-----------------------------------------------------------------------------
(* close_connection and tcp_retransmit_handler.                            *)

\* close_connection keeps the types.
LEMMA TimeWaitType == ASSUME TypeInv, NEW c \in Conns, TimeWait(c) PROVE TypeInv'
<1>0. /\ c \in Threads /\ RX \in Threads /\ c # RX /\ c \notin Apps /\ RX \notin Apps
      /\ {"idle", "tw_stop"} \subseteq Labels /\ pc \in [Threads -> Labels]
  BY ThreadsDistinct DEF Threads, Labels, RxLabels, TypeInv, TypeOK
<1>1. pc' \in [Threads -> Labels] /\ pc'[RX] = pc[RX]
  <2>1. CASE CloseConnectionLock(c)
    BY <1>0, <2>1, GotoType DEF CloseConnectionLock
  <2>2. CASE CloseConnection(c)
    BY <1>0, <2>2, SignalType, WaitersType, SMTT(30) DEF CloseConnection
  <2>. QED
    BY <2>1, <2>2 DEF TimeWait
<1>2. /\ tcb_lock' \in [Conns -> Threads \cup {Free}] /\ state' \in [Conns -> States]
      /\ messages_array' \subseteq Messages
  <2>1. /\ tcb_lock' \in {[tcb_lock EXCEPT ![c] = c], [tcb_lock EXCEPT ![c] = Free]}
        /\ state' \in {state, [state EXCEPT ![c] = "CLOSED"]}
        /\ messages_array' \in {messages_array, StopRetransmit(c, snd_una[c])}
    BY Zenon DEF TimeWait, CloseConnectionLock, CloseConnection, tcbVars, rtxVars
  <2>2. "CLOSED" \in States
    BY DEF States
  <2>3. messages_array' \subseteq Messages
    <3>1. StopRetransmit(c, snd_una[c]) \subseteq Messages
      BY StopRetransmitType DEF TypeInv
    <3>. QED
      BY <2>1, <3>1 DEF TypeInv, TypeOK
  <2>4. state' \in [Conns -> States]
    BY <2>1, <2>2, Zenon DEF TypeInv, TypeOK
  <2>5. tcb_lock' \in [Conns -> Threads \cup {Free}]
    BY <1>0, <2>1, Zenon DEF TypeInv, TypeOK
  <2>. QED
    BY <2>3, <2>4, <2>5
<1>3. UNCHANGED <<life, sndVars, rcvVars, send_lock, msg_arr_lock, todo, tx, seg, prog, netVars>>
  BY Zenon DEF TimeWait, CloseConnectionLock, CloseConnection, tcbVars, rtxVars
<1>4. TypeOK'
  BY <1>1, <1>2, <1>3, Zenon DEF TypeInv, TypeOK, sndVars, rcvVars, netVars
<1>. QED
  BY <1>1, <1>3, <1>4, Zenon DEF TypeInv, SentOK, SegOK

\* A transmission by tcp_retransmit_handler keeps the types.
LEMMA RtxSendType == ASSUME TypeInv, NEW m \in messages_array, RtxSend(m) PROVE TypeInv'
<1>0. /\ RTX \in Threads /\ RX \in Threads /\ RX # RTX
      /\ {"rtx_scan", "rtx_give_up"} \subseteq Labels
  BY ThreadsDistinct DEF Threads, Labels, RtxLabels
<1>1. m \in Messages /\ m.conn \in Conns /\ m.retries \in Int
  BY DEF TypeInv, TypeOK, Messages
<1>2. pc' \in [Threads -> Labels] /\ pc'[RX] = pc[RX]
  <2>1. Goto(RTX, "rtx_scan") \/ Goto(RTX, "rtx_give_up")
    BY DEF RtxSend
  <2>. QED
    BY <1>0, <2>1, GotoType DEF TypeInv, TypeOK
<1>3. messages_array' \subseteq Messages /\ todo' \subseteq Messages
  <2>1. [m EXCEPT !.retries = @ - 1] \in Messages
    BY <1>1 DEF Messages
  <2>2. \/ messages_array' = messages_array \/ messages_array' = messages_array \ {m}
        \/ messages_array' = (messages_array \ {m}) \cup {[m EXCEPT !.retries = @ - 1]}
    BY DEF RtxSend
  <2>3. todo' = todo \ {m}
    BY DEF RtxSend
  <2>. QED
    BY <2>1, <2>2, <2>3, Zenon DEF TypeInv, TypeOK
<1>4. Reach(m) \subseteq Nat
  <2>1. ISS[m.conn] \in 0..SeqSpace - 1 /\ m.seq \in 0..SeqSpace - 1 /\ SeqSpace \in Nat \ {0}
    BY <1>1, SizeAssumption DEF Messages
  <2>2. Minus(m.seq, ISS[m.conn]) \in Nat
    BY <2>1 DEF Minus
  <2>3. p_rcv[m.conn] \in Nat /\ m.len \in Nat /\ Ctl(m.flags) \in Nat
    BY <1>1 DEF Messages, TypeInv, TypeOK, Ctl
  <2>. DEFINE end == Minus(m.seq, ISS[m.conn]) + m.len + Ctl(m.flags)
  <2>4. end \in Nat /\ p_rcv[m.conn] + 1..end \subseteq Nat
    <3>1. ASSUME NEW x \in Nat, NEW y \in Nat, NEW z \in Nat
          PROVE  x + y + z \in Nat
      OBVIOUS
    <3>2. ASSUME NEW x \in Nat, NEW y \in Nat PROVE x + 1..y \subseteq Nat
      OBVIOUS
    <3>3. end \in Nat
      BY <2>2, <2>3, <3>1, Zenon
    <3>. QED
      BY <2>3, <3>2, <3>3, Zenon
  <2>. QED
    BY <2>3, <2>4, Zenon DEF Reach
<1>5. p_rcv' \in [Conns -> Nat] /\ p_fin' \in [Conns -> BOOLEAN]
  <2>1. PICK r \in Reach(m) :
          /\ p_rcv' = [p_rcv EXCEPT ![m.conn] = r]
          /\ p_fin' = [p_fin EXCEPT ![m.conn] = @ \/ (m.flags = "FINACK" /\ r > p_rcv[m.conn])]
    BY Zenon DEF RtxSend
  <2>. QED
    BY <1>1, <1>4, <2>1 DEF TypeInv, TypeOK
<1>6. crashed' \in BOOLEAN
  BY Zenon DEF RtxSend
<1>7. UNCHANGED <<tcbVars, locks, tx, seg, prog, resolved>>
  BY DEF RtxSend
<1>8. TypeOK'
  BY <1>2, <1>3, <1>5, <1>6, <1>7, Zenon DEF TypeInv, TypeOK, tcbVars, sndVars, rcvVars, locks
<1>. QED
  BY <1>2, <1>7, <1>8, Zenon DEF TypeInv, SentOK, SegOK

\* The other steps of tcp_retransmit_handler keep the types.
LEMMA RtxPassType ==
    ASSUME TypeInv, RtxLock \/ RtxDone \/ \E m \in messages_array : RtxGiveUp(m)
    PROVE  TypeInv'
<1>0. /\ RTX \in Threads /\ RX \in Threads /\ RX # RTX /\ RTX \notin Apps /\ RX \notin Apps
      /\ {"idle", "rtx_scan", "rtx_give_up"} \subseteq Labels /\ pc \in [Threads -> Labels]
  BY ThreadsDistinct DEF Threads, Labels, RtxLabels, TypeInv, TypeOK
<1>1. pc' \in [Threads -> Labels] /\ pc'[RX] = pc[RX]
  <2>1. CASE Goto(RTX, "rtx_scan") \/ Goto(RTX, "idle")
    BY <1>0, <2>1, GotoType
  <2>2. CASE \E m \in messages_array : GotoSignalling(RTX, "rtx_scan", TcbWaiters(m.conn))
    BY <1>0, <2>2, SignalType, WaitersType
  <2>. QED
    BY <2>1, <2>2, Zenon DEF RtxLock, RtxDone, RtxGiveUp
<1>2. messages_array' \subseteq Messages /\ todo' \subseteq Messages /\ msg_arr_lock' \in {RTX, Free}
  BY DEF RtxLock, RtxDone, RtxGiveUp, TypeInv, TypeOK, rtxVars, locks
<1>3. UNCHANGED <<tcbVars, tcb_lock, send_lock, tx, seg, prog, netVars>>
  BY Zenon DEF RtxLock, RtxDone, RtxGiveUp, rtxVars, locks
<1>4. TypeOK'
  BY <1>1, <1>2, <1>3 DEF TypeInv, TypeOK, tcbVars, sndVars, rcvVars, netVars
<1>. QED
  BY <1>1, <1>3, <1>4, Zenon DEF TypeInv, SentOK, SegOK

-----------------------------------------------------------------------------
\* The initial state is well typed.
LEMMA InitType == ASSUME Init PROVE TypeInv
<1>1. /\ life \in [Conns -> {"none", "live", "freed"}] /\ state \in [Conns -> States]
      /\ tcb_lock \in [Conns -> Threads \cup {Free}] /\ send_lock \in [Conns -> Threads \cup {Free}]
  BY Zenon DEF Init, States
<1>2. /\ snd_una \in [Conns -> 0..SeqSpace - 1] /\ snd_nxt \in [Conns -> 0..SeqSpace - 1]
      /\ rcv_nxt \in [Conns -> 0..SeqSpace - 1] /\ snd_wnd \in [Conns -> Nat]
      /\ rcv_buff_len \in [Conns -> 0..TCP_RCV_MAX]
  <2>1. 0 \in 0..SeqSpace - 1 /\ 0 \in Nat /\ 0 \in 0..TCP_RCV_MAX
    BY SizeAssumption
  <2>. QED
    BY <2>1, SizeAssumption, Zenon DEF Init
<1>3. rcv_buff \in [Conns -> [0..TCP_RCV_MAX - 1 -> Int]]
  <2>1. -1 \in Int
    OBVIOUS
  <2>. QED
    BY <2>1, Zenon DEF Init
<1>4. messages_array \subseteq Messages /\ todo \subseteq Messages /\ msg_arr_lock \in {RTX, Free}
  BY DEF Init
<1>5. pc \in [Threads -> Labels] /\ pc[RX] = "idle"
  BY DEF Init, Labels, AppLabels, Threads
<1>6. tx \in [Senders -> TxCalls] /\ SentOK
  <2>1. NoTx \in TxCalls /\ NoTx.sent <= NoTx.size
    BY DEF NoTx, TxCalls, Labels, AppLabels
  <2>2. tx = [t \in Senders |-> NoTx]
    BY DEF Init
  <2>. QED
    BY <2>1, <2>2, Zenon DEF SentOK
<1>7. seg \in Segments /\ prog \in [Apps -> Seq(Calls)]
  BY NoSegType, EnvAssumption DEF Init
<1>8. /\ p_rcv \in [Conns -> Nat] /\ p_fin \in [Conns -> BOOLEAN] /\ queued \in [Conns -> Nat]
      /\ read \in [Conns -> Nat] /\ fin_rcvd \in [Conns -> BOOLEAN]
      /\ resolved \subseteq LiveHops /\ crashed \in BOOLEAN
  BY Zenon DEF Init
<1>9. TypeOK
  BY <1>1, <1>2, <1>3, <1>4, <1>5, <1>6, <1>7, <1>8 DEF TypeOK
<1>. QED
  BY <1>5, <1>6, <1>9 DEF TypeInv, SegOK

\* Every step keeps the types.
LEMMA NextType == ASSUME TypeInv, [Next]_vars PROVE TypeInv'
<1>1. CASE \E a \in Apps : App(a) \/ SpuriousWakeup(a)
  <2>1. PICK a \in Apps : App(a) \/ SpuriousWakeup(a)
    BY <1>1
  <2>2. a \in Senders
    BY DEF Senders
  <2>. QED
    BY <2>1, <2>2, ConnectType, CallsType, BlockingCallsType, TxLockType, TxAddType, RecvType
       DEF App, Tx
<1>2. CASE Arrival
  BY <1>2, RxBadSegmentType, RxSegmentType DEF Arrival
<1>3. CASE RxStep
  <2>1. RX \in Senders
    BY DEF Senders
  <2>. QED
    BY <1>3, <2>1, RxPassingType, RxSynSentType, RxAckType, RxTextType, RxFinType, TxLockType,
       TxAddType DEF RxStep, Tx
<1>4. CASE \E c \in Conns : RxArpReply(Hop[c]) \/ TimeWait(c)
  BY <1>4, RxArpReplyType, TimeWaitType
<1>5. CASE Rtx
  BY <1>5, RtxSendType, RtxPassType DEF Rtx
<1>6. CASE UNCHANGED vars
  BY <1>6, Zenon DEF vars, tcbVars, sndVars, rcvVars, locks, rtxVars, thrVars, netVars, TypeInv,
              TypeOK, SentOK, SegOK
<1>. QED
  BY <1>1, <1>2, <1>3, <1>4, <1>5, <1>6 DEF Next

\* Every variable has its type in every reachable state of tcp.c and of the
\* socket calls, whatever the buffer sizes, programs, peers and threads.
THEOREM TypeInvariant == Spec => []TypeInv
<1>1. Init => TypeInv
  BY InitType
<1>2. TypeInv /\ [Next]_vars => TypeInv'
  BY NextType
<1>. QED
  BY <1>1, <1>2, PTL DEF Spec

\* Every variable of tcp.c and of the socket calls keeps its type; in
\* particular rcv_buff_len never exceeds TCP_RCV_MAX.
THEOREM TypeCorrect == Spec => []TypeOK
BY TypeInvariant, PTL DEF TypeInv
=============================================================================
