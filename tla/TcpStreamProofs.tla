--------------------------- MODULE TcpStreamProofs ---------------------------
(***************************************************************************)
(* What recv returns is never corrupted, and what is acknowledged has been *)
(* stored: RcvStream and AckedIsStored, for every value of the constants,  *)
(* each by an inductive invariant.                                         *)
(*                                                                         *)
(* The argument.  tcp_rx appends to the receive buffer only under          *)
(* tcb_lock, in ESTABLISHED or FIN_WAIT_2, before it has counted a FIN     *)
(* (TextInv); there rcv_nxt is the edge of the stream, so that a segment   *)
(* in order (SegInv) starts at that edge.  Three things could break this:  *)
(* another thread that changes the state under tcp_rx (ControlInv),        *)
(* a connection that starts with bytes already taken (FreshInv), and text  *)
(* after a FIN has moved rcv_nxt (FinInv: tcp_rx leaves the connection in  *)
(* TIME_WAIT, or returns without ever releasing tcb_lock).  That a         *)
(* segment acknowledges no more than is stored then follows from where     *)
(* tcp_tx is called (AckInv, in the last section).                         *)
(***************************************************************************)
EXTENDS TcpLockProofs

\* The segment tcp_rx works on is one its peer may have sent.
SegInv ==
    pc[RX] # "idle" =>
        /\ "SYN" \in seg.flags => seg.seq = IRS[seg.conn]
        /\ seg.len > 0 => /\ seg.seq = Plus(IRS[seg.conn], 1 + seg.pos)
                          /\ seg.pos + seg.len <= PeerLen[seg.conn]

\* Until the SYN exchange nothing has been received.
Opening(c) ==
    life[c] = "none" \/ state[c] = "SYN_SENT" \/ \E a \in Apps : AppConn[a] = c /\ Connecting(a)
FreshInv == \A c \in Conns : Opening(c) => Taken(c) = 0 /\ ~fin_rcvd[c]

\* A FIN that has been counted ends the processing of segments.
Abandoned(c) == tcb_lock[c] = RX /\ ~(RxBusy /\ seg.conn = c)
FinInv ==
    \A c \in Conns : fin_rcvd[c] => state[c] \in {"TIME_WAIT", "CLOSED"} \/ Abandoned(c)

\* Where tcp_rx processes the text of a segment.
RxInText ==
    LET text == {"rx_opened", "rx_text", "rx_wake", "rx_fin"}
    IN  pc[RX] \in text \/ (InTx(RX) /\ tx[RX].ret \in text)
TextInv ==
    RxInText => state[seg.conn] \in {"ESTABLISHED", "FIN_WAIT_2"} /\ ~fin_rcvd[seg.conn]

\* The conjuncts of RcvStream.
Bytes(c) ==
    Taken(c) <= PeerLen[c] /\ \A i \in 0..rcv_buff_len[c] - 1 : rcv_buff[c][i] = read[c] + i
Edge(c) == state[c] \notin {"CLOSED", "SYN_SENT"} => rcv_nxt[c] = RcvEdge(c)

Received == SegInv /\ FreshInv /\ FinInv /\ TextInv /\ RcvStream
StreamInv == ControlInv /\ Received

-----------------------------------------------------------------------------
(* Arithmetic modulo SeqSpace.                                             *)

\* A number is a multiple of the sequence space and its remainder.
LEMMA Remainder ==
    ASSUME NEW N \in Nat \ {0}, NEW x \in Int
    PROVE  x % N \in 0..N - 1 /\ \E q \in Int : x = N * q + (x % N)
<1>1. x \div N \in Int /\ x = N * (x \div N) + (x % N) /\ x % N \in 0..N - 1
  OBVIOUS
<1>. QED
  BY <1>1, Zenon

\* Two remainders with quotients for the same number are equal.
LEMMA RemainderUnique ==
    ASSUME NEW N \in Nat \ {0}, NEW q \in Int, NEW p \in Int,
           NEW r \in 0..N - 1, NEW s \in 0..N - 1, N * q + r = N * p + s
    PROVE  r = s
OBVIOUS

\* Sequence numbers may be added in one go or one after the other.
LEMMA PlusPlus ==
    ASSUME NEW x \in Int, NEW a \in Int, NEW b \in Int
    PROVE  Plus(Plus(x, a), b) = Plus(x, a + b)
<1>. DEFINE N == SeqSpace
            y == x + a
            z == x + (a + b)
            r == y % N
            s == (r + b) % N
            u == z % N
<1>0. N \in Nat \ {0}
  BY SizeAssumption
<1>. HIDE DEF N
<1>1. y \in Int /\ z \in Int /\ z = y + b
  OBVIOUS
<1>. HIDE DEF y, z
<1>2. r \in 0..N - 1 /\ \E q \in Int : y = N * q + r
  BY <1>0, <1>1, Remainder, Zenon
<1>. HIDE DEF r
<1>3. PICK p \in Int : y = N * p + r
  BY <1>2
<1>4. r + b \in Int /\ r \in Int
  BY <1>0, <1>2
<1>5. s \in 0..N - 1 /\ \E q \in Int : r + b = N * q + s
  BY <1>0, <1>4, Remainder, Zenon
<1>6. u \in 0..N - 1 /\ \E k \in Int : z = N * k + u
  BY <1>0, <1>1, Remainder, Zenon
<1>. HIDE DEF s, u
<1>7. PICK q \in Int : r + b = N * q + s
  BY <1>5
<1>8. PICK k \in Int : z = N * k + u
  BY <1>6
<1>9. PICK j \in Int : z = N * j + s
  <2>1. z = N * (p + q) + s /\ p + q \in Int
    BY <1>0, <1>1, <1>3, <1>4, <1>5, <1>7
  <2>. QED
    BY <2>1, Zenon
<1>10. u = s
  BY <1>0, <1>5, <1>6, <1>8, <1>9, RemainderUnique, Zenon
<1>. QED
  BY <1>10 DEF Plus, N, y, z, r, s, u

\* rcv_nxt after n more bytes is the edge n further on.
LEMMA NextEdge ==
    ASSUME NEW x \in Int, NEW k \in Int, NEW n \in Int, NEW r, r = Plus(x, k)
    PROVE  Plus(r, n) = Plus(x, k + n)
BY PlusPlus, Zenon

\* The edge of a stream whose FIN has not been counted.
LEMMA OpenEdge ==
    ASSUME TypeOK, NEW c \in Conns, ~fin_rcvd[c], Edge(c), state[c] \notin {"CLOSED", "SYN_SENT"}
    PROVE  /\ Taken(c) \in Nat /\ IRS[c] \in Int /\ 1 + Taken(c) \in Int
           /\ rcv_nxt[c] = Plus(IRS[c], 1 + Taken(c))
<1>1. Taken(c) \in Nat /\ IRS[c] \in Int
  <2>1. read[c] \in Nat /\ rcv_buff_len[c] \in Nat
    BY DEF TypeOK
  <2>2. IRS[c] \in 0..SeqSpace - 1 /\ SeqSpace \in Nat
    BY SizeAssumption
  <2>. QED
    BY <2>1, <2>2 DEF Taken
<1>2. rcv_nxt[c] = Plus(IRS[c], 1 + Taken(c) + (IF fin_rcvd[c] THEN 1 ELSE 0))
  BY Zenon DEF Edge, RcvEdge
<1>3. (IF fin_rcvd[c] THEN 1 ELSE 0) = 0
  BY Zenon
<1>4. 1 + Taken(c) + 0 = 1 + Taken(c)
  BY <1>1
<1>5. rcv_nxt[c] = Plus(IRS[c], 1 + Taken(c))
  BY <1>2, <1>3, <1>4, Zenon
<1>. QED
  BY <1>1, <1>5

\* Two offsets less than a sequence space apart have different sequence
\* numbers.
LEMMA PlusInjective ==
    ASSUME NEW x \in Int, NEW a \in 0..SeqSpace - 1, NEW b \in 0..SeqSpace - 1,
           Plus(x, a) = Plus(x, b)
    PROVE  a = b
<1>. DEFINE N == SeqSpace
            r == (x + a) % N
<1>0. N \in Nat \ {0} /\ a \in 0..N - 1 /\ b \in 0..N - 1 /\ r = (x + b) % N
  BY SizeAssumption DEF Plus
<1>. HIDE DEF N
<1>1. x + a \in Int /\ x + b \in Int
  BY <1>0
<1>2. r \in 0..N - 1 /\ \E q \in Int : x + a = N * q + r
  BY <1>0, <1>1, Remainder, Zenon
<1>3. \E q \in Int : x + b = N * q + r
  BY <1>0, <1>1, Remainder, Zenon
<1>. HIDE DEF r
<1>4. PICK p \in Int : x + a = N * p + r
  BY <1>2
<1>5. PICK q \in Int : x + b = N * q + r
  BY <1>3
<1>6. N * p + b = N * q + a
  BY <1>0, <1>2, <1>4, <1>5
<1>. QED
  BY <1>0, <1>6, RemainderUnique, Zenon

-----------------------------------------------------------------------------
(* Steps that neither change a state nor take a byte.                      *)

\* A step that leaves the received stream, the states and the threads that
\* matter to it alone keeps the invariant.
LEMMA StreamFrame ==
    ASSUME StreamInv, UNCHANGED <<state, rcv_nxt, fin_rcvd>>,
           \A c \in Conns : Taken(c)' = Taken(c) /\ Bytes(c)',
           \A c \in Conns : Opening(c)' => Opening(c),
           \A c \in Conns : Abandoned(c) => Abandoned(c)' \/ state[c] \in {"TIME_WAIT", "CLOSED"},
           SegInv', TextInv'
    PROVE  Received'
<1>1. FreshInv'
  BY DEF StreamInv, Received, FreshInv
<1>2. FinInv'
  BY DEF StreamInv, Received, FinInv
<1>3. ASSUME NEW c \in Conns PROVE Edge(c)'
  <2>1. Edge(c)
    BY DEF StreamInv, Received, RcvStream, Edge
  <2>. QED
    BY <2>1 DEF Edge, RcvEdge
<1>4. RcvStream'
  BY <1>3, Zenon DEF RcvStream, Bytes, Edge
<1>. QED
  BY <1>1, <1>2, <1>4 DEF Received

\* A step that leaves the receiving side alone keeps the bytes taken.
LEMMA SameBytes ==
    ASSUME StreamInv, UNCHANGED rcvVars
    PROVE  /\ \A c \in Conns : Taken(c)' = Taken(c) /\ Bytes(c)'
           /\ UNCHANGED <<rcv_nxt, fin_rcvd, rcv_buff, rcv_buff_len, read>>
<1>1. UNCHANGED <<rcv_nxt, fin_rcvd, rcv_buff, rcv_buff_len, read>>
  BY DEF rcvVars
<1>2. \A c \in Conns : Bytes(c)
  BY DEF StreamInv, Received, RcvStream, Bytes
<1>. QED
  BY <1>1, <1>2 DEF Taken, Bytes

\* What tcp_rx relies on survives a step of an application.
LEMMA AppKeepsRx ==
    ASSUME StreamInv, NEW a \in Apps, AppFrame(a)
    PROVE  /\ UNCHANGED seg /\ pc'[RX] = pc[RX] /\ tx'[RX] = tx[RX] /\ SegInv'
           /\ \A c \in Conns : Abandoned(c) => Abandoned(c)'
           /\ \A c \in Conns : state'[c] \in {state[c]} \cup (States \ {"SYN_SENT"}) =>
                                   (Opening(c)' => Opening(c))
<1>0. RX # a /\ RX \in Threads /\ RX \in Senders /\ Apps \subseteq Threads /\ Apps \subseteq Senders /\ RX # Free
  BY ThreadsDistinct DEF Threads, Senders
<1>1. UNCHANGED seg /\ pc'[RX] = pc[RX] /\ tx'[RX] = tx[RX]
  BY <1>0 DEF AppFrame, OthersKept
<1>2. SegInv'
  BY <1>1 DEF SegInv, StreamInv, Received
<1>3. \A c \in Conns : Abandoned(c) => Abandoned(c)'
  BY <1>0, <1>1 DEF AppFrame, OwnLockOnly, Abandoned, RxBusy
<1>4. \A b \in Apps : Connecting(b)' => Connecting(b) \/ life[AppConn[b]] = "none"
  BY <1>0 DEF AppFrame, OthersKept, Connecting, InTx
<1>5. ASSUME NEW c \in Conns, state'[c] \in {state[c]} \cup (States \ {"SYN_SENT"}), Opening(c)'
      PROVE  Opening(c)
  BY <1>4, <1>5 DEF Opening, AppFrame
<1>. QED
  BY <1>1, <1>2, <1>3, <1>5

\* A step of an application that moves no edge and changes no state keeps the
\* invariant.
LEMMA AppQuiet ==
    ASSUME StreamInv, NEW a \in Apps, AppFrame(a), UNCHANGED <<state, rcv_nxt, fin_rcvd>>,
           \A c \in Conns : Taken(c)' = Taken(c) /\ Bytes(c)'
    PROVE  Received'
<1>1. TextInv'
  BY AppKeepsRx DEF StreamInv, Received, TextInv, RxInText, InTx
<1>. QED
  BY <1>1, AppKeepsRx, StreamFrame

\* read_bytes takes from the front of the buffer what it adds to read.
LEMMA ReadBytesStream ==
    ASSUME StreamInv, NEW a \in Apps, ReadBytes(a)
    PROVE  \A c \in Conns : Taken(c)' = Taken(c) /\ Bytes(c)'
<1>. DEFINE c == AppConn[a]
            n == Min(tx[a].size, rcv_buff_len[c])
            left == rcv_buff_len[c] - n
<1>0. /\ c \in Conns /\ tx[a].size \in Nat
      /\ rcv_buff_len \in [Conns -> 0..TCP_RCV_MAX] /\ TCP_RCV_MAX \in Nat
      /\ read \in [Conns -> Nat] /\ rcv_buff \in [Conns -> [0..TCP_RCV_MAX - 1 -> Int]]
  BY EnvAssumption, SizeAssumption
     DEF StreamInv, ControlInv, TypeInv, TypeOK, TxCalls, Senders
<1>1. /\ n \in 0..rcv_buff_len[c] /\ left \in 0..rcv_buff_len[c]
      /\ rcv_buff_len[c] \in 0..TCP_RCV_MAX /\ rcv_buff_len[c] \in Nat
  BY <1>0 DEF Min
<1>2. /\ rcv_buff_len' = [rcv_buff_len EXCEPT ![c] = left]
      /\ rcv_buff' = [rcv_buff EXCEPT ![c] =
             [i \in 0..TCP_RCV_MAX - 1 |->
                  IF i < left THEN rcv_buff[c][i + n] ELSE rcv_buff[c][i]]]
      /\ read' = [read EXCEPT ![c] = @ + n]
  BY DEF ReadBytes
<1>. HIDE DEF n
<1>3. Bytes(c)
  BY <1>0 DEF StreamInv, Received, RcvStream, Bytes
<1>4. /\ rcv_buff_len'[c] = left /\ read'[c] = read[c] + n
      /\ \A i \in 0..left - 1 : rcv_buff'[c][i] = rcv_buff[c][i + n]
  BY <1>0, <1>1, <1>2
<1>5. Taken(c)' = Taken(c)
  BY <1>0, <1>1, <1>4 DEF Taken
<1>6. ASSUME NEW i \in 0..left - 1 PROVE rcv_buff'[c][i] = read'[c] + i
  <2>1. i + n \in 0..rcv_buff_len[c] - 1
    BY <1>1
  <2>2. rcv_buff[c][i + n] = read[c] + (i + n)
    BY <1>3, <2>1, Zenon DEF Bytes
  <2>3. read[c] \in Nat /\ n \in Nat /\ i \in Nat
    BY <1>0, <1>1
  <2>. QED
    BY <1>4, <2>2, <2>3
<1>7. Bytes(c)'
  BY <1>3, <1>4, <1>5, <1>6 DEF Bytes
<1>8. ASSUME NEW d \in Conns, d # c PROVE Taken(d)' = Taken(d) /\ Bytes(d)'
  <2>1. Bytes(d)
    BY DEF StreamInv, Received, RcvStream, Bytes
  <2>2. rcv_buff'[d] = rcv_buff[d] /\ rcv_buff_len'[d] = rcv_buff_len[d] /\ read'[d] = read[d]
    BY <1>0, <1>2, <1>8, Zenon
  <2>. QED
    BY <2>1, <2>2 DEF Bytes, Taken
<1>. QED
  BY <1>5, <1>7, <1>8

\* Those are all its steps but the two that change the state, in connect and
\* in close.
LEMMA AppQuietSteps ==
    ASSUME StreamInv, NEW a \in Apps, AppFrame(a),
           \/ Connect(a) \/ ConnectWoken(a) \/ Send(a) \/ Recv(a) \/ RecvLock(a) \/ RecvWoken(a)
           \/ Close(a) \/ CloseSent(a) \/ CloseWoken(a) \/ SpuriousWakeup(a) \/ Tx(a)
    PROVE  Received'
<1>1. CASE ReadBytes(a) /\ (RecvLock(a) \/ RecvWoken(a))
  <2>1. UNCHANGED <<state, rcv_nxt, fin_rcvd>>
    BY <1>1, Zenon DEF ReadBytes, RecvLock, RecvWoken
  <2>. QED
    BY <1>1, <2>1, ReadBytesStream, AppQuiet
<1>2. CASE UNCHANGED <<state, rcvVars>>
  <2>1. UNCHANGED <<state, rcv_nxt, fin_rcvd>>
    BY <1>2 DEF rcvVars
  <2>. QED
    BY <1>2, <2>1, SameBytes, AppQuiet
<1>. QED
  BY <1>1, <1>2, Zenon DEF Connect, ConnectWoken, Send, Recv, RecvLock, RecvWoken, Close, CloseSent,
     CloseWoken, SpuriousWakeup, Tx, TxLock, TxAdd, tcbVars

-----------------------------------------------------------------------------
(* Steps that change the state of one connection and take no byte.         *)

\* A change of state that opens no connection and leaves the receiving side
\* alone keeps the invariant.
LEMMA StateChange ==
    ASSUME StreamInv, NEW c \in Conns, NEW s, state' = [state EXCEPT ![c] = s],
           UNCHANGED rcvVars, s = "SYN_SENT" => Opening(c),
           \A d \in Conns : Opening(d)' => Opening(d) \/ (d = c /\ s = "SYN_SENT"),
           fin_rcvd[c] => s \in {"TIME_WAIT", "CLOSED"},
           \A d \in Conns : d # c /\ Abandoned(d) => Abandoned(d)',
           s \notin {"CLOSED", "SYN_SENT"} => state[c] \notin {"CLOSED", "SYN_SENT"},
           SegInv', TextInv'
    PROVE  Received'
<1>1. state'[c] = s /\ \A d \in Conns : d # c => state'[d] = state[d]
  BY DEF StreamInv, ControlInv, TypeInv, TypeOK
<1>2. UNCHANGED <<rcv_nxt, fin_rcvd>> /\ \A d \in Conns : Taken(d)' = Taken(d) /\ Bytes(d)'
  BY SameBytes
<1>3. FreshInv'
  BY <1>2 DEF StreamInv, Received, FreshInv
<1>4. FinInv'
  BY <1>1, <1>2 DEF StreamInv, Received, FinInv
<1>5. ASSUME NEW d \in Conns PROVE Edge(d)'
  <2>1. Edge(d)
    BY DEF StreamInv, Received, RcvStream, Edge
  <2>. QED
    BY <1>1, <1>2, <2>1 DEF Edge, RcvEdge
<1>6. RcvStream'
  BY <1>2, <1>5, Zenon DEF RcvStream, Bytes, Edge
<1>. QED
  BY <1>3, <1>4, <1>6 DEF Received

\* A state changed by another thread that holds tcb_lock, or finds it free,
\* is not that of the connection tcp_rx works on.
LEMMA TextKept ==
    ASSUME StreamInv, NEW c \in Conns, NEW s, state' = [state EXCEPT ![c] = s],
           UNCHANGED rcvVars, tcb_lock[c] # RX,
           UNCHANGED seg, pc'[RX] = pc[RX], tx'[RX] = tx[RX]
    PROVE  TextInv'
<1>1. ASSUME RxInText'
      PROVE  state'[seg'.conn] \in {"ESTABLISHED", "FIN_WAIT_2"} /\ ~fin_rcvd'[seg'.conn]
  <2>1. RxInText /\ RxBusy /\ UNCHANGED fin_rcvd
    BY <1>1, SameBytes DEF RxInText, InTx, RxBusy
  <2>2. seg.conn # c /\ seg.conn \in Conns
    BY <2>1 DEF RxBusy, StreamInv, ControlInv, LockInv, TypeInv, SegOK
  <2>3. state'[seg.conn] = state[seg.conn]
    BY <2>2 DEF StreamInv, ControlInv, TypeInv, TypeOK
  <2>. QED
    BY <2>1, <2>3 DEF StreamInv, Received, TextInv
<1>. QED
  BY <1>1, Zenon DEF TextInv

\* connect enters SYN_SENT with tcb_lock held, before any segment counts.
LEMMA ConnectSentStream ==
    ASSUME StreamInv, NEW a \in Apps, AppFrame(a), ConnectSent(a)
    PROVE  Received'
<1>. DEFINE c == AppConn[a]
<1>0. c \in Conns /\ state \in [Conns -> States] /\ tcb_lock[c] = a /\ a # RX
  BY EnvAssumption, ThreadsDistinct
     DEF StreamInv, ControlInv, TypeInv, TypeOK, LockInv, ConnectSent, Connecting
<1>1. state' = [state EXCEPT ![c] = "SYN_SENT"] /\ UNCHANGED rcvVars
  BY DEF ConnectSent
<1>2. Opening(c)
  BY DEF ConnectSent, Connecting, Opening
<1>3. ~fin_rcvd[c]
  BY <1>0, <1>2 DEF StreamInv, Received, FreshInv
<1>4. TextInv'
  BY <1>0, <1>1, TextKept, AppKeepsRx
<1>5. \A d \in Conns : Opening(d)' => Opening(d) \/ d = c
  BY <1>0, <1>1, AppKeepsRx
<1>. QED
  BY <1>0, <1>1, <1>2, <1>3, <1>4, <1>5, StateChange, AppKeepsRx

\* close enters FIN_WAIT_1 from ESTABLISHED with a tcb_lock that was free: not
\* while tcp_rx is in its text, nor after tcp_rx has counted a FIN.
LEMMA CloseLockStream ==
    ASSUME StreamInv, NEW a \in Apps, AppFrame(a), CloseLock(a)
    PROVE  Received'
<1>. DEFINE c == AppConn[a]
<1>0. c \in Conns /\ state \in [Conns -> States] /\ tcb_lock[c] = Free /\ RX # Free
  BY EnvAssumption, ThreadsDistinct
     DEF StreamInv, ControlInv, TypeInv, TypeOK, LockInv, CloseLock
<1>1. UNCHANGED rcvVars
  BY DEF CloseLock
<1>2. CASE UNCHANGED state
  <2>1. UNCHANGED <<rcv_nxt, fin_rcvd>>
    BY <1>1, SameBytes
  <2>. QED
    BY <1>1, <1>2, <2>1, SameBytes, AppQuiet
<1>3. CASE state[c] = "ESTABLISHED" /\ state' = [state EXCEPT ![c] = "FIN_WAIT_1"]
  <2>1. ~fin_rcvd[c]
    BY <1>0, <1>3 DEF StreamInv, Received, FinInv, Abandoned
  <2>2. TextInv'
    BY <1>0, <1>1, <1>3, TextKept, AppKeepsRx
  <2>3. \A d \in Conns : Opening(d)' => Opening(d)
    BY <1>0, <1>3, AppKeepsRx DEF States
  <2>. QED
    BY <1>0, <1>1, <1>3, <2>1, <2>2, <2>3, StateChange, AppKeepsRx
<1>. QED
  BY <1>2, <1>3, Zenon DEF CloseLock

\* close_connection enters CLOSED, which nothing leaves.
LEMMA TimeWaitStream ==
    ASSUME StreamInv, NEW c \in Conns, TimeWait(c)
    PROVE  Received'
<1>0. /\ state \in [Conns -> States] /\ RX # c /\ RX # Free /\ RX \in Senders
      /\ AppsKept /\ OwnLockOnly(c) /\ UNCHANGED <<life, tx, seg>> /\ pc'[RX] = pc[RX]
  BY ThreadsDistinct, TimeWaitControl DEF StreamInv, ControlInv, TypeInv, TypeOK, Senders
<1>1. SegInv'
  BY <1>0 DEF StreamInv, Received, SegInv
<1>2. \A d \in Conns : Abandoned(d) => Abandoned(d)'
  BY <1>0 DEF OwnLockOnly, Abandoned, RxBusy
<1>3. UNCHANGED rcvVars
  BY Zenon DEF TimeWait, CloseConnectionLock, CloseConnection, tcbVars
<1>4. CASE CloseConnectionLock(c)
  <2>1. UNCHANGED <<state, rcv_nxt, fin_rcvd>>
    BY <1>4 DEF CloseConnectionLock, tcbVars, rcvVars
  <2>2. TextInv'
    BY <1>0, <2>1 DEF StreamInv, Received, TextInv, RxInText, InTx
  <2>3. \A d \in Conns : Opening(d)' => Opening(d)
    BY <1>0, <2>1 DEF Opening, AppsKept
  <2>. QED
    BY <1>1, <1>2, <1>3, <2>1, <2>2, <2>3, SameBytes, StreamFrame
<1>5. CASE CloseConnection(c)
  <2>1. state' = [state EXCEPT ![c] = "CLOSED"] /\ tcb_lock[c] # RX
    BY <1>0, <1>5 DEF CloseConnection, StreamInv, ControlInv, LockInv
  <2>2. TextInv'
    BY <1>0, <1>3, <2>1, TextKept
  <2>3. \A d \in Conns : Opening(d)' => Opening(d)
    BY <1>0, <2>1 DEF Opening, AppsKept
  <2>. QED
    BY <1>1, <1>2, <1>3, <2>1, <2>2, <2>3, StateChange
<1>. QED
  BY <1>4, <1>5 DEF TimeWait

-----------------------------------------------------------------------------
(* tcp_rx.                                                                 *)

\* What holds around every step of tcp_rx on the connection of its segment.
LEMMA RxKeeps ==
    ASSUME StreamInv, RxFrame, pc[RX] # "idle", RxBusy \/ tcb_lock[seg.conn] = Free
    PROVE  /\ SegInv' /\ seg.conn \in Conns /\ ~Abandoned(seg.conn)
           /\ \A d \in Conns : Abandoned(d) => Abandoned(d)'
           /\ \A d \in Conns : state'[d] \in {state[d]} \cup (States \ {"SYN_SENT"}) =>
                                   (Opening(d)' => Opening(d))
<1>0. RX # Free /\ seg.conn \in Conns
  BY ThreadsDistinct DEF StreamInv, ControlInv, TypeInv, SegOK
<1>1. ~Abandoned(seg.conn)
  BY <1>0 DEF Abandoned
<1>2. SegInv'
  BY DEF RxFrame, StreamInv, Received, SegInv
<1>3. \A d \in Conns : Abandoned(d) => Abandoned(d)'
  BY <1>1 DEF RxFrame, Abandoned, RxBusy
<1>4. ASSUME NEW d \in Conns, state'[d] \in {state[d]} \cup (States \ {"SYN_SENT"}), Opening(d)'
      PROVE  Opening(d)
  BY <1>4 DEF Opening, RxFrame, AppsKept
<1>. QED
  BY <1>0, <1>1, <1>2, <1>3, <1>4

\* A step of tcp_rx that does not touch the receiving side keeps the invariant.
LEMMA RxQuiet ==
    ASSUME StreamInv, RxFrame, pc[RX] # "idle", RxBusy \/ tcb_lock[seg.conn] = Free,
           UNCHANGED <<state, rcvVars>>, TextInv'
    PROVE  Received'
<1>1. UNCHANGED <<state, rcv_nxt, fin_rcvd>>
  BY DEF rcvVars
<1>2. \A d \in Conns : Opening(d)' => Opening(d)
  BY RxKeeps
<1>. QED
  BY <1>1, <1>2, RxKeeps, SameBytes, StreamFrame

\* A step of tcp_rx that takes a mutex or returns is not in the text.
LEMMA RxOutside ==
    ASSUME StreamInv, RxFrame,
           RxLockTcb \/ RxLockSend \/ RxDrop \/ RxOutOfOrder \/ RxDone \/ RxEstablished
    PROVE  Received'
<1>0. RX \in Threads /\ RX \notin Apps /\ RX \notin Conns /\ pc \in [Threads -> Labels]
      /\ {"rx_done", "idle", "rx_send", "rx_state"} \subseteq Labels
  BY ThreadsDistinct DEF StreamInv, ControlInv, TypeInv, TypeOK, Threads, Labels, RxLabels
<1>1. UNCHANGED <<state, rcvVars>> /\ pc[RX] # "idle" /\ (RxBusy \/ tcb_lock[seg.conn] = Free)
  BY Zenon DEF RxLockTcb, RxLockSend, RxDrop, RxOutOfOrder, RxDone, RxEstablished, RxAt, RxBusy,
     tcbVars
<1>2. pc'[RX] \in {"rx_send", "rx_state", "idle", "rx_done"}
  <2>1. CASE RxEstablished
    <3>1. GotoSignalling(RX, "rx_done", TcbWaiters(seg.conn)) /\ TcbWaiters(seg.conn) \subseteq Apps
      BY <2>1, WaitersType DEF RxEstablished
    <3>. QED
      BY <1>0, <3>1, SignalType
  <2>2. CASE RxDone
    <3>1. seg.conn # RX
      BY <1>0, <1>1 DEF StreamInv, ControlInv, TypeInv, SegOK
    <3>. QED
      BY <1>0, <2>2, <3>1 DEF RxDone
  <2>3. CASE RxLockTcb \/ RxLockSend \/ RxDrop \/ RxOutOfOrder
    BY <1>0, <2>3 DEF RxLockTcb, RxLockSend, RxDrop, RxOutOfOrder, Goto
  <2>. QED
    BY <2>1, <2>2, <2>3
<1>3. TextInv'
  BY <1>2 DEF TextInv, RxInText, InTx
<1>. QED
  BY <1>1, <1>3, RxQuiet

\* The steps of tcp_rx from the acknowledgement to the FIN that leave the
\* receive variables alone.
LEMMA RxInside ==
    ASSUME StreamInv, RxFrame, RxOpened \/ RxAckEstablished \/ RxWake \/ RxNoText \/ Tx(RX)
    PROVE  Received'
<1>0. /\ RX \in Threads /\ RX \in Senders /\ RX \notin Apps /\ pc \in [Threads -> Labels]
      /\ tx \in [Senders -> TxCalls] /\ {"rx_text", "rx_fin"} \subseteq Labels
  BY ThreadsDistinct DEF StreamInv, ControlInv, TypeInv, TypeOK, Threads, Senders, Labels, RxLabels
<1>1. UNCHANGED <<state, rcvVars, seg>> /\ pc[RX] # "idle" /\ RxBusy
  BY Zenon DEF RxOpened, RxAckEstablished, RxWake, RxNoText, Tx, TxLock, TxAdd, RxAt, RxBusy, tcbVars
<1>2. UNCHANGED fin_rcvd
  BY <1>1 DEF rcvVars
<1>3. ASSUME RxInText' PROVE RxInText \/ (state[seg.conn] = "ESTABLISHED" /\ ~fin_rcvd[seg.conn])
  <2>1. CASE RxOpened \/ RxWake \/ RxNoText
    BY <2>1 DEF RxOpened, RxWake, RxNoText, RxInText, RxAt
  <2>2. CASE RxAckEstablished
    <3>1. state[seg.conn] = "ESTABLISHED"
      BY <2>2 DEF RxAckEstablished
    <3>2. seg.conn \in Conns /\ ~Abandoned(seg.conn)
      BY <1>1, RxKeeps
    <3>3. fin_rcvd[seg.conn] => state[seg.conn] \in {"TIME_WAIT", "CLOSED"}
      BY <3>2 DEF StreamInv, Received, FinInv
    <3>. QED
      BY <3>1, <3>3
  <2>3. CASE TxLock(RX)
    <3>1. pc[RX] = "tx" /\ UNCHANGED tx /\ pc'[RX] = "tx_add"
      BY <1>0, <2>3 DEF TxLock, Goto
    <3>. QED
      BY <1>3, <3>1 DEF RxInText, InTx
  <2>4. CASE TxAdd(RX)
    <3>1. pc[RX] = "tx_add" /\
          \/ Goto(RX, tx[RX].ret) /\ tx' = [tx EXCEPT ![RX] = NoTx]
          \/ (Goto(RX, "tx_wait") \/ Goto(RX, "tx")) /\ \E n : tx' = [tx EXCEPT ![RX].sent = n]
      BY <2>4, Zenon DEF TxAdd
    <3>2. \/ pc'[RX] = tx[RX].ret /\ tx'[RX].ret = "idle"
          \/ pc'[RX] \in {"tx_wait", "tx"} /\ tx'[RX].ret = tx[RX].ret
      BY <1>0, <3>1 DEF Goto, NoTx, TxCalls
    <3>. QED
      BY <1>3, <3>1, <3>2 DEF RxInText, InTx
  <2>. QED
    BY <2>1, <2>2, <2>3, <2>4 DEF Tx
<1>4. TextInv'
  BY <1>1, <1>2, <1>3 DEF TextInv, StreamInv, Received
<1>. QED
  BY <1>1, <1>4, RxQuiet

\* SYN_SENT: the peer's SYN sets rcv_nxt to the edge of an empty stream.
LEMMA RxSynSentStream ==
    ASSUME StreamInv, RxFrame, RxSynSent
    PROVE  Received'
<1>0. /\ pc[RX] # "idle" /\ RxBusy /\ state[seg.conn] = "SYN_SENT" /\ "SYN" \in seg.flags
  BY DEF RxSynSent, RxAt, RxBusy, Dropped
<1>1. seg.conn \in Conns /\ SegInv' /\ \A d \in Conns : Abandoned(d) => Abandoned(d)'
  BY <1>0, RxKeeps
<1>. PICK c \in Conns : c = seg.conn
  BY <1>1
<1>2. /\ Taken(c) = 0 /\ ~fin_rcvd[c] /\ seg.seq = IRS[c]
  BY <1>0, <1>1 DEF StreamInv, Received, FreshInv, Opening, SegInv
<1>3. /\ UNCHANGED <<rcv_buff, rcv_buff_len, read, fin_rcvd>>
      /\ rcv_nxt' = [rcv_nxt EXCEPT ![c] = Plus(seg.seq, 1)]
      /\ Goto(RX, "tx")
      /\ \E s \in {"ESTABLISHED", "SYN_RECEIVED"} : state' = [state EXCEPT ![c] = s]
      /\ \E f, r : \E l \in {"rx_established", "rx_done"} : CallTx(RX, f, 0, r, l)
  BY Zenon DEF RxSynSent
<1>4. /\ state'[c] \in {"ESTABLISHED", "SYN_RECEIVED"}
      /\ \A d \in Conns : d # c => state'[d] = state[d] /\ rcv_nxt'[d] = rcv_nxt[d]
      /\ rcv_nxt'[c] = Plus(seg.seq, 1)
  BY <1>1, <1>3 DEF StreamInv, ControlInv, TypeInv, TypeOK
<1>5. pc'[RX] = "tx" /\ tx'[RX].ret \in {"rx_established", "rx_done"}
  BY <1>3, SMTT(40) DEF StreamInv, ControlInv, TypeInv, TypeOK, Goto, CallTx, Threads, Senders
<1>6. TextInv'
  BY <1>5 DEF TextInv, RxInText, InTx
<1>7. \A d \in Conns : Taken(d)' = Taken(d) /\ Bytes(d)'
  <2>1. \A d \in Conns : Bytes(d)
    BY DEF StreamInv, Received, RcvStream, Bytes
  <2>. QED
    BY <1>3, <2>1 DEF Taken, Bytes
<1>8. FreshInv'
  <2>1. \A d \in Conns : Opening(d)' => Opening(d)
    BY <1>0, <1>1, <1>4, RxKeeps DEF States
  <2>. QED
    BY <1>3, <1>7, <2>1 DEF StreamInv, Received, FreshInv
<1>9. FinInv'
  BY <1>1, <1>2, <1>3, <1>4 DEF StreamInv, Received, FinInv
<1>10. ASSUME NEW d \in Conns PROVE Edge(d)'
  <2>1. CASE d # c
    <3>1. Edge(d)
      BY DEF StreamInv, Received, RcvStream, Edge
    <3>. QED
      BY <1>3, <1>4, <1>7, <2>1, <3>1 DEF Edge, RcvEdge
  <2>2. CASE d = c
    <3>1. rcv_nxt'[c] = Plus(IRS[c], 1) /\ Taken(c)' = 0 /\ ~fin_rcvd'[c]
      BY <1>1, <1>2, <1>3, <1>4, <1>7
    <3>2. RcvEdge(c)' = Plus(IRS[c], 1)
      BY <3>1 DEF RcvEdge
    <3>. QED
      BY <2>2, <3>1, <3>2 DEF Edge
  <2>. QED
    BY <2>1, <2>2
<1>11. RcvStream'
  BY <1>7, <1>10, Zenon DEF RcvStream, Bytes, Edge
<1>. QED
  BY <1>1, <1>6, <1>8, <1>9, <1>11 DEF Received

\* SYN_RECEIVED and FIN_WAIT_1: no FIN can have been counted.
LEMMA RxAckStream ==
    ASSUME StreamInv, RxFrame, RxSynReceived \/ RxAckFinWait1
    PROVE  Received'
<1>. DEFINE c == seg.conn
<1>0. /\ pc[RX] # "idle" /\ RxBusy /\ state[c] \in {"SYN_RECEIVED", "FIN_WAIT_1"}
      /\ UNCHANGED <<seg, rcvVars>>
      /\ \E s \in {"ESTABLISHED", "FIN_WAIT_2"} : state' = [state EXCEPT ![c] = s]
  BY Zenon DEF RxSynReceived, RxAckFinWait1, RxAt, RxBusy
<1>1. PICK s \in {"ESTABLISHED", "FIN_WAIT_2"} : state' = [state EXCEPT ![c] = s]
  BY <1>0
<1>2. /\ c \in Conns /\ SegInv' /\ ~Abandoned(c)
      /\ \A d \in Conns : Abandoned(d) => Abandoned(d)'
  BY <1>0, RxKeeps
<1>3. ~fin_rcvd[c] /\ UNCHANGED fin_rcvd
  BY <1>0, <1>2 DEF StreamInv, Received, FinInv, rcvVars
<1>4. state'[c] = s /\ \A d \in Conns : d # c => state'[d] = state[d]
  BY <1>1, <1>2 DEF StreamInv, ControlInv, TypeInv, TypeOK
<1>5. TextInv'
  BY <1>0, <1>3, <1>4 DEF TextInv
<1>6. \A d \in Conns : Opening(d)' => Opening(d)
  BY <1>0, <1>4, RxKeeps DEF States
<1>. QED
  BY <1>0, <1>1, <1>2, <1>3, <1>5, <1>6, StateChange

\* The text is processed after connect has done its part.
LEMMA NotOpening ==
    ASSUME StreamInv, RxBusy, RxInText
    PROVE  ~Opening(seg.conn)
<1>1. pc[RX] # "idle" /\ tcb_lock[seg.conn] = RX
  BY DEF RxBusy, StreamInv, ControlInv, LockInv
<1>2. life[seg.conn] # "none" /\ state[seg.conn] # "SYN_SENT"
  BY <1>1 DEF StreamInv, ControlInv, LifeInv, Received, TextInv
<1>3. \A a \in Apps : AppConn[a] = seg.conn => ~Connecting(a)
  BY <1>1, ThreadsDistinct DEF StreamInv, ControlInv, LockInv
<1>. QED
  BY <1>2, <1>3 DEF Opening

\* The FIN: it moves rcv_nxt by one, and no text of this connection follows.
LEMMA RxFinStream ==
    ASSUME StreamInv, RxFrame, RxFin
    PROVE  Received'
<1>. PICK c \in Conns : c = seg.conn
  BY DEF RxFin, RxAt, StreamInv, ControlInv, TypeInv, SegOK
<1>0. /\ pc[RX] = "rx_fin" /\ RxBusy /\ tcb_lock[c] = RX
      /\ UNCHANGED <<rcv_buff, rcv_buff_len, read, tcb_lock>>
      /\ rcv_nxt' = [rcv_nxt EXCEPT ![c] = Plus(@, 1)]
      /\ fin_rcvd' = [fin_rcvd EXCEPT ![c] = TRUE]
  BY DEF RxFin, RxAt, RxBusy, locks, StreamInv, ControlInv, LockInv
<1>1. SegInv' /\ \A d \in Conns : Abandoned(d) => Abandoned(d)'
  BY <1>0, RxKeeps
<1>2. state[c] \in {"ESTABLISHED", "FIN_WAIT_2"} /\ ~fin_rcvd[c]
  BY <1>0 DEF StreamInv, Received, TextInv, RxInText
<1>3. /\ \/ /\ state' = [state EXCEPT ![c] = "TIME_WAIT"] /\ Goto(RX, "tx")
            /\ CallTx(RX, "ACK", 0, RETRIES_SENDONCE, "rx_time_wait")
         \/ UNCHANGED state /\ Goto(RX, "idle")
  BY Zenon DEF RxFin
<1>4. /\ \/ state'[c] = "TIME_WAIT" /\ pc'[RX] = "tx" /\ tx'[RX].ret = "rx_time_wait"
         \/ state'[c] = state[c] /\ pc'[RX] = "idle"
      /\ \A d \in Conns : d # c => state'[d] = state[d]
  <2>1. /\ state \in [Conns -> States] /\ pc \in [Threads -> Labels] /\ tx \in [Senders -> TxCalls]
        /\ RX \in Threads /\ RX \in Senders
    BY DEF StreamInv, ControlInv, TypeInv, TypeOK, Threads, Senders
  <2>. QED
    BY <1>3, <2>1 DEF Goto, CallTx
<1>5. /\ fin_rcvd'[c] /\ rcv_nxt'[c] = Plus(rcv_nxt[c], 1)
      /\ \A d \in Conns : d # c => fin_rcvd'[d] = fin_rcvd[d] /\ rcv_nxt'[d] = rcv_nxt[d]
  <2>1. fin_rcvd \in [Conns -> BOOLEAN] /\ rcv_nxt \in [Conns -> 0..SeqSpace - 1]
    BY DEF StreamInv, ControlInv, TypeInv, TypeOK
  <2>. QED
    BY <1>0, <2>1, Zenon
<1>6. TextInv'
  BY <1>4 DEF TextInv, RxInText, InTx
<1>7. \A d \in Conns : Taken(d)' = Taken(d) /\ Bytes(d)'
  <2>1. \A d \in Conns : Bytes(d)
    BY DEF StreamInv, Received, RcvStream, Bytes
  <2>. QED
    BY <1>0, <2>1 DEF Taken, Bytes
<1>8. FreshInv'
  <2>1. \A d \in Conns : Opening(d)' => Opening(d)
    BY <1>0, <1>4, RxKeeps DEF States
  <2>2. ~Opening(c)
    BY <1>0, NotOpening DEF RxInText
  <2>. QED
    BY <1>5, <1>7, <2>1, <2>2 DEF StreamInv, Received, FreshInv
<1>9. FinInv'
  <2>1. state'[c] = "TIME_WAIT" \/ Abandoned(c)'
    BY <1>0, <1>4 DEF Abandoned, RxBusy
  <2>. QED
    BY <1>1, <1>4, <1>5, <2>1 DEF StreamInv, Received, FinInv
<1>10. ASSUME NEW d \in Conns PROVE Edge(d)'
  <2>0. Edge(d)
    BY DEF StreamInv, Received, RcvStream, Edge
  <2>1. CASE d # c
    BY <1>4, <1>5, <1>7, <2>0, <2>1 DEF Edge, RcvEdge
  <2>2. CASE d = c
    <3>1. /\ Taken(c) \in Nat /\ IRS[c] \in Int /\ 1 + Taken(c) \in Int
          /\ rcv_nxt[c] = Plus(IRS[c], 1 + Taken(c))
      BY <1>2, <2>0, <2>2, OpenEdge DEF StreamInv, ControlInv, TypeInv
    <3>2. 1 \in Int
      OBVIOUS
    <3>3. rcv_nxt'[c] = Plus(IRS[c], 1 + Taken(c) + 1)
      <4>1. Plus(rcv_nxt[c], 1) = Plus(IRS[c], 1 + Taken(c) + 1)
        BY <3>1, <3>2, NextEdge, SMTT(40)
      <4>. QED
        BY <1>5, <4>1, Zenon
    <3>. QED
      BY <1>5, <1>7, <2>2, <3>3, Zenon DEF Edge, RcvEdge
  <2>. QED
    BY <2>1, <2>2
<1>11. RcvStream'
  BY <1>7, <1>10, Zenon DEF RcvStream, Bytes, Edge
<1>. QED
  BY <1>1, <1>6, <1>8, <1>9, <1>11 DEF Received

\* A segment whose sequence number is rcv_nxt starts at the edge of the stream.
LEMMA SamePlace ==
    ASSUME NEW x \in Int, NEW a \in 0..SeqSpace - 1, NEW b \in 0..SeqSpace - 1,
           Plus(x, 1 + a) = Plus(x, 1 + b)
    PROVE  a = b
<1>1. x + 1 \in Int /\ (x + 1) + a = x + (1 + a) /\ (x + 1) + b = x + (1 + b)
  BY SizeAssumption
<1>2. Plus(x + 1, a) = Plus(x + 1, b)
  BY <1>1, Zenon DEF Plus
<1>. QED
  BY <1>1, <1>2, PlusInjective, Zenon

\* A segment in order starts where the stream taken so far ends, and what
\* save_data_and_ack stores of it is still the peer's stream.
LEMMA InOrderText ==
    ASSUME StreamInv, NEW c \in Conns, c = seg.conn, pc[RX] = "rx_text", seg.len > 0, InOrder(c)
    PROVE  /\ seg.pos = Taken(c) /\ Taken(c) \in Nat /\ Stored(c) \in Nat
           /\ Taken(c) + Stored(c) <= PeerLen[c]
           /\ Stored(c) <= TCP_RCV_MAX - rcv_buff_len[c]
           /\ NextExpected(c) = Plus(IRS[c], 1 + Taken(c) + Stored(c))
<1>0. /\ seg.pos \in Nat /\ seg.len \in Nat /\ rcv_buff_len[c] \in 0..TCP_RCV_MAX
      /\ TCP_RCV_MAX \in Nat /\ SeqSpace \in Nat /\ PeerLen[c] \in Nat
  BY SizeAssumption DEF StreamInv, ControlInv, TypeInv, TypeOK, Segments
<1>1. seg.seq = Plus(IRS[c], 1 + seg.pos) /\ seg.pos + seg.len <= PeerLen[c]
  BY DEF StreamInv, Received, SegInv
<1>2. state[c] \in {"ESTABLISHED", "FIN_WAIT_2"} /\ ~fin_rcvd[c]
  BY DEF StreamInv, Received, TextInv, RxInText
<1>3. Edge(c) /\ Taken(c) <= PeerLen[c]
  BY DEF StreamInv, Received, RcvStream, Edge
<1>4. /\ Taken(c) \in Nat /\ IRS[c] \in Int /\ 1 + Taken(c) \in Int
      /\ rcv_nxt[c] = Plus(IRS[c], 1 + Taken(c))
  BY <1>2, <1>3, OpenEdge DEF StreamInv, ControlInv, TypeInv
<1>5. seg.pos = Taken(c)
  <2>1. seg.pos \in 0..SeqSpace - 1 /\ Taken(c) \in 0..SeqSpace - 1
    <3>1. PeerLen[c] < SeqSpace
      BY StreamsFit
    <3>2. seg.pos <= PeerLen[c]
      BY <1>0, <1>1
    <3>. QED
      BY <1>0, <1>3, <1>4, <3>1, <3>2, SMTT(40)
  <2>2. Plus(IRS[c], 1 + seg.pos) = Plus(IRS[c], 1 + Taken(c))
    BY <1>1, <1>4, Zenon DEF InOrder
  <2>. QED
    BY <1>4, <2>1, <2>2, SamePlace, Zenon
<1>6. Stored(c) \in Nat /\ Stored(c) <= seg.len /\ Stored(c) <= TCP_RCV_MAX - rcv_buff_len[c]
  BY <1>0, SMTT(40) DEF Stored, Min
<1>7. Taken(c) + Stored(c) <= PeerLen[c]
  BY <1>0, <1>1, <1>5, <1>6, SMTT(40)
<1>8. Stored(c) \in Int
  BY <1>6
<1>9. NextExpected(c) = Plus(IRS[c], 1 + Taken(c) + Stored(c))
  <2>1. \A k \in Int, m \in Int : Plus(Plus(IRS[c], k), m) = Plus(IRS[c], k + m)
    BY <1>4, PlusPlus, Zenon
  <2>2. Plus(Plus(IRS[c], 1 + Taken(c)), Stored(c)) = Plus(IRS[c], 1 + Taken(c) + Stored(c))
    BY <1>4, <1>8, <2>1
  <2>. QED
    BY <1>4, <2>2, Zenon DEF NextExpected
<1>. QED
  BY <1>4, <1>5, <1>6, <1>7, <1>9

\* Where a byte that is in the buffer after n more were stored can lie.
LEMMA StoredPlaces ==
    ASSUME NEW max \in Nat, NEW l \in 0..max, NEW n \in Nat, n <= max - l, NEW i \in 0..(l + n) - 1
    PROVE  i \in 0..max - 1 /\ i \in Nat /\ (i \notin l..l + n - 1 => i \in 0..l - 1)
  OBVIOUS

\* Counting bytes from the start of the stream or from the end of the buffer.
LEMMA Counting ==
    ASSUME NEW r \in Nat, NEW l \in Nat, NEW n \in Nat
    PROVE  r + (l + n) = (r + l) + n /\ (r + l) + (n - l) = r + n /\ r + n \in Nat /\ 1 + (r + n) + 0 = 1 + r + n
  OBVIOUS

\* save_data_and_ack appends the next bytes of the stream.
LEMMA RxTextStream ==
    ASSUME StreamInv, RxFrame, RxText
    PROVE  Received'
<1>. PICK c \in Conns : c = seg.conn
  BY DEF RxText, RxAt, StreamInv, ControlInv, TypeInv, SegOK
<1>. DEFINE n == Stored(c)
            len == rcv_buff_len[c]
<1>0. /\ pc[RX] = "rx_text" /\ RxBusy /\ seg.len > 0 /\ InOrder(c)
      /\ UNCHANGED <<state, fin_rcvd, read, tcb_lock, seg>>
      /\ rcv_nxt' = [rcv_nxt EXCEPT ![c] = NextExpected(c)]
      /\ rcv_buff_len' = [rcv_buff_len EXCEPT ![c] = @ + n]
      /\ rcv_buff' = [rcv_buff EXCEPT ![c] =
             [i \in 0..TCP_RCV_MAX - 1 |->
                  IF i \in len..len + n - 1 THEN seg.pos + (i - len) ELSE rcv_buff[c][i]]]
  BY DEF RxText, RxAt, RxBusy, locks
<1>1. SegInv' /\ \A d \in Conns : Abandoned(d) => Abandoned(d)'
  BY <1>0, RxKeeps
<1>2. /\ rcv_buff_len \in [Conns -> 0..TCP_RCV_MAX] /\ rcv_nxt \in [Conns -> 0..SeqSpace - 1]
      /\ rcv_buff \in [Conns -> [0..TCP_RCV_MAX - 1 -> Int]] /\ read[c] \in Nat
      /\ len \in 0..TCP_RCV_MAX /\ TCP_RCV_MAX \in Nat /\ len \in Nat
  <2>1. /\ rcv_buff_len \in [Conns -> 0..TCP_RCV_MAX] /\ rcv_nxt \in [Conns -> 0..SeqSpace - 1]
        /\ rcv_buff \in [Conns -> [0..TCP_RCV_MAX - 1 -> Int]] /\ read \in [Conns -> Nat]
    BY DEF StreamInv, ControlInv, TypeInv, TypeOK
  <2>2. TCP_RCV_MAX \in Nat
    BY SizeAssumption
  <2>3. len \in 0..TCP_RCV_MAX /\ read[c] \in Nat
    BY <2>1, Zenon
  <2>4. len \in Nat
    BY <2>2, <2>3, SMTT(40)
  <2>. QED
    BY <2>1, <2>2, <2>3, <2>4, Zenon
<1>3. /\ seg.pos = Taken(c) /\ Taken(c) \in Nat /\ n \in Nat /\ Taken(c) + n <= PeerLen[c]
      /\ n <= TCP_RCV_MAX - len /\ NextExpected(c) = Plus(IRS[c], 1 + Taken(c) + n)
  BY <1>0, InOrderText
<1>. HIDE DEF n
<1>N. read[c] \in Nat /\ len \in Nat /\ n \in Nat /\ Taken(c) \in Nat
  BY <1>2, <1>3, Zenon
<1>4. /\ rcv_buff_len'[c] = len + n /\ rcv_nxt'[c] = NextExpected(c)
      /\ \A d \in Conns : d # c => /\ rcv_buff_len'[d] = rcv_buff_len[d]
                                   /\ rcv_nxt'[d] = rcv_nxt[d] /\ rcv_buff'[d] = rcv_buff[d]
  BY <1>0, <1>2, Zenon
<1>5. Taken(c)' = Taken(c) + n
  <2>1. Taken(c)' = read[c] + (len + n)
    BY <1>0, <1>4, Zenon DEF Taken
  <2>2. read[c] + (len + n) = (read[c] + len) + n
    BY <1>N, SMTT(30)
  <2>. QED
    BY <2>1, <2>2, Zenon DEF Taken
<1>6. ASSUME NEW i \in 0..(len + n) - 1 PROVE rcv_buff'[c][i] = read'[c] + i
  <2>1. i \in 0..TCP_RCV_MAX - 1 /\ i \in Nat
    BY <1>2, <1>3, StoredPlaces, Zenon
  <2>2. rcv_buff'[c] = [j \in 0..TCP_RCV_MAX - 1 |->
                            IF j \in len..len + n - 1 THEN seg.pos + (j - len) ELSE rcv_buff[c][j]]
    BY <1>0, <1>2, Zenon
  <2>3. rcv_buff'[c][i] = IF i \in len..len + n - 1 THEN seg.pos + (i - len) ELSE rcv_buff[c][i]
    BY <2>1, <2>2, Zenon
  <2>4. CASE i \in len..len + n - 1
    <3>1. rcv_buff'[c][i] = Taken(c) + (i - len)
      BY <1>3, <2>3, <2>4, Zenon
    <3>2. Taken(c) = read[c] + len
      BY DEF Taken
    <3>. QED
      <4>1. (read[c] + len) + (i - len) = read[c] + i
        BY <1>N, <2>1, Counting
      <4>. QED
        BY <1>0, <3>1, <3>2, <4>1, Zenon
  <2>5. CASE i \notin len..len + n - 1
    <3>1. rcv_buff'[c][i] = rcv_buff[c][i]
      BY <2>3, <2>5, Zenon
    <3>2. i \in 0..len - 1
      BY <1>2, <1>3, <2>5, StoredPlaces, Zenon
    <3>3. rcv_buff[c][i] = read[c] + i
      BY <3>2 DEF StreamInv, Received, RcvStream
    <3>. QED
      BY <1>0, <3>1, <3>3
  <2>. QED
    BY <2>4, <2>5
<1>7. ASSUME NEW d \in Conns PROVE Bytes(d)'
  <2>1. CASE d = c
    <3>1. Taken(c)' <= PeerLen[c]
      BY <1>3, <1>5
    <3>2. \A i \in 0..rcv_buff_len'[c] - 1 : rcv_buff'[c][i] = read'[c] + i
      BY <1>4, <1>6, Zenon
    <3>. QED
      BY <2>1, <3>1, <3>2 DEF Bytes
  <2>2. CASE d # c
    <3>1. Bytes(d)
      BY DEF StreamInv, Received, RcvStream, Bytes
    <3>. QED
      BY <1>0, <1>4, <2>2, <3>1 DEF Bytes, Taken
  <2>. QED
    BY <2>1, <2>2
<1>8. ASSUME NEW d \in Conns PROVE Edge(d)'
  <2>1. CASE d = c
    <3>1. ~fin_rcvd'[c]
      BY <1>0 DEF StreamInv, Received, TextInv, RxInText
    <3>2. Taken(c)' \in Nat /\ 1 + Taken(c)' + 0 = 1 + Taken(c) + n
      <4>1. Taken(c) + n \in Nat /\ 1 + (Taken(c) + n) + 0 = 1 + Taken(c) + n
        BY <1>N, Counting, SMTT(30)
      <4>. QED
        BY <1>5, <4>1, Zenon
    <3>3. RcvEdge(c)' = Plus(IRS[c], 1 + Taken(c) + n)
      BY <3>1, <3>2, Zenon DEF RcvEdge
    <3>. QED
      BY <1>3, <1>4, <2>1, <3>3, Zenon DEF Edge
  <2>2. CASE d # c
    <3>1. Edge(d)
      BY DEF StreamInv, Received, RcvStream, Edge
    <3>2. Taken(d)' = Taken(d)
      BY <1>0, <1>4, <2>2 DEF Taken
    <3>. QED
      BY <1>0, <1>4, <2>2, <3>1, <3>2 DEF Edge, RcvEdge
  <2>. QED
    BY <2>1, <2>2
<1>9. RcvStream'
  BY <1>7, <1>8, Zenon DEF RcvStream, Bytes, Edge
<1>10. FreshInv'
  <2>1. \A d \in Conns : Opening(d)' => Opening(d)
    BY <1>0, RxKeeps
  <2>2. ~Opening(c)
    BY <1>0, NotOpening DEF RxInText
  <2>3. \A d \in Conns : d # c => Taken(d)' = Taken(d)
    BY <1>0, <1>4 DEF Taken
  <2>. QED
    BY <1>0, <2>1, <2>2, <2>3 DEF StreamInv, Received, FreshInv
<1>11. FinInv'
  BY <1>0, <1>1 DEF StreamInv, Received, FinInv
<1>12. TextInv'
  BY <1>0 DEF StreamInv, Received, TextInv, RxInText
<1>. QED
  BY <1>1, <1>9, <1>10, <1>11, <1>12 DEF Received

-----------------------------------------------------------------------------
(* The other steps, and all of them together.                              *)

\* What a peer sends lies in its stream, at the place its sequence number says.
LEMMA InboundInStream ==
    ASSUME NEW c \in Conns, NEW s \in Inbound(c)
    PROVE  /\ s.conn = c
           /\ "SYN" \in s.flags => s.seq = IRS[c]
           /\ s.len > 0 => s.seq = Plus(IRS[c], 1 + s.pos) /\ s.pos + s.len <= PeerLen[c]
<1>1. CASE s \in Syns(c) \/ s \in SynAcks(c)
  <2>1. PICK f, a, w : s = Segment(c, f, IRS[c], a, 0, 0, w)
    BY <1>1, Zenon DEF Syns, SynAcks
  <2>2. s.conn = c /\ s.seq = IRS[c] /\ s.len = 0
    BY <2>1, Zenon DEF Segment
  <2>. QED
    BY <2>2
<1>2. CASE s \in Resets(c)
  <2>1. PICK a : s = Segment(c, {"RST", "ACK"}, 0, a, 0, 0, 0)
    BY <1>2, Zenon DEF Resets
  <2>2. s.conn = c /\ s.flags = {"RST", "ACK"} /\ s.len = 0
    BY <2>1, Zenon DEF Segment
  <2>3. "SYN" \notin s.flags /\ ~(s.len > 0)
    BY <2>2, SMTT(30)
  <2>. QED
    BY <2>2, <2>3, Zenon
<1>3. ASSUME NEW p \in 0..PeerLen[c], s \in Texts(c, p)
      PROVE  /\ s.conn = c
             /\ "SYN" \in s.flags => s.seq = IRS[c]
             /\ s.len > 0 => s.seq = Plus(IRS[c], 1 + s.pos) /\ s.pos + s.len <= PeerLen[c]
  <2>1. PICK l \in {k \in 0..PeerSeg : p + k <= PeerLen[c]} :
           \E f \in TextFlags(c, p, l), a \in Acks(c), w \in Windows :
              s = Segment(c, f, Plus(IRS[c], 1 + p), a, p, l, w)
    BY <1>3 DEF Texts
  <2>2. PICK f \in TextFlags(c, p, l), a \in Acks(c), w \in Windows :
           s = Segment(c, f, Plus(IRS[c], 1 + p), a, p, l, w)
    BY <2>1, Zenon
  <2>3. "SYN" \notin f
    BY DEF TextFlags
  <2>4. s.conn = c /\ s.flags = f /\ s.seq = Plus(IRS[c], 1 + p) /\ s.pos = p /\ s.len = l
    BY <2>2, Zenon DEF Segment
  <2>. QED
    BY <2>3, <2>4
<1>. QED
  BY <1>1, <1>2, <1>3, Zenon DEF Inbound

\* A segment that arrives brings part of the stream.
LEMMA ArrivalStream ==
    ASSUME StreamInv, NEW c \in Conns, RxSegment(c)
    PROVE  Received'
<1>0. RX \in Threads /\ pc \in [Threads -> Labels]
  BY DEF StreamInv, ControlInv, TypeInv, TypeOK, Threads
<1>1. UNCHANGED <<state, rcvVars, life, tcb_lock>> /\ AppsKept /\ pc[RX] = "idle"
  BY ArrivalControl DEF RxSegment, RxAt, tcbVars, locks, StreamInv
<1>2. UNCHANGED <<state, rcv_nxt, fin_rcvd>>
  BY <1>1 DEF rcvVars
<1>3. \/ pc'[RX] = "idle"
      \/ pc'[RX] = "rx_tcb" /\ \E s \in Inbound(c) : seg' = s
  <2>1. UNCHANGED pc \/ (Goto(RX, "rx_tcb") /\ \E s \in Inbound(c) : seg' = s)
    BY Zenon DEF RxSegment
  <2>. QED
    BY <1>0, <1>1, <2>1 DEF Goto
<1>4. SegInv'
  <2>1. CASE pc'[RX] = "idle"
    BY <2>1, Zenon DEF SegInv
  <2>2. ASSUME NEW s \in Inbound(c), seg' = s PROVE SegInv'
    <3>1. /\ s.conn = c /\ ("SYN" \in s.flags => s.seq = IRS[c])
          /\ s.len > 0 => s.seq = Plus(IRS[c], 1 + s.pos) /\ s.pos + s.len <= PeerLen[c]
      BY InboundInStream, Zenon
    <3>. QED
      BY <2>2, <3>1, Zenon DEF SegInv
  <2>. QED
    BY <1>3, <2>1, <2>2, Zenon
<1>5. TextInv'
  BY <1>3 DEF TextInv, RxInText, InTx
<1>6. \A d \in Conns : (Opening(d)' => Opening(d)) /\ (Abandoned(d) => Abandoned(d)')
  BY <1>1, <1>3 DEF Opening, AppsKept, Abandoned, RxBusy
<1>. QED
  BY <1>1, <1>2, <1>4, <1>5, <1>6, SameBytes, StreamFrame

\* Steps that leave tcp_rx and every tcb alone.
LEMMA ElsewhereStream ==
    ASSUME StreamInv, UNCHANGED <<life, state, rcvVars, tcb_lock, seg, tx>>, AppsKept, pc'[RX] = pc[RX]
    PROVE  Received'
<1>1. UNCHANGED <<state, rcv_nxt, fin_rcvd>>
  BY DEF rcvVars
<1>2. SegInv' /\ TextInv'
  BY <1>1 DEF StreamInv, Received, SegInv, TextInv, RxInText, InTx
<1>3. \A d \in Conns : (Opening(d)' => Opening(d)) /\ (Abandoned(d) => Abandoned(d)')
  BY DEF Opening, AppsKept, Abandoned, RxBusy
<1>. QED
  BY <1>1, <1>2, <1>3, SameBytes, StreamFrame

\* The stream is empty at the start.
LEMMA InitStream == ASSUME Init PROVE Received
<1>0. RX \in Threads /\ Apps \subseteq Threads
  BY DEF Threads
<1>1. \A c \in Conns : /\ Taken(c) = 0 /\ rcv_buff_len[c] = 0 /\ state[c] = "CLOSED"
                       /\ fin_rcvd[c] = FALSE
  BY DEF Init, Taken
<1>2. pc[RX] = "idle"
  BY <1>0 DEF Init
<1>3. SegInv /\ TextInv
  BY <1>2 DEF SegInv, TextInv, RxInText, InTx
<1>4. FreshInv /\ FinInv
  BY <1>1 DEF FreshInv, FinInv
<1>5. RcvStream
  <2>1. \A c \in Conns : PeerLen[c] \in Nat
    BY SizeAssumption
  <2>. QED
    BY <1>1, <2>1, SMTT(40) DEF RcvStream
<1>. QED
  BY <1>3, <1>4, <1>5 DEF Received

\* Every step keeps the received stream intact.
LEMMA NextStream ==
    ASSUME StreamInv, [Next]_vars, "corrupts" \notin Env
    PROVE  Received'
<1>0. ControlInv
  BY DEF StreamInv
<1>1. CASE \E a \in Apps : App(a) \/ SpuriousWakeup(a)
  <2>1. PICK a \in Apps : App(a) \/ SpuriousWakeup(a)
    BY <1>1
  <2>2. AppFrame(a)
    BY <1>0, <2>1, AppConnects, AppTransfers, AppCloses, AppWaits, Zenon DEF App
  <2>. QED
    BY <2>1, <2>2, AppQuietSteps, ConnectSentStream, CloseLockStream, Zenon DEF App
<1>2. CASE Arrival
  BY <1>2, ArrivalStream, Zenon DEF Arrival, RxBadSegment
<1>3. CASE RxStep
  <2>1. RxFrame
    BY <1>0, <1>3, RxHolds, RxTakes, Zenon DEF RxStep
  <2>. QED
    BY <1>3, <2>1, RxOutside, RxInside, RxSynSentStream, RxAckStream, RxTextStream, RxFinStream,
       Zenon DEF RxStep
<1>4. CASE UNCHANGED vars \/ \E h : RxArpReply(h)
  <2>1. UNCHANGED <<life, state, rcvVars, tcb_lock, seg, tx, pc>>
    BY <1>4, Zenon DEF vars, RxArpReply, tcbVars, locks, thrVars
  <2>2. AppsKept /\ pc'[RX] = pc[RX]
    BY <2>1 DEF AppsKept, Connecting, Closing, InTx
  <2>. QED
    BY <2>1, <2>2, ElsewhereStream
<1>5. CASE \E c \in Conns : TimeWait(c)
  BY <1>5, TimeWaitStream, Zenon
<1>6. CASE Rtx
  <2>1. RX \in Threads \ Apps /\ RX # RTX
    BY ThreadsDistinct DEF Threads
  <2>. QED
    BY <1>0, <1>6, <2>1, RtxControl, ElsewhereStream
<1>. QED
  BY <1>1, <1>2, <1>3, <1>4, <1>5, <1>6, Zenon DEF Next

\* The inductive invariant of the receiving side of tcp_rx and read_bytes.
THEOREM StreamInvariant ==
    ASSUME "corrupts" \notin Env PROVE Spec => []StreamInv
<1>1. Init => StreamInv
  BY InitType, InitControl, InitStream DEF StreamInv, ControlInv
<1>2. StreamInv /\ [Next]_vars => StreamInv'
  BY NextType, NextControl, NextStream DEF StreamInv, ControlInv
<1>. QED
  BY <1>1, <1>2, PTL DEF Spec

\* Whatever the network loses, repeats or reorders, and however the threads of
\* the stack interleave, recv returns the peer's stream: in order, without gap
\* or repetition (tcp_rx, save_data_and_ack, read_bytes).  Only segments that
\* fail the length or checksum test are excluded.
THEOREM ReceivedStreamIntact ==
    ASSUME "corrupts" \notin Env PROVE Spec => []RcvStream
<1>1. StreamInv => RcvStream
  BY DEF StreamInv, Received
<1>. QED
  BY <1>1, StreamInvariant, PTL

-----------------------------------------------------------------------------
(* What is acknowledged is stored.                                         *)

\* The sequence numbers of the peer's SYN, of the bytes taken, and of its FIN.
Extent(c) == 1 + Taken(c) + (IF fin_rcvd[c] THEN 1 ELSE 0)
AckOK(ack, c) == Minus(ack, IRS[c]) <= Extent(c)

\* AckedIsStored is not inductive.  tcp_tx puts rcv_nxt as it is into a segment,
\* in whatever state the connection has come to since the call; it is called
\* with anything but a SYN only after the SYN exchange, and close_connection
\* leaves rcv_nxt alone.
Acking(t) == InTx(t) /\ tx[t].flags # "SYN"
Open(c) == state[c] \notin {"CLOSED", "SYN_SENT"}
WillAck(c) == Open(c) \/ \E t \in Senders : Acking(t) /\ ConnOf(t) = c
AckBound == \A c \in Conns : WillAck(c) => AckOK(rcv_nxt[c], c)

\* tcp_tx returns to its caller, not into itself.
TxLabels == {"tx", "tx_add", "tx_wait"}
LeavesTx == \A t \in Senders : tx[t].ret \notin TxLabels

AckInv == AckedIsStored /\ AckBound /\ LeavesTx

\* A sequence number n further on is at most n further on.
LEMMA AtMost == ASSUME NEW x \in Int, NEW n \in Nat PROVE Minus(Plus(x, n), x) <= n
<1>. DEFINE N == SeqSpace
            y == (x + n) % N
            r == (y - x) % N
<1>0. N \in Nat \ {0} /\ x + n \in Int
  BY SizeAssumption
<1>1. y \in 0..N - 1 /\ \E q \in Int : x + n = N * q + y
  BY <1>0, Remainder, Zenon
<1>2. y \in Int /\ y - x \in Int
  BY <1>0, <1>1
<1>3. r \in 0..N - 1 /\ \E q \in Int : y - x = N * q + r
  BY <1>0, <1>2, Remainder, Zenon
<1>. HIDE DEF y, r
<1>4. PICK p \in Int : x + n = N * p + y
  BY <1>1
<1>5. PICK q \in Int : y - x = N * q + r
  BY <1>3
<1>6. n = N * (p + q) + r /\ p + q \in Int
  BY <1>0, <1>2, <1>3, <1>4, <1>5
<1>7. r <= n
  <2>. PICK k \in Int : k = p + q
    BY <1>6
  <2>1. n = N * k + r
    BY <1>6
  <2>2. k >= 0
    <3>. SUFFICES ASSUME k <= -1 PROVE FALSE
      OBVIOUS
    <3>1. N * k <= -N
      BY <1>0
    <3>. QED
      BY <1>0, <1>3, <2>1, <3>1
  <2>3. N * k >= 0
    BY <1>0, <2>2
  <2>. QED
    BY <1>0, <1>3, <2>1, <2>3
<1>. QED
  BY <1>7 DEF Minus, Plus, r, y

\* In an open connection everything up to rcv_nxt is stored.
LEMMA EdgeStored ==
    ASSUME StreamInv', NEW c \in Conns, Open(c)'
    PROVE  AckOK(rcv_nxt[c], c)'
<1>1. read'[c] \in Nat /\ rcv_buff_len'[c] \in 0..TCP_RCV_MAX /\ IRS[c] \in 0..SeqSpace - 1
  BY SizeAssumption DEF StreamInv, ControlInv, TypeInv, TypeOK
<1>2. IRS[c] \in Int
  BY <1>1, SeqIsNat
<1>3. Extent(c)' \in Nat
  <2>1. Taken(c)' \in Nat
    BY <1>1, SizeAssumption DEF Taken
  <2>2. \E k \in {0, 1} : Extent(c)' = 1 + Taken(c)' + k
    BY Zenon DEF Extent
  <2>. QED
    BY <2>1, <2>2
<1>4. rcv_nxt'[c] = Plus(IRS[c], Extent(c)')
  BY Zenon DEF StreamInv, Received, RcvStream, RcvEdge, Extent, Open
<1>5. Minus(rcv_nxt'[c], IRS[c]) <= Extent(c)'
  BY <1>2, <1>3, <1>4, AtMost, Zenon
<1>. QED
  BY <1>5, Zenon DEF AckOK

\* More is stored with every step, never less.
Grows == \A c \in Conns : Taken(c)' >= Taken(c) /\ (fin_rcvd[c] => fin_rcvd'[c])

LEMMA StaysStored ==
    ASSUME StreamInv, StreamInv', Grows, NEW c \in Conns, NEW ack \in 0..SeqSpace - 1, AckOK(ack, c)
    PROVE  AckOK(ack, c)'
<1>1. IRS[c] \in 0..SeqSpace - 1
  BY SizeAssumption
<1>2. Minus(ack, IRS[c]) \in Nat
  BY <1>1, SeqIsNat, SeqNumbers
<1>3. Taken(c) \in Nat /\ Taken(c)' \in Nat
  <2>1. read[c] \in Nat /\ rcv_buff_len[c] \in 0..TCP_RCV_MAX
    BY DEF StreamInv, ControlInv, TypeInv, TypeOK
  <2>2. read'[c] \in Nat /\ rcv_buff_len'[c] \in 0..TCP_RCV_MAX
    BY DEF StreamInv, ControlInv, TypeInv, TypeOK
  <2>. QED
    BY <2>1, <2>2, SizeAssumption DEF Taken
<1>4. Taken(c)' >= Taken(c) /\ (fin_rcvd[c] => fin_rcvd'[c])
  BY DEF Grows
<1>5. Extent(c)' >= Extent(c) /\ Extent(c) \in Nat /\ Extent(c)' \in Nat
  <2>1. CASE fin_rcvd[c]
    <3>1. Extent(c) = 1 + Taken(c) + 1 /\ Extent(c)' = 1 + Taken(c)' + 1
      BY <1>4, <2>1, Zenon DEF Extent
    <3>. QED
      BY <1>3, <1>4, <3>1
  <2>2. CASE ~fin_rcvd[c]
    <3>1. Extent(c) = 1 + Taken(c) + 0 /\ \E k \in {0, 1} : Extent(c)' = 1 + Taken(c)' + k
      BY <2>2, Zenon DEF Extent
    <3>. QED
      BY <1>3, <1>4, <3>1
  <2>. QED
    BY <2>1, <2>2
<1>6. Minus(ack, IRS[c]) <= Extent(c)
  BY DEF AckOK
<1>7. Minus(ack, IRS[c]) <= Extent(c)'
  BY <1>2, <1>5, <1>6
<1>. QED
  BY <1>7 DEF AckOK

\* The entries of messages_array are entries there were, sent or trimmed, or
\* carry the rcv_nxt of a connection that acknowledges.
NewAcks ==
    \A m \in messages_array' : m.flags # "SYN" =>
        \/ \E e \in messages_array : e.conn = m.conn /\ e.flags = m.flags /\ e.ack = m.ack
        \/ m.conn \in Conns /\ m.ack = rcv_nxt[m.conn] /\ WillAck(m.conn)

\* tcp_tx is called to acknowledge in an open connection.
NewCalls ==
    \A t \in Senders : Acking(t)' =>
        \/ Acking(t) /\ ConnOf(t)' = ConnOf(t)
        \/ Open(ConnOf(t)')
        \/ Open(ConnOf(t))'

\* How a step may change the locals of tcp_tx: a call, an iteration, a return.
TxMoves ==
    \/ UNCHANGED tx
    \/ \E t \in Senders :
         \/ \E r \in TxCalls : r.ret \notin TxLabels /\ tx' = [tx EXCEPT ![t] = r]
         \/ \E n : tx' = [tx EXCEPT ![t].sent = n]

LEMMA LeavesTxKept == ASSUME TypeOK, LeavesTx, TxMoves PROVE LeavesTx'
<1>0. tx \in [Senders -> TxCalls]
  BY DEF TypeOK
<1>1. CASE UNCHANGED tx
  BY <1>1 DEF LeavesTx
<1>2. ASSUME NEW t \in Senders, NEW r \in TxCalls, r.ret \notin TxLabels, tx' = [tx EXCEPT ![t] = r]
      PROVE  LeavesTx'
  BY <1>0, <1>2, Zenon DEF LeavesTx
<1>3. ASSUME NEW t \in Senders, NEW n, tx' = [tx EXCEPT ![t].sent = n]
      PROVE  LeavesTx'
  <2>1. tx'[t].ret = tx[t].ret /\ \A u \in Senders : u # t => tx'[u] = tx[u]
    BY <1>0, <1>3 DEF TxCalls
  <2>. QED
    BY <2>1 DEF LeavesTx
<1>. QED
  BY <1>1, <1>2, <1>3, Zenon DEF TxMoves

\* NoTx, and what CallTx sets up, are calls.
LEMMA CallMoves ==
    ASSUME NEW t \in Senders, NEW f \in {"SYN", "SYNACK", "ACK", "FINACK"}, NEW n \in Nat,
           NEW r \in Int, NEW l \in Labels \ TxLabels, CallTx(t, f, n, r, l)
    PROVE  TxMoves
<1>. DEFINE call == [flags |-> f, size |-> n, sent |-> 0, retries |-> r, ret |-> l]
<1>1. call \in TxCalls /\ call.ret = l
  BY DEF TxCalls
<1>2. tx' = [tx EXCEPT ![t] = call]
  BY DEF CallTx
<1>. QED
  BY <1>1, <1>2, Zenon DEF TxMoves

LEMMA RestMoves ==
    ASSUME NEW t \in Senders, NEW n \in Nat, tx' = [tx EXCEPT ![t] = [NoTx EXCEPT !.size = n]]
    PROVE  TxMoves
<1>1. [NoTx EXCEPT !.size = n] \in TxCalls /\ [NoTx EXCEPT !.size = n].ret = "idle"
  BY DEF TxCalls, NoTx, Labels, AppLabels
<1>2. "idle" \notin TxLabels
  BY DEF TxLabels
<1>. QED
  BY <1>1, <1>2, Zenon DEF TxMoves

LEMMA NoTxMoves == ASSUME NEW t \in Senders, tx' = [tx EXCEPT ![t] = NoTx] PROVE TxMoves
<1>1. NoTx \in TxCalls /\ NoTx.ret = "idle"
  BY DEF TxCalls, NoTx, Labels, AppLabels
<1>2. "idle" \notin TxLabels
  BY DEF TxLabels
<1>. QED
  BY <1>1, <1>2, Zenon DEF TxMoves

LEMMA AckStep ==
    ASSUME StreamInv, StreamInv', AckInv, Grows, NewAcks, NewCalls, TxMoves,
           \A c \in Conns : rcv_nxt'[c] = rcv_nxt[c] \/ Open(c)'
    PROVE  AckInv'
<1>1. ASSUME NEW c \in Conns, WillAck(c)' PROVE AckOK(rcv_nxt[c], c)'
  <2>1. CASE Open(c)'
    BY <2>1, EdgeStored, Zenon
  <2>2. CASE ~Open(c)'
    <3>1. PICK t \in Senders : Acking(t)' /\ ConnOf(t)' = c
      BY <1>1, <2>2, Zenon DEF WillAck
    <3>2. ~Open(ConnOf(t))'
      BY <2>2, <3>1, Zenon DEF Open
    <3>3. WillAck(c)
      BY <3>1, <3>2, Zenon DEF NewCalls, WillAck
    <3>4. rcv_nxt'[c] = rcv_nxt[c] /\ AckOK(rcv_nxt[c], c)
      BY <2>2, <3>3, Zenon DEF AckInv, AckBound
    <3>5. rcv_nxt[c] \in 0..SeqSpace - 1
      BY DEF StreamInv, ControlInv, TypeInv, TypeOK
    <3>6. PICK ack \in 0..SeqSpace - 1 : ack = rcv_nxt[c]
      BY <3>5, Zenon
    <3>7. AckOK(ack, c)'
      BY <3>4, <3>6, StaysStored, Zenon
    <3>. QED
      BY <3>4, <3>6, <3>7, Zenon DEF AckOK
  <2>. QED
    BY <2>1, <2>2
<1>2. ASSUME NEW m \in messages_array', m.flags # "SYN"
      PROVE  AckOK(m.ack, m.conn)'
  <2>1. m.conn \in Conns /\ m.ack \in 0..SeqSpace - 1
    BY DEF StreamInv, ControlInv, TypeInv, TypeOK, Messages
  <2>2. AckOK(m.ack, m.conn)
    <3>1. CASE \E e \in messages_array : e.conn = m.conn /\ e.flags = m.flags /\ e.ack = m.ack
      BY <1>2, <3>1, Zenon DEF AckInv, AckedIsStored, AckOK, Extent
    <3>2. CASE m.ack = rcv_nxt[m.conn] /\ WillAck(m.conn)
      BY <2>1, <3>2, Zenon DEF AckInv, AckBound
    <3>. QED
      BY <1>2, <3>1, <3>2, Zenon DEF NewAcks
  <2>. QED
    BY <2>1, <2>2, StaysStored, Zenon
<1>3. LeavesTx'
  BY LeavesTxKept DEF AckInv, StreamInv, ControlInv, TypeInv
<1>. QED
  BY <1>1, <1>2, <1>3, Zenon DEF AckInv, AckBound, AckedIsStored, AckOK, Extent

\* An iteration of tcp_tx makes no call: it goes on with its own, or returns.
LEMMA TxCall ==
    ASSUME TypeOK, LeavesTx, NEW t \in Senders, Tx(t)
    PROVE  TxMoves /\ InTx(t) /\ (InTx(t)' => tx'[t].flags = tx[t].flags)
<1>0. tx \in [Senders -> TxCalls] /\ pc \in [Threads -> Labels] /\ t \in Threads
  BY DEF TypeOK, Senders, Threads
<1>1. CASE TxLock(t)
  <2>1. UNCHANGED tx /\ pc[t] = "tx"
    BY <1>1 DEF TxLock
  <2>. QED
    BY <2>1 DEF TxMoves, InTx
<1>2. CASE TxAdd(t)
  <2>1. /\ pc[t] = "tx_add"
        /\ \/ Goto(t, tx[t].ret) /\ tx' = [tx EXCEPT ![t] = NoTx]
           \/ \E n : tx' = [tx EXCEPT ![t].sent = n]
    BY <1>2, Zenon DEF TxAdd
  <2>2. InTx(t)
    BY <2>1 DEF InTx
  <2>3. CASE Goto(t, tx[t].ret) /\ tx' = [tx EXCEPT ![t] = NoTx]
    <3>1. pc'[t] = tx[t].ret
      BY <1>0, <2>3, Zenon DEF Goto
    <3>2. ~InTx(t)'
      BY <3>1, Zenon DEF InTx, LeavesTx, TxLabels
    <3>. QED
      BY <2>2, <2>3, <3>2, NoTxMoves
  <2>4. ASSUME NEW n, tx' = [tx EXCEPT ![t].sent = n]
        PROVE  TxMoves /\ InTx(t) /\ (InTx(t)' => tx'[t].flags = tx[t].flags)
    <3>1. tx'[t].flags = tx[t].flags
      BY <1>0, <2>4 DEF TxCalls
    <3>2. TxMoves
      BY <2>4, Zenon DEF TxMoves
    <3>. QED
      BY <2>2, <3>1, <3>2
  <2>. QED
    BY <2>1, <2>3, <2>4, Zenon
<1>. QED
  BY <1>1, <1>2 DEF Tx

\* stop_retransmit marks entries and drops them; the retransmission handler
\* counts an attempt or drops the entry: neither touches what is acknowledged.
LEMMA StopAcks ==
    ASSUME TypeOK, NEW c, NEW una, messages_array' = StopRetransmit(c, una)
    PROVE  NewAcks
<1>1. ASSUME NEW m \in messages_array'
      PROVE  \E e \in messages_array : e.conn = m.conn /\ e.flags = m.flags /\ e.ack = m.ack
  <2>1. PICK e \in messages_array : m = IF Below(e, c, una) THEN [e EXCEPT !.dangling = TRUE] ELSE e
    BY DEF StopRetransmit
  <2>2. e \in Messages
    BY DEF TypeOK
  <2>3. e.conn = m.conn /\ e.flags = m.flags /\ e.ack = m.ack
    BY <2>1, <2>2 DEF Messages
  <2>. QED
    BY <2>3
<1>. QED
  BY <1>1, Zenon DEF NewAcks

LEMMA RtxAcks == ASSUME TypeOK, Rtx PROVE NewAcks
<1>1. ASSUME NEW m \in messages_array'
      PROVE  \E e \in messages_array : e.conn = m.conn /\ e.flags = m.flags /\ e.ack = m.ack
  <2>1. CASE m \in messages_array
    BY <2>1
  <2>2. CASE m \notin messages_array
    <3>1. PICK e \in messages_array : m = [e EXCEPT !.retries = @ - 1]
      BY <2>2, Zenon DEF Rtx, RtxLock, RtxDone, RtxSend, RtxGiveUp, rtxVars
    <3>2. e \in Messages
      BY DEF TypeOK
    <3>. QED
      BY <3>1, <3>2 DEF Messages
  <2>. QED
    BY <2>1, <2>2
<1>. QED
  BY <1>1, Zenon DEF NewAcks

\* tcp_tx acknowledges what rcv_nxt says.
LEMMA TxAcks ==
    ASSUME StreamInv, NEW t \in Senders, Tx(t)
    PROVE  NewAcks
<1>1. CASE UNCHANGED messages_array
  BY <1>1, Zenon DEF NewAcks
<1>2. CASE TxAdd(t)
  <2>1. InTx(t) /\ ConnOf(t) \in Conns
    BY <1>2, SenderType DEF TxAdd, InTx, StreamInv, ControlInv
  <2>2. ASSUME NEW m \in messages_array', m \notin messages_array, m.flags # "SYN"
        PROVE  m.conn \in Conns /\ m.ack = rcv_nxt[m.conn] /\ WillAck(m.conn)
    <3>1. PICK n, r : m = Packet(ConnOf(t), tx[t].flags, n, r)
      BY <1>2, <2>2, Zenon DEF TxAdd
    <3>2. m.conn = ConnOf(t) /\ m.flags = tx[t].flags /\ m.ack = rcv_nxt[ConnOf(t)]
      BY <3>1, Zenon DEF Packet
    <3>3. Acking(t)
      BY <2>1, <2>2, <3>2, Zenon DEF Acking
    <3>. QED
      BY <2>1, <3>2, <3>3, Zenon DEF WillAck
  <2>. QED
    BY <2>2, Zenon DEF NewAcks
<1>. QED
  BY <1>1, <1>2, Zenon DEF Tx, TxLock, rtxVars

\* The bytes taken are counted by a natural number.
LEMMA TakenType == ASSUME StreamInv, NEW c \in Conns PROVE Taken(c) \in Nat
<1>1. read[c] \in Nat /\ rcv_buff_len[c] \in 0..TCP_RCV_MAX
  BY DEF StreamInv, ControlInv, TypeInv, TypeOK
<1>. QED
  BY <1>1, SizeAssumption DEF Taken

\* A step that leaves the receiving side alone moves no edge.
LEMMA SameExtent ==
    ASSUME StreamInv, UNCHANGED rcvVars
    PROVE  Grows /\ \A c \in Conns : rcv_nxt'[c] = rcv_nxt[c]
<1>1. \A c \in Conns : Taken(c)' = Taken(c) /\ Taken(c) \in Nat
  BY SameBytes, TakenType
<1>. QED
  BY <1>1 DEF Grows, rcvVars

\* The calls of tcp_tx after a step of application a.
LEMMA AppCalls ==
    ASSUME NEW a \in Apps, OthersKept(a),
           Acking(a)' => Acking(a) \/ Open(AppConn[a]) \/ Open(AppConn[a])'
    PROVE  NewCalls
<1>0. RX \notin Apps /\ Senders \subseteq Threads
  BY ThreadsDistinct DEF Senders, Threads
<1>1. \A t \in Apps : ConnOf(t) = AppConn[t] /\ ConnOf(t)' = AppConn[t]
  BY <1>0, Zenon DEF ConnOf
<1>2. ASSUME NEW t \in Senders, t # a, Acking(t)' PROVE Acking(t) /\ ConnOf(t)' = ConnOf(t)
  BY <1>0, <1>2 DEF OthersKept, Acking, InTx, ConnOf
<1>3. ASSUME Acking(a)'
      PROVE  (Acking(a) /\ ConnOf(a)' = ConnOf(a)) \/ Open(ConnOf(a)') \/ Open(ConnOf(a))'
  BY <1>1, <1>3, Zenon DEF Open
<1>. QED
  BY <1>2, <1>3, Zenon DEF NewCalls

\* The socket calls: connect sends a SYN; send and close call tcp_tx from
\* ESTABLISHED.
LEMMA AppAcks ==
    ASSUME StreamInv, StreamInv', AckInv, NEW a \in Apps, AppFrame(a), App(a) \/ SpuriousWakeup(a)
    PROVE  AckInv'
<1>. DEFINE c == AppConn[a]
<1>0. /\ tx \in [Senders -> TxCalls] /\ pc \in [Threads -> Labels] /\ a \in Threads /\ a \in Senders
      /\ TypeOK /\ LeavesTx /\ OthersKept(a) /\ c \in Conns /\ state \in [Conns -> States]
  BY EnvAssumption DEF StreamInv, ControlInv, TypeInv, TypeOK, Senders, Threads, AckInv, AppFrame
<1>1. Grows /\ \A d \in Conns : rcv_nxt'[d] = rcv_nxt[d]
  <2>1. CASE UNCHANGED rcvVars
    BY <2>1, SameExtent
  <2>2. CASE ReadBytes(a)
    <3>1. \A d \in Conns : Taken(d)' = Taken(d)
      BY <2>2, ReadBytesStream
    <3>2. \A d \in Conns : Taken(d) \in Nat
      BY TakenType
    <3>3. UNCHANGED <<rcv_nxt, fin_rcvd>>
      BY <2>2 DEF ReadBytes
    <3>. QED
      BY <3>1, <3>2, <3>3 DEF Grows
  <2>. QED
    BY <2>1, <2>2, Zenon DEF App, Connect, ConnectSent, ConnectWoken, Send, Tx, TxLock, TxAdd, Recv,
       RecvLock, RecvWoken, Close, CloseLock, CloseSent, CloseWoken, SpuriousWakeup, tcbVars
<1>2. CASE Tx(a)
  <2>1. TxMoves /\ InTx(a) /\ (InTx(a)' => tx'[a].flags = tx[a].flags)
    BY <1>0, <1>2, TxCall
  <2>2. Acking(a)' => Acking(a)
    BY <2>1, Zenon DEF Acking
  <2>3. NewCalls /\ NewAcks
    BY <1>0, <1>2, <2>2, AppCalls, TxAcks
  <2>. QED
    BY <1>1, <2>1, <2>3, AckStep
<1>3. CASE ~Tx(a)
  <2>1. UNCHANGED messages_array
    BY <1>3, Zenon DEF App, Connect, ConnectSent, ConnectWoken, Send, Recv,
       RecvLock, RecvWoken, Close, CloseLock, CloseSent, CloseWoken, SpuriousWakeup, rtxVars
  <2>2. NewAcks
    BY <2>1, Zenon DEF NewAcks
  <2>3. CASE Connect(a)
    <3>1. CallTx(a, "SYN", 0, RETRIES_CONN_MAX, "connect_sent")
      BY <2>3 DEF Connect
    <3>2. tx'[a].flags = "SYN"
      BY <1>0, <3>1 DEF CallTx
    <3>3. RETRIES_CONN_MAX \in Int /\ "connect_sent" \in Labels \ TxLabels
      BY SizeAssumption DEF Labels, AppLabels, TxLabels
    <3>4. TxMoves
      BY <1>0, <3>1, <3>3, CallMoves
    <3>5. NewCalls
      BY <1>0, <3>2, AppCalls, Zenon DEF Acking
    <3>. QED
      BY <1>1, <2>2, <3>4, <3>5, AckStep
  <2>4. CASE Send(a) /\ ~UNCHANGED <<tx, pc>>
    <3>1. CallTx(a, "ACK", Head(prog[a]).n, DataRetries, "idle") /\ state[c] = "ESTABLISHED"
      BY <2>4, Zenon DEF Send
    <3>2. Head(prog[a]).n \in Nat
      BY <2>4, CallingType DEF Send, StreamInv, ControlInv, TypeInv
    <3>3. DataRetries \in Int /\ "idle" \in Labels \ TxLabels
      BY DEF Labels, AppLabels, TxLabels, DataRetries, RETRIES_INFINITE
    <3>4. TxMoves
      BY <1>0, <3>1, <3>2, <3>3, CallMoves
    <3>5. NewCalls
      BY <1>0, <3>1, AppCalls DEF Open
    <3>. QED
      BY <1>1, <2>2, <3>4, <3>5, AckStep
  <2>5. CASE CloseLock(a) /\ state[c] = "ESTABLISHED"
    <3>1. CallTx(a, "FINACK", 0, RETRIES_SENDONCE, "close_sent")
      BY <2>5, Zenon DEF CloseLock
    <3>2. RETRIES_SENDONCE \in Int /\ "close_sent" \in Labels \ TxLabels
      BY DEF Labels, AppLabels, TxLabels, RETRIES_SENDONCE
    <3>3. TxMoves
      BY <1>0, <3>1, <3>2, CallMoves
    <3>4. NewCalls
      BY <1>0, <2>5, AppCalls DEF Open
    <3>. QED
      BY <1>1, <2>2, <3>3, <3>4, AckStep
  <2>6. CASE Recv(a) \/ RecvLock(a) \/ RecvWoken(a)
    <3>1. \/ UNCHANGED <<tx, pc>>
          \/ UNCHANGED tx /\ Goto(a, "recv_wait")
          \/ tx' = [tx EXCEPT ![a] = NoTx] /\ Goto(a, "idle")
          \/ Goto(a, "recv_lock") /\ Recv(a) /\ tx' = [tx EXCEPT ![a] = [NoTx EXCEPT !.size = Head(prog[a]).n]]
      BY <2>6, Zenon DEF Recv, RecvLock, RecvWoken, ReadBytes
    <3>2. Recv(a) => Head(prog[a]).n \in Nat
      BY CallingType DEF Recv, StreamInv, ControlInv, TypeInv
    <3>3. TxMoves
      BY <1>0, <3>1, <3>2, NoTxMoves, RestMoves, Zenon DEF TxMoves
    <3>4. Acking(a)' => Acking(a)
      BY <1>0, <3>1 DEF Acking, InTx, Goto
    <3>5. NewCalls
      BY <1>0, <3>4, AppCalls
    <3>. QED
      BY <1>1, <2>2, <3>3, <3>5, AckStep
  <2>7. CASE /\ UNCHANGED tx
             /\ \/ UNCHANGED pc
                \/ \E l \in Labels \ TxLabels : Goto(a, l)
                \/ SpuriousWakeup(a)
    <3>1. Acking(a)' => Acking(a)
      <4>1. CASE UNCHANGED pc
        BY <2>7, <4>1 DEF Acking, InTx
      <4>2. CASE \E l \in Labels \ TxLabels : Goto(a, l)
        BY <1>0, <4>2 DEF Acking, InTx, Goto, TxLabels
      <4>3. CASE SpuriousWakeup(a)
        BY <1>0, <2>7, <4>3 DEF SpuriousWakeup, Acking, InTx, Goto, Woken
      <4>. QED
        BY <2>7, <4>1, <4>2, <4>3
    <3>2. NewCalls /\ TxMoves
      BY <1>0, <2>7, <3>1, AppCalls DEF TxMoves
    <3>. QED
      BY <1>1, <2>2, <3>2, AckStep
  <2>8. {"connect_wait", "idle", "close_lock", "close_wait"} \subseteq Labels \ TxLabels
    BY DEF Labels, AppLabels, TxLabels
  <2>9. ConnectSent(a) \/ ConnectWoken(a) \/ CloseSent(a) \/ CloseWoken(a) \/ Close(a) =>
            UNCHANGED tx /\ (UNCHANGED pc \/ \E l \in Labels \ TxLabels : Goto(a, l))
    BY <2>8 DEF ConnectSent, ConnectWoken, CloseSent, CloseWoken, Close
  <2>10. SpuriousWakeup(a) => UNCHANGED tx
    BY DEF SpuriousWakeup
  <2>11. CloseLock(a) /\ state[c] # "ESTABLISHED" => UNCHANGED tx /\ \E l \in Labels \ TxLabels : Goto(a, l)
    BY <2>8 DEF CloseLock
  <2>. QED
    BY <1>3, <2>3, <2>4, <2>5, <2>6, <2>7, <2>9, <2>10, <2>11, Zenon DEF App
<1>. QED
  BY <1>2, <1>3

\* The calls of tcp_tx after a step of tcp_rx or of a timer thread.
LEMMA RxCalls ==
    ASSUME AppsKept, pc'[RX] # "idle" => seg' = seg,
           Acking(RX)' => Acking(RX) \/ Open(seg.conn)'
    PROVE  NewCalls
<1>0. RX \notin Apps
  BY ThreadsDistinct
<1>1. ASSUME NEW t \in Apps, Acking(t)' PROVE Acking(t) /\ ConnOf(t)' = ConnOf(t)
  <2>1. ConnOf(t) = AppConn[t] /\ ConnOf(t)' = AppConn[t]
    BY <1>0, Zenon DEF ConnOf
  <2>. QED
    BY <1>1, <2>1, Zenon DEF AppsKept, Acking
<1>2. ASSUME Acking(RX)'
      PROVE  (Acking(RX) /\ ConnOf(RX)' = ConnOf(RX)) \/ Open(ConnOf(RX))'
  <2>1. seg' = seg
    BY <1>2 DEF Acking, InTx
  <2>2. ConnOf(RX) = seg.conn /\ ConnOf(RX)' = seg.conn
    BY <2>1, Zenon DEF ConnOf
  <2>. QED
    BY <1>2, <2>1, <2>2, Zenon DEF Open
<1>. QED
  BY <1>1, <1>2, Zenon DEF NewCalls, Senders

\* A timer thread leaves the receiving side and tcp_tx alone.
LEMMA ElsewhereAcks ==
    ASSUME StreamInv, StreamInv', AckInv, UNCHANGED <<rcvVars, tx>>, NewAcks, AppsKept,
           \/ UNCHANGED seg /\ pc'[RX] = pc[RX]
           \/ pc'[RX] \in {"idle", "rx_tcb"}
    PROVE  AckInv'
<1>0. RX \notin Apps /\ TxMoves
  BY ThreadsDistinct, Zenon DEF TxMoves
<1>1. Grows /\ \A c \in Conns : rcv_nxt'[c] = rcv_nxt[c]
  BY SameExtent
<1>2. NewCalls
  <2>1. CASE UNCHANGED seg /\ pc'[RX] = pc[RX]
    <3>1. Acking(RX)' => Acking(RX)
      BY <2>1, Zenon DEF Acking, InTx
    <3>. QED
      BY <2>1, <3>1, RxCalls
  <2>2. CASE pc'[RX] \in {"idle", "rx_tcb"}
    <3>1. ASSUME NEW t \in Senders, Acking(t)' PROVE Acking(t) /\ ConnOf(t)' = ConnOf(t)
      <4>1. t \in Apps
        BY <2>2, <3>1 DEF Senders, Acking, InTx
      <4>2. ConnOf(t) = AppConn[t] /\ ConnOf(t)' = AppConn[t]
        BY <1>0, <4>1, Zenon DEF ConnOf
      <4>. QED
        BY <3>1, <4>1, <4>2, Zenon DEF AppsKept, Acking
    <3>. QED
      BY <3>1, Zenon DEF NewCalls
  <2>. QED
    BY <2>1, <2>2
<1>. QED
  BY <1>0, <1>1, <1>2, AckStep

\* A step of tcp_rx that leaves rcv_nxt alone and calls tcp_tx in an open
\* connection only.
LEMMA RxQuietAcks ==
    ASSUME StreamInv, StreamInv', AckInv, RxFrame, UNCHANGED rcvVars, NewAcks, TxMoves,
           Acking(RX)' => Acking(RX) \/ Open(seg.conn)'
    PROVE  AckInv'
<1>1. Grows /\ \A c \in Conns : rcv_nxt'[c] = rcv_nxt[c]
  BY SameExtent
<1>2. NewCalls
  BY RxCalls DEF RxFrame
<1>. QED
  BY <1>1, <1>2, AckStep

\* The steps of tcp_rx that neither call tcp_tx nor move rcv_nxt.
LEMMA RxPassingAcks ==
    ASSUME StreamInv, StreamInv', AckInv, RxFrame,
           \/ RxLockTcb \/ RxLockSend \/ RxDrop \/ RxEstablished \/ RxOpened \/ RxAckEstablished
           \/ RxAckFinWait1 \/ RxOutOfOrder \/ RxWake \/ RxNoText \/ RxDone
    PROVE  AckInv'
<1>. DEFINE L == {"rx_send", "rx_state", "idle", "rx_done", "rx_text", "rx_fin"}
<1>0. /\ RX \in Threads /\ RX \notin Apps /\ RX \notin Conns /\ pc \in [Threads -> Labels] /\ TypeOK
      /\ L \subseteq Labels /\ pc[RX] # "idle" /\ seg.conn # RX
  <2>1. pc[RX] # "idle"
    BY DEF RxLockTcb, RxLockSend, RxDrop, RxEstablished, RxOpened, RxAckEstablished, RxAckFinWait1,
       RxOutOfOrder, RxWake, RxNoText, RxDone, RxAt
  <2>2. /\ RX \in Threads /\ RX \notin Apps /\ RX \notin Conns /\ pc \in [Threads -> Labels] /\ TypeOK
        /\ L \subseteq Labels
    BY ThreadsDistinct DEF StreamInv, ControlInv, TypeInv, TypeOK, Threads, Labels, RxLabels
  <2>. QED
    BY <2>1, <2>2 DEF StreamInv, ControlInv, TypeInv, SegOK
<1>1. UNCHANGED <<rcvVars, tx>>
  BY Zenon DEF RxLockTcb, RxLockSend, RxDrop, RxEstablished, RxOpened, RxAckEstablished,
     RxAckFinWait1, RxOutOfOrder, RxWake, RxNoText, RxDone, tcbVars
<1>2. pc'[RX] \in L
  <2>1. CASE RxDone
    BY <1>0, <2>1 DEF RxDone
  <2>2. CASE \E l \in L : Goto(RX, l)
    BY <1>0, <2>2 DEF Goto
  <2>3. CASE \E l \in L, W \in SUBSET Apps : GotoSignalling(RX, l, W)
    <3>1. PICK l \in L, W \in SUBSET Apps : GotoSignalling(RX, l, W)
      BY <2>3
    <3>2. l \in Labels /\ W \subseteq Apps
      BY <1>0
    <3>3. pc'[RX] = l
      BY <1>0, <3>1, <3>2, SignalType, Zenon
    <3>. QED
      BY <3>3
  <2>4. \A c : TcbWaiters(c) \in SUBSET Apps /\ SendWaiters(c) \in SUBSET Apps /\ {} \in SUBSET Apps
    BY WaitersType
  <2>5. RxWake => \E l \in L, W \in SUBSET Apps : GotoSignalling(RX, l, W)
    BY <2>4, Zenon DEF RxWake
  <2>6. RxEstablished \/ RxOpened \/ RxAckEstablished =>
            \E l \in L, W \in SUBSET Apps : GotoSignalling(RX, l, W)
    BY <2>4, Zenon DEF RxEstablished, RxOpened, RxAckEstablished, WakesSenders
  <2>7. RxLockTcb \/ RxLockSend \/ RxDrop \/ RxAckFinWait1 \/ RxOutOfOrder \/ RxNoText =>
            \E l \in L : Goto(RX, l)
    BY Zenon DEF RxLockTcb, RxLockSend, RxDrop, RxAckFinWait1, RxOutOfOrder, RxNoText
  <2>. QED
    BY <2>1, <2>2, <2>3, <2>5, <2>6, <2>7, Zenon
<1>3. NewAcks /\ TxMoves
  <2>1. CASE UNCHANGED messages_array
    BY <1>1, <2>1, Zenon DEF NewAcks, TxMoves
  <2>2. CASE RxAckEstablished
    <3>1. UNCHANGED messages_array \/ messages_array' = StopRetransmit(seg.conn, seg.ack)
      BY <2>2, Zenon DEF RxAckEstablished
    <3>2. CASE messages_array' = StopRetransmit(seg.conn, seg.ack)
      BY <1>0, <1>1, <3>2, StopAcks DEF TxMoves
    <3>. QED
      BY <2>1, <3>1, <3>2
  <2>3. RxAckEstablished \/ UNCHANGED messages_array
    BY Zenon DEF RxLockTcb, RxLockSend, RxDrop, RxEstablished, RxOpened, RxAckFinWait1, RxOutOfOrder,
       RxWake, RxNoText, RxDone, rtxVars
  <2>. QED
    BY <2>1, <2>2, <2>3
<1>4. ~Acking(RX)'
  BY <1>2 DEF Acking, InTx
<1>. QED
  BY <1>1, <1>3, <1>4, RxQuietAcks

\* What tcp_rx has tcp_tx send, it sends in an open connection.
LEMMA RxCallsAcks ==
    ASSUME StreamInv, StreamInv', AckInv, RxFrame, RxSynSent \/ RxSynReceived \/ RxText \/ RxFin
    PROVE  AckInv'
<1>0. pc[RX] # "idle" /\ RX \in Senders
  BY DEF RxSynSent, RxSynReceived, RxText, RxFin, RxAt, Senders
<1>. PICK c \in Conns : c = seg.conn
  BY <1>0 DEF StreamInv, ControlInv, TypeInv, SegOK
<1>1. /\ state \in [Conns -> States] /\ rcv_nxt \in [Conns -> 0..SeqSpace - 1] /\ TypeOK
      /\ fin_rcvd \in [Conns -> BOOLEAN] /\ rcv_buff_len \in [Conns -> 0..TCP_RCV_MAX]
  BY DEF StreamInv, ControlInv, TypeInv, TypeOK
<1>2. RxText \/ RxFin => state[c] \in {"ESTABLISHED", "FIN_WAIT_2"}
  BY DEF RxText, RxFin, RxAt, StreamInv, Received, TextInv, RxInText
<1>3. Open(c)'
  <2>1. CASE RxSynSent \/ RxSynReceived
    <3>1. PICK s \in {"ESTABLISHED", "SYN_RECEIVED"} : state' = [state EXCEPT ![c] = s]
      BY <2>1, Zenon DEF RxSynSent, RxSynReceived
    <3>2. state'[c] = s
      BY <1>1, <3>1
    <3>. QED
      BY <3>2 DEF Open
  <2>2. CASE RxText \/ RxFin
    <3>1. UNCHANGED state \/ state' = [state EXCEPT ![c] = "TIME_WAIT"]
      BY <2>2, Zenon DEF RxText, RxFin
    <3>2. state'[c] \in {"ESTABLISHED", "FIN_WAIT_2", "TIME_WAIT"}
      BY <1>1, <1>2, <2>2, <3>1
    <3>. QED
      BY <3>2 DEF Open
  <2>. QED
    BY <2>1, <2>2
<1>4. \A d \in Conns : rcv_nxt'[d] = rcv_nxt[d] \/ Open(d)'
  <2>1. UNCHANGED rcv_nxt \/ \E x : rcv_nxt' = [rcv_nxt EXCEPT ![c] = x]
    BY Zenon DEF RxSynSent, RxSynReceived, RxText, RxFin, rcvVars
  <2>2. \A d \in Conns : d # c => rcv_nxt'[d] = rcv_nxt[d]
    BY <1>1, <2>1, Zenon
  <2>. QED
    BY <1>3, <2>2, Zenon
<1>5. Grows
  <2>0. \A d \in Conns : Taken(d) \in Nat
    BY TakenType
  <2>1. CASE UNCHANGED <<rcv_buff_len, read, fin_rcvd>>
    <3>1. \A d \in Conns : Taken(d)' = Taken(d)
      BY <2>1, Zenon DEF Taken
    <3>. QED
      BY <2>0, <2>1, <3>1 DEF Grows
  <2>2. CASE RxFin
    <3>1. UNCHANGED <<rcv_buff_len, read>> /\ fin_rcvd' = [fin_rcvd EXCEPT ![c] = TRUE]
      BY <2>2, Zenon DEF RxFin
    <3>2. \A d \in Conns : fin_rcvd[d] => fin_rcvd'[d]
      BY <1>1, <3>1, Zenon
    <3>3. \A d \in Conns : Taken(d)' = Taken(d)
      BY <3>1, Zenon DEF Taken
    <3>. QED
      BY <2>0, <3>2, <3>3 DEF Grows
  <2>3. CASE RxText
    <3>1. /\ UNCHANGED <<read, fin_rcvd>>
          /\ rcv_buff_len' = [rcv_buff_len EXCEPT ![c] = @ + Stored(c)]
      BY <2>3 DEF RxText
    <3>2. Stored(c) \in Nat
      BY <2>3, InOrderText DEF RxText, RxAt
    <3>3. read[c] \in Nat /\ rcv_buff_len[c] \in Nat
      BY <1>1, SizeAssumption DEF TypeOK
    <3>4. Taken(c)' = read[c] + (rcv_buff_len[c] + Stored(c))
      BY <1>1, <3>1, Zenon DEF Taken
    <3>5. Taken(c)' >= Taken(c)
      BY <3>2, <3>3, <3>4 DEF Taken
    <3>6. \A d \in Conns : d # c => Taken(d)' = Taken(d)
      BY <1>1, <3>1, Zenon DEF Taken
    <3>. QED
      BY <2>0, <3>1, <3>5, <3>6 DEF Grows
  <2>4. RxSynSent \/ RxSynReceived => UNCHANGED <<rcv_buff_len, read, fin_rcvd>>
    BY DEF RxSynSent, RxSynReceived, rcvVars
  <2>. QED
    BY <2>1, <2>2, <2>3, <2>4
<1>6. NewAcks
  <2>1. CASE UNCHANGED messages_array
    BY <2>1, Zenon DEF NewAcks
  <2>2. UNCHANGED messages_array \/ \E una : messages_array' = StopRetransmit(c, una)
    BY Zenon DEF RxSynSent, RxSynReceived, RxText, RxFin, rtxVars
  <2>. QED
    BY <1>1, <2>1, <2>2, StopAcks
<1>7. TxMoves
  <2>1. /\ {"ACK", "SYNACK"} \subseteq {"SYN", "SYNACK", "ACK", "FINACK"} /\ 0 \in Nat
        /\ {RETRIES_SENDONCE, RETRIES_CONN_MAX} \subseteq Int
        /\ {"rx_established", "rx_done", "rx_opened", "rx_wake", "rx_time_wait"} \subseteq Labels \ TxLabels
    BY SizeAssumption DEF RETRIES_SENDONCE, Labels, RxLabels, TxLabels
  <2>2. \/ UNCHANGED tx
        \/ \E f \in {"SYN", "SYNACK", "ACK", "FINACK"}, r \in Int, l \in Labels \ TxLabels :
              CallTx(RX, f, 0, r, l)
    BY <2>1, Zenon DEF RxSynSent, RxSynReceived, RxText, RxFin
  <2>. QED
    BY <1>0, <2>1, <2>2, CallMoves, Zenon DEF TxMoves
<1>8. NewCalls
  <2>1. ASSUME Acking(RX)' PROVE Open(seg.conn)'
    <3>1. seg' = seg
      BY <2>1 DEF RxFrame, Acking, InTx
    <3>. QED
      BY <1>3, <3>1, Zenon DEF Open
  <2>. QED
    BY <2>1, RxCalls, Zenon DEF RxFrame
<1>. QED
  BY <1>4, <1>5, <1>6, <1>7, <1>8, AckStep

\* tcp_tx, called by tcp_rx.
LEMMA RxTxAcks ==
    ASSUME StreamInv, StreamInv', AckInv, RxFrame, Tx(RX)
    PROVE  AckInv'
<1>0. RX \in Senders /\ TypeOK /\ LeavesTx
  BY DEF Senders, StreamInv, ControlInv, TypeInv, AckInv
<1>1. TxMoves /\ InTx(RX) /\ (InTx(RX)' => tx'[RX].flags = tx[RX].flags)
  BY <1>0, TxCall
<1>2. Acking(RX)' => Acking(RX)
  BY <1>1, Zenon DEF Acking
<1>3. UNCHANGED rcvVars
  BY Zenon DEF Tx, TxLock, TxAdd, tcbVars
<1>4. NewAcks
  BY <1>0, TxAcks
<1>. QED
  BY <1>1, <1>2, <1>3, <1>4, RxQuietAcks

\* Every step acknowledges stored bytes only.
LEMMA NextAcks ==
    ASSUME StreamInv, StreamInv', AckInv, [Next]_vars, "corrupts" \notin Env
    PROVE  AckInv'
<1>0. ControlInv /\ TypeOK /\ RX \in Threads /\ pc \in [Threads -> Labels]
  BY DEF StreamInv, ControlInv, TypeInv, TypeOK, Threads
<1>1. CASE \E a \in Apps : App(a) \/ SpuriousWakeup(a)
  <2>1. PICK a \in Apps : App(a) \/ SpuriousWakeup(a)
    BY <1>1
  <2>2. AppFrame(a)
    BY <1>0, <2>1, AppConnects, AppTransfers, AppCloses, AppWaits, Zenon DEF App
  <2>. QED
    BY <2>1, <2>2, AppAcks
<1>2. CASE Arrival
  <2>1. PICK c \in Conns : RxSegment(c)
    BY <1>2, Zenon DEF Arrival, RxBadSegment
  <2>2. AppsKept
    BY <1>0, <2>1, ArrivalControl
  <2>3. UNCHANGED <<rcvVars, tx, messages_array>> /\ pc[RX] = "idle"
    BY <2>1 DEF RxSegment, tcbVars, rtxVars, RxAt
  <2>4. UNCHANGED pc \/ Goto(RX, "rx_tcb")
    BY <2>1, Zenon DEF RxSegment
  <2>5. pc'[RX] \in {"idle", "rx_tcb"}
    BY <1>0, <2>3, <2>4 DEF Goto
  <2>6. NewAcks
    BY <2>3, Zenon DEF NewAcks
  <2>. QED
    BY <2>2, <2>3, <2>5, <2>6, ElsewhereAcks
<1>3. CASE RxStep
  <2>1. RxFrame
    BY <1>0, <1>3, RxHolds, RxTakes, Zenon DEF RxStep
  <2>. QED
    BY <1>3, <2>1, RxPassingAcks, RxCallsAcks, RxTxAcks, Zenon DEF RxStep
<1>4. CASE UNCHANGED vars \/ \E h : RxArpReply(h)
  <2>1. UNCHANGED <<rcvVars, messages_array, seg, tx, pc>>
    BY <1>4, Zenon DEF vars, RxArpReply, tcbVars, rtxVars, thrVars
  <2>2. AppsKept /\ pc'[RX] = pc[RX]
    BY <2>1 DEF AppsKept, Connecting, Closing, InTx
  <2>3. NewAcks
    BY <2>1, Zenon DEF NewAcks
  <2>. QED
    BY <2>1, <2>2, <2>3, ElsewhereAcks
<1>5. CASE \E c \in Conns : TimeWait(c)
  <2>1. PICK c \in Conns : TimeWait(c)
    BY <1>5
  <2>2. AppsKept /\ UNCHANGED <<tx, seg>> /\ pc'[RX] = pc[RX]
    BY <1>0, <2>1, TimeWaitControl
  <2>3. UNCHANGED rcvVars
    BY <2>1, Zenon DEF TimeWait, CloseConnectionLock, CloseConnection, tcbVars
  <2>4. UNCHANGED messages_array \/ messages_array' = StopRetransmit(c, snd_una[c])
    BY <2>1, Zenon DEF TimeWait, CloseConnectionLock, CloseConnection, rtxVars
  <2>5. NewAcks
    <3>1. CASE UNCHANGED messages_array
      BY <3>1, Zenon DEF NewAcks
    <3>. QED
      BY <1>0, <2>4, <3>1, StopAcks
  <2>. QED
    BY <2>2, <2>3, <2>5, ElsewhereAcks
<1>6. CASE Rtx
  <2>1. RX \in Threads \ Apps /\ RX # RTX
    BY ThreadsDistinct DEF Threads
  <2>2. AppsKept /\ UNCHANGED <<rcvVars, seg, tx>> /\ pc'[RX] = pc[RX]
    BY <1>0, <1>6, <2>1, RtxControl
  <2>. QED
    BY <1>0, <1>6, <2>2, RtxAcks, ElsewhereAcks
<1>. QED
  BY <1>1, <1>2, <1>3, <1>4, <1>5, <1>6, Zenon DEF Next

\* Nothing is acknowledged at the start.
LEMMA InitAcks == ASSUME Init PROVE AckInv
<1>0. Senders \subseteq Threads
  BY DEF Senders, Threads
<1>1. messages_array = {} /\ \A c \in Conns : ~Open(c)
  BY DEF Init, Open
<1>2. \A t \in Senders : ~Acking(t)
  BY <1>0 DEF Init, Acking, InTx
<1>3. LeavesTx
  BY DEF Init, LeavesTx, NoTx, TxLabels
<1>4. AckedIsStored /\ AckBound
  BY <1>1, <1>2, Zenon DEF AckedIsStored, AckBound, WillAck
<1>. QED
  BY <1>3, <1>4 DEF AckInv

\* The stack acknowledges a byte of the peer only when it is in the receive
\* buffer or has been handed to the application: no entry of messages_array,
\* however late it is sent or sent again, acknowledges more than
\* save_data_and_ack has stored and tcp_rx has counted.
THEOREM AcknowledgedIsStored ==
    ASSUME "corrupts" \notin Env PROVE Spec => []AckedIsStored
<1>1. Init => AckInv
  BY InitAcks
<1>2. StreamInv /\ StreamInv' /\ AckInv /\ [Next]_vars => AckInv'
  BY NextAcks
<1>3. AckInv => AckedIsStored
  BY DEF AckInv
<1>. QED
  BY <1>1, <1>2, <1>3, StreamInvariant, PTL DEF Spec
=============================================================================
