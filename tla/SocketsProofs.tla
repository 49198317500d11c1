---------------------------- MODULE SocketsProofs ----------------------------
(***************************************************************************)
(* The properties of the socket table for any number of threads, sockets,  *)
(* descriptors and ports: what holds whatever races the unlocked list is   *)
(* exposed to (a call finds its own socket, a segment its own connection), *)
(* and what holds as long as no two appends have overlapped.               *)
(***************************************************************************)
EXTENDS MCSockets, ListWalks, FiniteSetTheorems, WellFoundedInduction

\* First-order reasoning about a state and its successor: Zenon is the prover
\* of a leaf, except of those with arithmetic or records, which name SMT.
USE Zenon

Types ==
    /\ nxt \in [Nodes -> Nodes] /\ last \in Nodes /\ tail \in [Threads -> Nodes]
    /\ item \in [Walkers -> Nodes] /\ tmp \in [Walkers -> Nodes]
    /\ pc \in [Walkers -> Labels] /\ call \in [Threads -> {"connect", "send", "recv", "close"}]
    /\ fd_in_use \subseteq 1..FdCount /\ fd \in [Socks -> 0..FdCount]
    /\ tests \in [Threads -> Nat] /\ \A t \in Threads : tests[t] \in 1..Tests[t]

\* A descriptor a socket has is taken, and no other socket has it.
DescInv ==
    /\ \A s \in Socks : fd[s] # 0 => fd[s] \in fd_in_use
    /\ \A r, s \in Socks : fd[r] = fd[s] /\ fd[s] # 0 => r = s

\* A thread looks for a descriptor it has.
LookInv == \A t \in Threads : pc[t] \in {"first", "walk"} => fd[Sock(t)] # 0

\* The labels of a call that works on the socket the lookup found.
Found == {"connect", "port", "syn", "connect_wait", "send", "recv", "close", "close_wait",
          "close_clear"}

\* OwnSocket is not inductive: it rests on descriptors being distinct.
OwnInv == Types /\ DescInv /\ LookInv /\ OwnSocket

-----------------------------------------------------------------------------
(* What the steps share.                                                   *)

\* A thread's socket is a socket.
LEMMA SockType == ASSUME Types, NEW t \in Threads PROVE Sock(t) \in Socks /\ Sock(t) \in Nodes
<1>1. <<t, tests[t]>> \in {t} \X (1..Tests[t])
  BY DEF Types
<1>. QED
  BY <1>1 DEF Sock, Socks, Nodes

\* A step of thread t that leaves its socket and the descriptors alone.
OnlyMoves(t) ==
    /\ UNCHANGED <<fds, tests>>
    /\ \A u \in Threads \ {t} : pc'[u] = pc[u] /\ item'[u] = item[u]

\* Then it matters only where t goes, and with which socket.
LEMMA MovesKeep ==
    ASSUME OwnInv, Types', NEW t \in Threads, OnlyMoves(t),
           pc'[t] \in {"first", "walk"} => fd[Sock(t)] # 0,
           pc'[t] \in Found => item'[t] = Sock(t)
    PROVE  OwnInv'
<1>0. UNCHANGED <<fd, fd_in_use, tests>>
  BY DEF OnlyMoves, fds
<1>1. DescInv'
  BY <1>0 DEF OwnInv, DescInv
<1>2. \A u \in Threads : Sock(u)' = Sock(u)
  BY <1>0 DEF Sock
<1>3. LookInv'
  BY <1>0, <1>2 DEF OwnInv, LookInv, OnlyMoves
<1>4. OwnSocket'
  BY <1>2 DEF OwnInv, OwnSocket, OnlyMoves, Found
<1>. QED
  BY <1>1, <1>3, <1>4 DEF OwnInv

\* A set of numbers has a least one.
LEMMA LeastNumber ==
    ASSUME NEW S \in SUBSET Nat, S # {}
    PROVE  \E i \in S : \A j \in S : i <= j
<1>. DEFINE R == OpToRel(<, Nat)
<1>1. \E i \in S : \A j \in S : ~(<<j, i>> \in R)
  BY WFMin, NatLessThanWellFounded
<1>2. \A i, j \in Nat : <<j, i>> \notin R => i <= j
  BY SMT DEF OpToRel
<1>. HIDE DEF R
<1>. QED
  BY <1>1, <1>2

\* The end of run_test.
LEMMA EndsMoves ==
    ASSUME OwnInv, NEW t \in Threads, NEW e, Ends(t, e)
    PROVE  /\ UNCHANGED tests /\ pc'[t] = "done" /\ pc' \in [Walkers -> Labels]
           /\ \A u \in Walkers \ {t} : pc'[u] = pc[u]
BY DEF Ends, Goto, OwnInv, Types, Walkers, Labels

-----------------------------------------------------------------------------
(* socket.                                                                 *)

\* get_next_fd takes a descriptor nobody has.
LEMMA SocketOwn == ASSUME OwnInv, NEW t \in Threads, Socket(t) PROVE OwnInv'
<1>. DEFINE s == Sock(t)
            low == CHOOSE i \in FreeFd : \A j \in FreeFd : i <= j
<1>0. /\ Types /\ s \in Socks /\ s \in Nodes /\ t \in Walkers /\ FdCount \in Nat
      /\ pc[t] = "socket" /\ UNCHANGED <<call, tail, item, tmp>>
  BY SockType, SocketsAssumption DEF OwnInv, Walkers, Socket, At
<1>1. CASE FreeFd = {}
  <2>1. Ends(t, "EMFILE") /\ UNCHANGED <<nxt, last, fd_in_use, fd>>
    BY <1>1 DEF Socket, list, fds
  <2>2. /\ UNCHANGED tests /\ pc'[t] = "done" /\ pc' \in [Walkers -> Labels]
        /\ \A u \in Walkers \ {t} : pc'[u] = pc[u]
    BY <2>1, EndsMoves
  <2>3. Types'
    BY <1>0, <2>1, <2>2 DEF Types
  <2>. QED
    BY <1>0, <2>1, <2>2, <2>3, MovesKeep DEF OnlyMoves, fds, Walkers, Found
<1>2. CASE FreeFd # {}
  <2>1. /\ fd_in_use' = fd_in_use \cup {low} /\ fd' = [fd EXCEPT ![s] = low]
        /\ nxt' = [nxt EXCEPT ![s] = s] /\ pc' = [pc EXCEPT ![t] = "add"]
        /\ UNCHANGED <<last, tests>>
    BY <1>2 DEF Socket, Goto, locals
  <2>2. low \in FreeFd
    <3>1. \E i \in FreeFd : \A j \in FreeFd : i <= j
      <4>1. FreeFd \subseteq Nat
        BY SMT DEF FreeFd
      <4>. QED
        BY <4>1, <1>2, LeastNumber
    <3>. QED
      BY <3>1
  <2>. HIDE DEF low
  <2>3. low \in 1..FdCount /\ low \notin fd_in_use /\ low # 0
    BY <1>0, <2>2, SMT DEF FreeFd
  <2>4. Types'
    BY <1>0, <2>1, <2>3, SMT DEF Types, Labels
  <2>5. \A r \in Socks : fd'[r] = IF r = s THEN low ELSE fd[r]
    BY <1>0, <2>1 DEF Types
  <2>6. DescInv'
    BY <2>1, <2>3, <2>5, SMT DEF OwnInv, DescInv
  <2>7. \A u \in Threads : Sock(u)' = Sock(u) /\ Sock(u) \in Socks
    BY <1>0, <2>1, SockType DEF Sock
  <2>8. pc'[t] = "add" /\ \A u \in Threads \ {t} : pc'[u] = pc[u]
    BY <1>0, <2>1 DEF Types, Walkers
  <2>9. LookInv'
    BY <2>3, <2>5, <2>7, <2>8 DEF OwnInv, LookInv
  <2>10. OwnSocket'
    BY <1>0, <2>7, <2>8 DEF OwnInv, OwnSocket
  <2>. QED
    BY <2>4, <2>6, <2>9, <2>10 DEF OwnInv
<1>. QED
  BY <1>1, <1>2

\* list_add_tail.
LEMMA AddOwn ==
    ASSUME OwnInv, NEW t \in Threads, AddLoad(t) \/ AddLink(t) \/ AddClose(t) \/ AddPublish(t)
    PROVE  OwnInv'
<1>0. /\ Types /\ Sock(t) \in Nodes /\ t \in Walkers /\ anp_sockets_cache \in Nodes
      /\ UNCHANGED <<item, tmp, tests, fds>>
  BY SockType DEF OwnInv, Walkers, Nodes, AddLoad, AddLink, AddClose, AddPublish, locals
<1>1. \E l \in {"link", "close_list", "publish", "call"} : pc' = [pc EXCEPT ![t] = l]
  BY DEF AddLoad, AddLink, AddClose, AddPublish, Calls, Goto
<1>2. /\ nxt' = nxt \/ \E n \in Nodes, k \in Nodes : nxt' = [nxt EXCEPT ![n] = k]
      /\ last' \in {last, Sock(t)}
      /\ tail' = tail \/ \E n \in Nodes : tail' = [tail EXCEPT ![t] = n]
      /\ call' = call \/ call' = [call EXCEPT ![t] = "connect"]
  BY <1>0 DEF AddLoad, AddLink, AddClose, AddPublish, LinkFrom, NextOfNew, Types, list
<1>3. Types'
  <2>1. pc' \in [Walkers -> Labels]
    BY <1>0, <1>1 DEF Types, Labels
  <2>. QED
    BY <1>0, <1>2, <2>1, SMT DEF Types, fds
<1>4. pc'[t] \in {"link", "close_list", "publish", "call"} /\ \A u \in Threads \ {t} : pc'[u] = pc[u]
  BY <1>0, <1>1 DEF Types, Walkers
<1>. QED
  BY <1>0, <1>3, <1>4, MovesKeep DEF OnlyMoves, Found

-----------------------------------------------------------------------------
(* The lookup, and the calls.                                              *)

\* get_anp_socket: the entry with the caller's descriptor is the caller's own.
LEMMA LookupOwn ==
    ASSUME OwnInv, NEW t \in Threads, Lookup(t) \/ WalkFirst(t) \/ LookupStep(t) \/ LookupFails(t)
    PROVE  OwnInv'
<1>0. /\ Types /\ Sock(t) \in Socks /\ t \in Walkers /\ anp_sockets_cache \in Nodes
      /\ anp_sockets_cache \notin Socks
      /\ UNCHANGED <<nxt, last, fd_in_use, fd, call, tail, tests>>
  BY SockType, SocketsAssumption
     DEF OwnInv, Walkers, Nodes, Lookup, WalkFirst, LookupStep, LookupFails, Ends, locals, list, fds
<1>1. CASE Lookup(t)
  <2>1. /\ fd[Sock(t)] \in fd_in_use /\ UNCHANGED tmp /\ pc' = [pc EXCEPT ![t] = "first"]
        /\ item' = [item EXCEPT ![t] = nxt[anp_sockets_cache]]
    BY <1>1 DEF Lookup, WalkBegins, Goto
  <2>2. fd[Sock(t)] # 0
    BY <1>0, <2>1, SMT DEF Types
  <2>3. Types'
    BY <1>0, <2>1 DEF Types, Labels
  <2>4. pc'[t] = "first" /\ OnlyMoves(t)
    BY <1>0, <2>1 DEF OnlyMoves, Types, Walkers, fds
  <2>. QED
    BY <2>2, <2>3, <2>4, MovesKeep DEF Found
<1>2. CASE WalkFirst(t)
  <2>1. /\ pc[t] = "first" /\ pc' = [pc EXCEPT ![t] = "walk"] /\ UNCHANGED item
        /\ tmp' = [tmp EXCEPT ![t] = nxt[item[t]]]
    BY <1>2 DEF WalkFirst, At, Goto
  <2>2. Types'
    BY <1>0, <2>1 DEF Types, Labels
  <2>3. pc'[t] = "walk" /\ OnlyMoves(t)
    BY <1>0, <2>1 DEF OnlyMoves, Types, Walkers, fds
  <2>. QED
    BY <2>1, <2>2, <2>3, MovesKeep DEF Found, OwnInv, LookInv
<1>3. CASE LookupStep(t)
  <2>1. /\ pc[t] = "walk" /\ item[t] \in Socks /\ fd[Sock(t)] # 0
    BY <1>0, <1>3 DEF LookupStep, At, Types, Nodes, OwnInv, LookInv
  <2>2. CASE fd[item[t]] = fd[Sock(t)]
    <3>1. /\ pc' = [pc EXCEPT ![t] = call[t]] /\ UNCHANGED item
          /\ tmp' = [tmp EXCEPT ![t] = anp_sockets_cache]
      BY <1>3, <2>2 DEF LookupStep, WalkEnds, Goto
    <3>2. Types'
      BY <1>0, <3>1 DEF Types, Labels
    <3>3. OnlyMoves(t) /\ pc'[t] \notin {"first", "walk"}
      BY <1>0, <3>1 DEF OnlyMoves, Types, Walkers, fds
    <3>4. item[t] = Sock(t)
      BY <1>0, <2>1, <2>2 DEF OwnInv, DescInv
    <3>. QED
      BY <3>1, <3>2, <3>3, <3>4, MovesKeep
  <2>3. CASE fd[item[t]] # fd[Sock(t)]
    <3>1. /\ UNCHANGED pc /\ item' = [item EXCEPT ![t] = tmp[t]]
          /\ tmp' = [tmp EXCEPT ![t] = nxt[tmp[t]]]
      BY <1>3, <2>3 DEF LookupStep, WalkNext
    <3>2. Types'
      BY <1>0, <3>1 DEF Types
    <3>3. OnlyMoves(t)
      BY <1>0, <3>1 DEF OnlyMoves, Types, Walkers, fds
    <3>. QED
      BY <2>1, <3>1, <3>2, <3>3, MovesKeep DEF Found
  <2>. QED
    BY <2>2, <2>3
<1>4. CASE LookupFails(t)
  <2>1. UNCHANGED <<item, tmp>> /\ Ends(t, "EBADF")
    BY <1>4 DEF LookupFails
  <2>2. /\ pc'[t] = "done" /\ pc' \in [Walkers -> Labels]
        /\ \A u \in Walkers \ {t} : pc'[u] = pc[u]
    BY <2>1, EndsMoves
  <2>3. Types'
    BY <1>0, <2>1, <2>2 DEF Types
  <2>. QED
    BY <1>0, <2>1, <2>2, <2>3, MovesKeep DEF OnlyMoves, fds, Walkers, Found
<1>. QED
  BY <1>1, <1>2, <1>3, <1>4

\* The calls work on the socket they have found.
Calling(t) ==
    \/ Connect(t) \/ GetPort(t) \/ ConnectSyn(t) \/ ConnectWoken(t) \/ ConnectFails(t)
    \/ Send(t) \/ Recv(t) \/ Close(t) \/ CloseFree(t) \/ CloseFails(t)

LEMMA CallMoves ==
    ASSUME NEW t \in Threads, Calling(t)
    PROVE  /\ UNCHANGED <<nxt, last, fd_in_use, fd, tail, item, tmp, tests, raced, crashed, wanted>>
           /\ pc[t] \in Found
           /\ \E l \in {"port", "syn", "connect_wait", "call", "close_wait", "close_clear", "done"} :
                 pc' = [pc EXCEPT ![t] = l]
           /\ UNCHANGED call \/ \E c \in {"send", "recv", "close"} : call' = [call EXCEPT ![t] = c]
           /\ UNCHANGED errno \/ \E e \in {"none", "ENOTCONN"} : errno' = [errno EXCEPT ![t] = e]
<1>1. UNCHANGED <<nxt, last, fd_in_use, fd, tail, item, tmp, tests, raced, crashed, wanted>>
  BY DEF Calling, Connect, GetPort, ConnectSyn, ConnectWoken, ConnectFails, Send, Recv, Close,
               CloseFree, CloseFails, Ends, locals, list, fds, history
<1>2. CASE Connect(t) \/ GetPort(t) \/ ConnectSyn(t) \/ CloseFree(t)
  BY <1>1, <1>2 DEF Connect, GetPort, ConnectSyn, CloseFree, At, Goto, Found, locals
<1>3. CASE ConnectWoken(t) \/ Send(t)
  BY <1>1, <1>3 DEF ConnectWoken, Send, Calls, Ends, At, Goto, Found, locals
<1>4. CASE Recv(t)
  BY <1>1, <1>4 DEF Recv, Calls, Ends, At, Goto, Found
<1>5. CASE Close(t)
  BY <1>1, <1>5 DEF Close, Ends, At, Goto, Found, locals
<1>6. CASE ConnectFails(t) \/ CloseFails(t)
  BY <1>1, <1>6 DEF ConnectFails, CloseFails, Ends, At, Goto, Found
<1>. QED
  BY <1>2, <1>3, <1>4, <1>5, <1>6 DEF Calling

LEMMA CallOwn == ASSUME OwnInv, NEW t \in Threads, Calling(t) PROVE OwnInv'
<1>0. Types /\ t \in Walkers /\ UNCHANGED <<nxt, last, fd_in_use, fd, tail, item, tmp, tests>>
  BY CallMoves DEF OwnInv, Walkers
<1>1. /\ pc[t] \in Found
      /\ \E l \in {"port", "syn", "connect_wait", "call", "close_wait", "close_clear", "done"} :
            pc' = [pc EXCEPT ![t] = l]
      /\ UNCHANGED call \/ \E c \in {"send", "recv", "close"} : call' = [call EXCEPT ![t] = c]
  BY CallMoves
<1>2. Types'
  BY <1>0, <1>1 DEF Types, Labels
<1>3. OnlyMoves(t) /\ pc'[t] \notin {"first", "walk"}
  BY <1>0, <1>1 DEF OnlyMoves, Types, Walkers, fds
<1>4. item'[t] = Sock(t)
  BY <1>0, <1>1 DEF OwnInv, OwnSocket, Found
<1>. QED
  BY <1>2, <1>3, <1>4, MovesKeep

\* The end of close, and the next run of run_test, on another socket.
LEMMA CloseClearOwn == ASSUME OwnInv, NEW t \in Threads, CloseClear(t) PROVE OwnInv'
<1>0. /\ Types /\ t \in Walkers /\ UNCHANGED <<nxt, last, fd_in_use, fd, call, tail, item, tmp>>
  BY DEF OwnInv, Walkers, CloseClear, list, fds
<1>1. CASE tests[t] = Tests[t]
  <2>1. Ends(t, "none")
    BY <1>1 DEF CloseClear
  <2>2. /\ UNCHANGED tests /\ pc'[t] = "done" /\ pc' \in [Walkers -> Labels]
        /\ \A u \in Walkers \ {t} : pc'[u] = pc[u]
    BY <2>1, EndsMoves
  <2>3. Types'
    BY <1>0, <2>2 DEF Types
  <2>. QED
    BY <1>0, <2>2, <2>3, MovesKeep DEF OnlyMoves, fds, Walkers, Found
<1>2. CASE tests[t] # Tests[t]
  <2>1. pc' = [pc EXCEPT ![t] = "socket"] /\ tests' = [tests EXCEPT ![t] = tests[t] + 1]
    BY <1>2 DEF CloseClear, Goto
  <2>2. tests[t] \in 1..Tests[t] /\ Tests[t] \in Nat
    BY <1>0, SocketsAssumption DEF Types
  <2>3. tests[t] + 1 \in 1..Tests[t] /\ tests[t] + 1 \in Nat
    BY <1>2, <2>2, SMT
  <2>4. Types'
    BY <1>0, <2>1, <2>3 DEF Types, Labels
  <2>5. pc'[t] = "socket" /\ \A u \in Threads \ {t} : pc'[u] = pc[u] /\ Sock(u)' = Sock(u)
    BY <1>0, <2>1 DEF Types, Walkers, Sock
  <2>6. DescInv' /\ LookInv' /\ OwnSocket'
    BY <1>0, <2>5 DEF OwnInv, DescInv, LookInv, OwnSocket
  <2>. QED
    BY <2>4, <2>6 DEF OwnInv
<1>. QED
  BY <1>1, <1>2

-----------------------------------------------------------------------------
\* The receive thread looks on.
LEMMA ReceiveOwn ==
    ASSUME OwnInv, Receive \/ \E s \in Socks : Segment(s)
    PROVE  OwnInv'
<1>0. /\ Types /\ RX \in Walkers /\ RX \notin Threads /\ anp_sockets_cache \in Nodes
      /\ UNCHANGED <<nxt, last, fd_in_use, fd, call, tail, tests>>
  BY SocketsAssumption DEF OwnInv, Walkers, Nodes, Receive, WalkFirst, TcbTest, TcbCompare,
               TcbMissing, Deliver, Segment, locals, list, fds
<1>1. UNCHANGED pc \/ \E l \in {"first", "walk", "deref", "deliver", "lost", "idle"} :
                          pc' = [pc EXCEPT ![RX] = l]
  BY DEF Receive, WalkFirst, TcbTest, TcbCompare, TcbMissing, Deliver, Segment, WalkBegins, Goto
<1>2. UNCHANGED item \/ \E n \in Nodes : item' = [item EXCEPT ![RX] = n]
  <2>1. tmp[RX] \in Nodes /\ nxt[anp_sockets_cache] \in Nodes
    BY <1>0 DEF Types
  <2>. QED
    BY <1>0, <2>1 DEF Receive, WalkFirst, TcbTest, TcbCompare, TcbMissing, Deliver, Segment,
                             WalkBegins, WalkNext
<1>3. UNCHANGED tmp \/ \E n \in Nodes : tmp' = [tmp EXCEPT ![RX] = n]
  <2>1. nxt[item[RX]] \in Nodes /\ nxt[tmp[RX]] \in Nodes
    BY <1>0 DEF Types
  <2>. QED
    BY <1>0, <2>1 DEF Receive, WalkFirst, TcbTest, TcbCompare, TcbMissing, Deliver, Segment,
                             WalkNext, WalkEnds
<1>4. Types'
  <2>1. pc' \in [Walkers -> Labels]
    BY <1>0, <1>1 DEF Types, Labels
  <2>2. item' \in [Walkers -> Nodes] /\ tmp' \in [Walkers -> Nodes]
    BY <1>0, <1>2, <1>3 DEF Types
  <2>. QED
    BY <1>0, <2>1, <2>2 DEF Types
<1>5. \A t \in Threads : pc'[t] = pc[t] /\ item'[t] = item[t] /\ Sock(t)' = Sock(t)
  BY <1>0, <1>1, <1>2 DEF Types, Walkers, Sock
<1>6. DescInv' /\ LookInv' /\ OwnSocket'
  BY <1>0, <1>5 DEF OwnInv, DescInv, LookInv, OwnSocket
<1>. QED
  BY <1>4, <1>6 DEF OwnInv

-----------------------------------------------------------------------------
LEMMA OwnInit == ASSUME Init PROVE OwnInv
<1>1. Threads \subseteq Walkers /\ RX \notin Threads /\ Tests \in [Threads -> Nat \ {0}]
  BY SocketsAssumption DEF Walkers
<1>2. Types
  BY <1>1, SocketsAssumption, SMT DEF Init, Types, Labels, Nodes, Walkers
<1>3. DescInv
  BY DEF Init, DescInv
<1>4. LookInv /\ OwnSocket
  BY <1>1 DEF Init, LookInv, OwnSocket
<1>. QED
  BY <1>2, <1>3, <1>4 DEF OwnInv

LEMMA OwnNext == ASSUME OwnInv, [Next]_vars PROVE OwnInv'
<1>1. CASE \E t \in Threads : Thread(t)
  BY <1>1, SocketOwn, AddOwn, LookupOwn, CallOwn, CloseClearOwn DEF Thread, Calling
<1>2. CASE Receive \/ \E s \in Socks : Segment(s)
  BY <1>2, ReceiveOwn
<1>3. CASE UNCHANGED vars
  <2>1. UNCHANGED <<nxt, last, fd_in_use, fd, call, tail, tests, pc, item, tmp>>
    BY <1>3 DEF vars, list, fds, locals
  <2>. QED
    BY <2>1 DEF OwnInv, Types, DescInv, LookInv, OwnSocket, Sock
<1>. QED
  BY <1>1, <1>2, <1>3 DEF Next

\* Whatever becomes of the unlocked list, connect, send, recv and close never
\* work on another thread's socket: get_next_fd, under fd_lock, gives every
\* socket a descriptor of its own, and none is given twice.
THEOREM EveryCallOwnSocket == Spec => []OwnSocket
<1>1. OwnInv => OwnSocket
  BY DEF OwnInv
<1>. QED
  BY <1>1, OwnInit, OwnNext, PTL DEF Spec

-----------------------------------------------------------------------------
(* Types.                                                                  *)

Tcbs == [life : {"none", "live", "freed"}, port : 0..PortSpace - 1, peer : BOOLEAN,
         state : {"CLOSED", "SYN_SENT", "ESTABLISHED", "FIN_WAIT"}, data : 0..1]
Errors == {"none", "EMFILE", "EBADF", "ENOTCONN"}

MoreTypes ==
    /\ tcb \in [Socks -> Tcbs] /\ conn_info \subseteq Socks
    /\ available_port \in 0..PortSpace - 1 /\ wanted \in Nodes
    /\ so_far \in [Threads -> 0..Buffer] /\ errno \in [Threads -> Errors]
    /\ crashed \in BOOLEAN /\ raced \in BOOLEAN

\* run_test calls recv only while there is room in its buffer.
InRecv(t) == pc[t] = "recv" \/ (pc[t] \in {"call", "first", "walk"} /\ call[t] = "recv")
RoomInv == \A t \in Threads : InRecv(t) => so_far[t] < Buffer

\* A step of thread t leaves the other threads, and the receive thread, alone.
OnlyThread(t) ==
    /\ \A w \in Walkers \ {t} : pc'[w] = pc[w] /\ item'[w] = item[w] /\ tmp'[w] = tmp[w]
    /\ \A u \in Threads \ {t} :
         call'[u] = call[u] /\ tests'[u] = tests[u] /\ errno'[u] = errno[u] /\ so_far'[u] = so_far[u]
         /\ tail'[u] = tail[u]
    /\ wanted' = wanted

LEMMA ThreadFrame ==
    ASSUME OwnInv, MoreTypes, NEW t \in Threads, Thread(t)
    PROVE  OnlyThread(t)
<1>0. Types /\ t \in Walkers
  BY DEF OwnInv, Walkers
<1>. USE DEF Thread, Socket, AddLoad, AddLink, AddClose, AddPublish, Lookup, WalkFirst, LookupStep,
         LookupFails, Connect, GetPort, ConnectSyn, ConnectWoken, ConnectFails, Send, Recv, Close,
         CloseFree, CloseFails, CloseClear
<1>1. UNCHANGED pc \/ \E l : pc' = [pc EXCEPT ![t] = l]
  BY DEF Ends, Goto, Calls, WalkBegins
<1>2. UNCHANGED item \/ \E n : item' = [item EXCEPT ![t] = n]
  BY DEF WalkBegins, WalkNext
<1>3. UNCHANGED tmp \/ \E n : tmp' = [tmp EXCEPT ![t] = n]
  BY DEF WalkEnds, WalkNext
<1>4. UNCHANGED call \/ \E c : call' = [call EXCEPT ![t] = c]
  BY DEF Calls
<1>5. /\ UNCHANGED tests \/ \E n : tests' = [tests EXCEPT ![t] = n]
      /\ UNCHANGED errno \/ \E e : errno' = [errno EXCEPT ![t] = e]
      /\ UNCHANGED so_far \/ \E n : so_far' = [so_far EXCEPT ![t] = n]
  BY DEF Ends, locals
<1>6. UNCHANGED tail \/ \E n : tail' = [tail EXCEPT ![t] = n]
  OBVIOUS
<1>7. UNCHANGED wanted
  OBVIOUS
<1>. HIDE DEF Thread, Socket, AddLoad, AddLink, AddClose, AddPublish, Lookup, WalkFirst, LookupStep,
         LookupFails, Connect, GetPort, ConnectSyn, ConnectWoken, ConnectFails, Send, Recv, Close,
         CloseFree, CloseFails, CloseClear
<1>. QED
  BY <1>0, <1>1, <1>2, <1>3, <1>4, <1>5, <1>6, <1>7 DEF OnlyThread, Types, MoreTypes, Walkers

\* A thread that does not come to recv in this step does not need the room.
LEMMA RoomKept ==
    ASSUME MoreTypes, RoomInv, NEW t \in Threads, OnlyThread(t), so_far' = so_far,
           InRecv(t)' => InRecv(t)
    PROVE  RoomInv'
<1>1. \A u \in Threads \ {t} : InRecv(u)' <=> InRecv(u)
  BY DEF OnlyThread, InRecv, Walkers
<1>. QED
  BY <1>1 DEF RoomInv

LEMMA EndsTypes ==
    ASSUME OwnInv, MoreTypes, NEW t \in Threads, NEW e \in Errors, Ends(t, e)
    PROVE  errno' \in [Threads -> Errors] /\ so_far' = so_far /\ ~InRecv(t)'
<1>1. pc'[t] = "done"
  BY EndsMoves
<1>. QED
  BY <1>1 DEF Ends, MoreTypes, InRecv

\* socket, list_add_tail and the lookup.
LEMMA TableTypes ==
    ASSUME OwnInv, MoreTypes, RoomInv, NEW t \in Threads, OnlyThread(t),
           \/ Socket(t) \/ AddLoad(t) \/ AddLink(t) \/ AddClose(t) \/ AddPublish(t)
           \/ Lookup(t) \/ WalkFirst(t) \/ LookupStep(t) \/ LookupFails(t)
    PROVE  MoreTypes' /\ RoomInv'
<1>0. Types /\ t \in Walkers
  BY DEF OwnInv, Walkers
<1>1. UNCHANGED <<available_port, conn_info, tcb, wanted, crashed>>
  BY DEF Socket, AddLoad, AddLink, AddClose, AddPublish, Lookup, WalkFirst, LookupStep,
               LookupFails, conns, history
<1>2. raced' \in BOOLEAN
  BY DEF MoreTypes, Socket, AddLoad, AddLink, AddClose, AddPublish, Lookup, WalkFirst, LookupStep,
               LookupFails, history
<1>3. errno' \in [Threads -> Errors] /\ so_far' = so_far /\ (InRecv(t)' => InRecv(t))
  <2>1. CASE Socket(t)
    <3>1. CASE FreeFd = {}
      BY <2>1, <3>1, EndsTypes DEF Socket, Errors
    <3>2. CASE FreeFd # {}
      BY <1>0, <2>1, <3>2 DEF Socket, Goto, locals, MoreTypes, InRecv, Types
    <3>. QED
      BY <3>1, <3>2
  <2>2. CASE AddLoad(t) \/ AddLink(t) \/ AddClose(t)
    BY <1>0, <2>2 DEF AddLoad, AddLink, AddClose, Goto, locals, MoreTypes, InRecv, Types
  <2>3. CASE AddPublish(t)
    BY <1>0, <2>3 DEF AddPublish, Goto, locals, MoreTypes, InRecv, Types
  <2>4. CASE Lookup(t) \/ WalkFirst(t)
    BY <1>0, <2>4 DEF Lookup, WalkFirst, WalkBegins, At, Goto, locals, MoreTypes, InRecv, Types
  <2>5. CASE LookupStep(t)
    BY <1>0, <2>5 DEF LookupStep, At, Goto, locals, MoreTypes, InRecv, Types
  <2>6. CASE LookupFails(t)
    BY <2>6, EndsTypes DEF LookupFails, Errors
  <2>. QED
    BY <2>1, <2>2, <2>3, <2>4, <2>5, <2>6
<1>. QED
  BY <1>1, <1>2, <1>3, RoomKept DEF MoreTypes

\* connect, send, recv and close.
LEMMA CallTypes ==
    ASSUME OwnInv, MoreTypes, RoomInv, NEW t \in Threads, OnlyThread(t),
           \/ Connect(t) \/ GetPort(t) \/ ConnectSyn(t) \/ ConnectWoken(t) \/ ConnectFails(t)
           \/ Send(t) \/ Recv(t) \/ Close(t) \/ CloseFree(t) \/ CloseFails(t) \/ CloseClear(t)
    PROVE  MoreTypes' /\ RoomInv'
<1>0. /\ Types /\ t \in Walkers /\ Sock(t) \in Socks
      /\ PortSpace \in Nat \ {0} /\ Buffer \in Nat \ {0} /\ PORTS_STARTING \in 0..PortSpace - 1
  BY SockType, SocketsAssumption DEF OwnInv, Walkers
<1>1. item[t] = Sock(t)
  BY DEF OwnInv, OwnSocket, Connect, GetPort, ConnectSyn, ConnectWoken, ConnectFails, Send, Recv,
         Close, CloseFree, CloseFails, CloseClear, At
<1>2. NoTcb \in Tcbs /\ [NoTcb EXCEPT !.life = "live"] \in Tcbs
  <2>1. 0 \in 0..PortSpace - 1 /\ 0 \in 0..1
    BY <1>0, SMT
  <2>. QED
    BY <2>1 DEF NoTcb, Tcbs
<1>3. NextPort \in 0..PortSpace - 1
  BY <1>0, SMT DEF NextPort, MoreTypes
<1>4. UNCHANGED <<wanted, crashed, raced>>
  BY DEF Connect, GetPort, ConnectSyn, ConnectWoken, ConnectFails, Send, Recv, Close,
               CloseFree, CloseFails, CloseClear, history
<1>5. /\ tcb' \in [Socks -> Tcbs] /\ conn_info' \subseteq Socks
      /\ available_port' \in 0..PortSpace - 1
  <2>1. CASE Connect(t)
    BY <1>0, <1>1, <1>2, <2>1 DEF Connect, MoreTypes
  <2>2. CASE GetPort(t)
    BY <1>0, <1>1, <1>3, <2>2, SMT DEF GetPort, MoreTypes, Tcbs
  <2>3. CASE ConnectSyn(t)
    <3>1. [tcb[Sock(t)] EXCEPT !.peer = TRUE, !.state = "SYN_SENT"] \in Tcbs
      BY <1>0 DEF MoreTypes, Tcbs
    <3>2. tcb' = [tcb EXCEPT ![Sock(t)] = [tcb[Sock(t)] EXCEPT !.peer = TRUE, !.state = "SYN_SENT"]]
      BY <1>0, <1>1, <2>3 DEF ConnectSyn, MoreTypes
    <3>. QED
      BY <1>0, <2>3, <3>1, <3>2 DEF ConnectSyn, MoreTypes
  <2>4. CASE ConnectWoken(t) \/ ConnectFails(t) \/ Send(t) \/ CloseFails(t)
    BY <2>4 DEF ConnectWoken, ConnectFails, Send, CloseFails, MoreTypes, conns
  <2>5. CASE Recv(t)
    BY <1>0, <1>1, <2>5, SMT DEF Recv, MoreTypes, Tcbs, conns
  <2>6. CASE Close(t)
    BY <1>0, <1>1, <2>6, SMT DEF Close, MoreTypes, Tcbs, conns
  <2>7. CASE CloseFree(t) \/ CloseClear(t)
    BY <1>0, <1>1, <2>7, SMT DEF CloseFree, CloseClear, MoreTypes, Tcbs
  <2>. QED
    BY <2>1, <2>2, <2>3, <2>4, <2>5, <2>6, <2>7
<1>6. CASE Connect(t) \/ GetPort(t) \/ ConnectSyn(t) \/ ConnectWoken(t) \/ CloseFree(t)
  <2>1. UNCHANGED <<errno, so_far>> /\ pc'[t] \in {"port", "syn", "connect_wait", "call", "close_clear"}
    BY <1>0, <1>6 DEF Connect, GetPort, ConnectSyn, ConnectWoken, CloseFree, Calls, Goto, locals, Types
  <2>2. ConnectWoken(t) => call'[t] = "send"
    BY <1>0 DEF ConnectWoken, Calls, Types
  <2>3. ~InRecv(t)'
    BY <1>0, <1>6, <2>1, <2>2 DEF InRecv, Connect, GetPort, ConnectSyn, CloseFree, Goto, Types
  <2>. QED
    BY <1>4, <1>5, <2>1, <2>3, RoomKept DEF MoreTypes
<1>7. CASE ConnectFails(t) \/ CloseFails(t)
  BY <1>4, <1>5, <1>7, EndsTypes, RoomKept DEF ConnectFails, CloseFails, MoreTypes, Errors
<1>8. CASE Send(t)
  <2>1. CASE Connected(item[t])
    <3>1. so_far' = [so_far EXCEPT ![t] = 0] /\ errno' = errno
      BY <1>8, <2>1 DEF Send
    <3>2. so_far' \in [Threads -> 0..Buffer] /\ so_far'[t] = 0
      BY <1>0, <3>1, SMT DEF MoreTypes
    <3>3. RoomInv'
      <4>1. \A u \in Threads \ {t} : so_far'[u] = so_far[u] /\ (InRecv(u)' <=> InRecv(u))
        BY DEF OnlyThread, InRecv, Walkers
      <4>. QED
        BY <1>0, <3>2, <4>1, SMT DEF RoomInv
    <3>. QED
      BY <1>4, <1>5, <3>1, <3>2, <3>3 DEF MoreTypes
  <2>2. CASE ~Connected(item[t])
    BY <1>4, <1>5, <1>8, <2>2, EndsTypes, RoomKept DEF Send, MoreTypes, Errors
  <2>. QED
    BY <2>1, <2>2
<1>9. CASE Recv(t)
  <2>. DEFINE s == item[t]
              n == so_far[t] + tcb[s].data
  <2>1. CASE Ends(t, "ENOTCONN")
    BY <1>4, <1>5, <2>1, EndsTypes, RoomKept DEF MoreTypes, Errors
  <2>2. CASE ~Ends(t, "ENOTCONN")
    <3>1. /\ so_far' = [so_far EXCEPT ![t] = n] /\ errno' = errno
          /\ Calls(t, IF n < Buffer THEN "recv" ELSE "close")
      BY <1>9, <2>2 DEF Recv
    <3>2. InRecv(t)
      BY <1>0, <1>9 DEF Recv, At, InRecv, OwnInv
    <3>3. n \in 0..Buffer
      <4>1. so_far[t] < Buffer /\ so_far[t] \in 0..Buffer /\ tcb[s].data \in 0..1
        BY <1>0, <1>1, <3>2 DEF RoomInv, MoreTypes, Tcbs
      <4>2. Buffer \in Nat
        BY SocketsAssumption
      <4>. QED
        BY <4>1, <4>2, SMT
    <3>. HIDE DEF n
    <3>4. so_far' \in [Threads -> 0..Buffer] /\ so_far'[t] = n
      BY <3>1, <3>3 DEF MoreTypes
    <3>5. InRecv(t)' => n < Buffer
      BY <1>0, <3>1 DEF InRecv, Calls, Goto, Types
    <3>6. RoomInv'
      <4>1. \A u \in Threads \ {t} : so_far'[u] = so_far[u] /\ (InRecv(u)' <=> InRecv(u))
        BY DEF OnlyThread, InRecv, Walkers
      <4>. QED
        BY <3>4, <3>5, <4>1 DEF RoomInv
    <3>. QED
      BY <1>4, <1>5, <3>1, <3>4, <3>6 DEF MoreTypes
  <2>. QED
    BY <2>1, <2>2
<1>10. CASE Close(t)
  <2>1. CASE Connected(item[t])
    BY <1>0, <1>4, <1>5, <1>10, <2>1, RoomKept DEF Close, Goto, locals, MoreTypes, InRecv, Types
  <2>2. CASE ~Connected(item[t])
    BY <1>4, <1>5, <1>10, <2>2, EndsTypes, RoomKept DEF Close, MoreTypes, Errors
  <2>. QED
    BY <2>1, <2>2
<1>11. CASE CloseClear(t)
  <2>1. CASE tests[t] = Tests[t]
    BY <1>4, <1>5, <1>11, <2>1, EndsTypes, RoomKept DEF CloseClear, MoreTypes, Errors
  <2>2. CASE tests[t] # Tests[t]
    BY <1>0, <1>4, <1>5, <1>11, <2>2, RoomKept DEF CloseClear, Goto, MoreTypes, InRecv, Types
  <2>. QED
    BY <2>1, <2>2
<1>. QED
  BY <1>6, <1>7, <1>8, <1>9, <1>10, <1>11

\* A step of the receive thread leaves the threads, the list and the descriptors
\* alone.
OnlyReceive ==
    /\ \A t \in Threads : pc'[t] = pc[t] /\ item'[t] = item[t] /\ tmp'[t] = tmp[t]
    /\ UNCHANGED <<nxt, last, fd_in_use, fd, available_port, conn_info, call, tail, tests, so_far,
                   errno, raced>>

LEMMA ReceiveFrame ==
    ASSUME OwnInv, Receive \/ \E s \in Socks : Segment(s)
    PROVE  OnlyReceive
<1>0. Types /\ RX \notin Threads
  BY SocketsAssumption DEF OwnInv
<1>. USE DEF Receive, Segment, WalkFirst, TcbTest, TcbCompare, TcbMissing, Deliver
<1>1. /\ UNCHANGED pc \/ \E l : pc' = [pc EXCEPT ![RX] = l]
      /\ UNCHANGED item \/ \E n : item' = [item EXCEPT ![RX] = n]
      /\ UNCHANGED tmp \/ \E n : tmp' = [tmp EXCEPT ![RX] = n]
  BY DEF Goto, WalkBegins, WalkNext, WalkEnds
<1>2. UNCHANGED <<nxt, last, fd_in_use, fd, available_port, conn_info, call, tail, tests, so_far,
                  errno, raced>>
  BY DEF list, fds, conns, locals, history, Crash
<1>. HIDE DEF Receive, Segment, WalkFirst, TcbTest, TcbCompare, TcbMissing, Deliver
<1>. QED
  BY <1>0, <1>1, <1>2 DEF OnlyReceive, Types, Walkers

LEMMA ReceiveTypes ==
    ASSUME OwnInv, MoreTypes, RoomInv, OnlyReceive, Receive \/ \E s \in Socks : Segment(s)
    PROVE  MoreTypes' /\ RoomInv'
<1>1. RoomInv'
  BY DEF OnlyReceive, RoomInv, InRecv
<1>2. wanted' \in Nodes /\ crashed' \in BOOLEAN
  BY DEF Receive, Segment, WalkFirst, TcbTest, TcbCompare, TcbMissing, Deliver, MoreTypes, Nodes,
               NoSock, history, Crash
<1>3. tcb' \in [Socks -> Tcbs]
  <2>1. CASE Deliver
    <3>. DEFINE s == item[RX]
                new(r) == CASE r.state = "SYN_SENT"    -> [r EXCEPT !.state = "ESTABLISHED"]
                            [] r.state = "ESTABLISHED" -> [r EXCEPT !.data = 1]
                            [] r.state = "FIN_WAIT"    -> [r EXCEPT !.state = "CLOSED"]
                            [] OTHER                   -> r
    <3>1. UNCHANGED tcb \/ tcb' = [tcb EXCEPT ![s] = new(tcb[s])]
      BY <2>1 DEF Deliver
    <3>2. s \in Socks => new(tcb[s]) \in Tcbs
      BY SMT DEF MoreTypes, Tcbs
    <3>. HIDE DEF new
    <3>. QED
      BY <3>1, <3>2 DEF MoreTypes
  <2>2. CASE ~Deliver
    BY <2>2 DEF Receive, Segment, WalkFirst, TcbTest, TcbCompare, TcbMissing, MoreTypes, conns
  <2>. QED
    BY <2>1, <2>2
<1>. QED
  BY <1>1, <1>2, <1>3 DEF OnlyReceive, MoreTypes

-----------------------------------------------------------------------------
TypeInv == OwnInv /\ MoreTypes /\ RoomInv

LEMMA InitTypes == ASSUME Init PROVE TypeInv
<1>1. OwnInv
  BY OwnInit
<1>2. 0 \in 0..PortSpace - 1 /\ 0 \in 0..1 /\ 0 \in 0..Buffer /\ PORTS_STARTING \in 0..PortSpace - 1
  BY SocketsAssumption, SMT
<1>3. NoTcb \in Tcbs
  BY <1>2 DEF NoTcb, Tcbs
<1>4. MoreTypes
  BY <1>2, <1>3 DEF Init, MoreTypes, Nodes, NoSock, Errors
<1>5. RoomInv
  BY SocketsAssumption DEF Init, RoomInv, InRecv, Walkers
<1>. QED
  BY <1>1, <1>4, <1>5 DEF TypeInv

LEMMA NextTypes == ASSUME TypeInv, [Next]_vars PROVE TypeInv'
<1>0. OwnInv /\ MoreTypes /\ RoomInv
  BY DEF TypeInv
<1>1. OwnInv'
  BY <1>0, OwnNext
<1>2. CASE \E t \in Threads : Thread(t)
  <2>1. PICK t \in Threads : Thread(t)
    BY <1>2
  <2>2. OnlyThread(t)
    BY <1>0, <2>1, ThreadFrame
  <2>. QED
    BY <1>0, <1>1, <2>1, <2>2, TableTypes, CallTypes DEF Thread, TypeInv
<1>3. CASE Receive \/ \E s \in Socks : Segment(s)
  BY <1>0, <1>1, <1>3, ReceiveFrame, ReceiveTypes DEF TypeInv
<1>4. CASE UNCHANGED vars
  <2>1. UNCHANGED <<tcb, conn_info, available_port, wanted, so_far, errno, crashed, raced, pc, call>>
    BY <1>4 DEF vars, conns, locals, history
  <2>. QED
    BY <1>0, <1>1, <2>1 DEF TypeInv, MoreTypes, RoomInv, InRecv
<1>. QED
  BY <1>2, <1>3, <1>4 DEF Next

\* TypeOK is part of an invariant that is inductive: it rests on the lookup's
\* finding a socket, and on recv being asked for no more than is missing.
THEOREM TypeInvariant == Spec => []TypeInv
BY InitTypes, NextTypes, PTL DEF Spec

\* The variables keep the types of their declarations in anpwrapper.c: ports
\* stay inside a uint16_t, descriptors inside fd_in_use, no walk of the list
\* leaves it, and run_test never asks recv for more than its buffer holds, for
\* any number of threads, tests, descriptors and ports.
THEOREM SocketTypes == Spec => []TypeOK
<1>1. TypeInv => TypeOK
  BY DEF TypeInv, OwnInv, Types, MoreTypes, TypeOK, Tcbs, Errors
<1>. QED
  BY <1>1, TypeInvariant, PTL

-----------------------------------------------------------------------------
(* The life of a tcb.                                                      *)

\* connect has not got to allocating the tcb.
Before(t) ==
    \/ pc[t] \in {"socket", "add", "link", "close_list", "publish", "connect"}
    \/ pc[t] \in {"call", "first", "walk"} /\ call[t] = "connect"

\* A tcb has a peer only once it is allocated; conn_info points to a tcb, and to
\* any that is not freed.
LifeOK(s) ==
    /\ tcb[s].peer => tcb[s].life # "none"
    /\ tcb[s].life = "live" => s \in conn_info
    /\ s \in conn_info => tcb[s].life # "none"
FreshOK(t) ==
    /\ Before(t) => tcb[Sock(t)] = NoTcb
    /\ \A k \in 1..Tests[t] : k > tests[t] => tcb[<<t, k>>] = NoTcb
CallOK(t) ==
    /\ pc[t] \in {"port", "syn"} => tcb[Sock(t)].life = "live" /\ ~tcb[Sock(t)].peer
    /\ pc[t] = "close_clear" => tcb[Sock(t)].life = "freed"
RxOK ==
    /\ pc[RX] # "idle" => wanted \in Socks /\ tcb[wanted].peer
    /\ pc[RX] \in {"deref", "deliver"} => item[RX] \in Socks /\ tcb[item[RX]].life # "none"
TcbInv == (\A s \in Socks : LifeOK(s)) /\ (\A t \in Threads : FreshOK(t) /\ CallOK(t)) /\ RxOK

LEMMA SockMember == ASSUME NEW t \in Threads, NEW k \in 1..Tests[t] PROVE <<t, k>> \in Socks
<1>1. <<t, k>> \in {t} \X (1..Tests[t])
  OBVIOUS
<1>. QED
  BY <1>1 DEF Socks

\* A step of t that touches only the tcb of its own socket, s.
OwnTcb(t, s) ==
    /\ \A r \in Socks \ {s} : tcb'[r] = tcb[r] /\ (r \in conn_info' <=> r \in conn_info)
    /\ tcb[s].peer => tcb'[s].peer
    /\ tcb[s].life # "none" => tcb'[s].life # "none"

LEMMA TcbStep ==
    ASSUME TypeInv, TcbInv, NEW t \in Threads, OnlyThread(t),
           NEW s \in Socks, s = Sock(t), OwnTcb(t, s), LifeOK(s)', FreshOK(t)', CallOK(t)'
    PROVE  TcbInv'
<1>0. Types /\ RX \notin Threads /\ RX \in Walkers
  BY SocketsAssumption DEF TypeInv, OwnInv, Walkers
<1>1. \A r \in Socks : LifeOK(r)'
  BY DEF TcbInv, LifeOK, OwnTcb
<1>2. \A u \in Threads \ {t} : FreshOK(u)' /\ CallOK(u)'
  <2>1. SUFFICES ASSUME NEW u \in Threads \ {t} PROVE FreshOK(u)' /\ CallOK(u)'
    OBVIOUS
  <2>2. Sock(u)' = Sock(u) /\ Sock(u) \in Socks \ {s} /\ (Before(u)' <=> Before(u)) /\ pc'[u] = pc[u]
        /\ tests'[u] = tests[u]
    BY <1>0, SockType DEF OnlyThread, Sock, Before, Walkers
  <2>3. \A k \in 1..Tests[u] : <<u, k>> \in Socks \ {s}
    BY SockMember DEF Sock
  <2>4. FreshOK(u) /\ CallOK(u)
    BY DEF TcbInv
  <2>5. FreshOK(u)'
    BY <2>2, <2>3, <2>4 DEF FreshOK, OwnTcb
  <2>6. CallOK(u)'
    BY <2>2, <2>4 DEF CallOK, OwnTcb
  <2>. QED
    BY <2>5, <2>6
<1>3. RxOK'
  <2>1. pc'[RX] = pc[RX] /\ item'[RX] = item[RX] /\ wanted' = wanted
    BY <1>0 DEF OnlyThread
  <2>2. ASSUME NEW r \in Socks
        PROVE  (tcb[r].peer => tcb'[r].peer) /\ (tcb[r].life # "none" => tcb'[r].life # "none")
    BY DEF OwnTcb
  <2>3. RxOK
    BY DEF TcbInv
  <2>. QED
    BY <2>1, <2>2, <2>3 DEF RxOK
<1>. QED
  BY <1>1, <1>2, <1>3 DEF TcbInv

\* Steps that leave the tcbs alone, and of which none brings a thread back to
\* before its connect.
LEMMA QuietTcb ==
    ASSUME TypeInv, TcbInv, NEW t \in Threads, OnlyThread(t), UNCHANGED <<tcb, conn_info, tests>>,
           Before(t)' => Before(t), pc'[t] \notin {"port", "syn", "close_clear"}
    PROVE  TcbInv'
<1>a. PICK s \in Socks : s = Sock(t)
  BY SockType DEF TypeInv, OwnInv
<1>1. s \in Socks /\ Sock(t)' = s
  BY <1>a, SockType DEF Sock, TypeInv, OwnInv
<1>2. LifeOK(s) /\ FreshOK(t)
  BY <1>1 DEF TcbInv
<1>3. FreshOK(t)'
  BY <1>a, <1>1, <1>2 DEF FreshOK
<1>4. LifeOK(s)' /\ CallOK(t)' /\ OwnTcb(t, s)
  BY <1>2 DEF LifeOK, CallOK, OwnTcb
<1>. QED
  BY <1>a, <1>1, <1>3, <1>4, TcbStep

LEMMA QuietSteps ==
    ASSUME TypeInv, TcbInv, NEW t \in Threads, OnlyThread(t),
           \/ Socket(t) \/ AddLoad(t) \/ AddLink(t) \/ AddClose(t) \/ AddPublish(t)
           \/ Lookup(t) \/ WalkFirst(t) \/ LookupStep(t) \/ LookupFails(t)
           \/ ConnectWoken(t) \/ ConnectFails(t) \/ Send(t) \/ CloseFails(t)
    PROVE  TcbInv'
<1>0. Types /\ t \in Walkers
  BY DEF TypeInv, OwnInv, Walkers
<1>1. UNCHANGED <<tcb, conn_info, tests>>
  BY DEF Socket, AddLoad, AddLink, AddClose, AddPublish, Lookup, WalkFirst, LookupStep,
               LookupFails, ConnectWoken, ConnectFails, Send, CloseFails, Ends, conns, locals
<1>2. (Before(t)' => Before(t)) /\ pc'[t] \notin {"port", "syn", "close_clear"}
  <2>1. CASE Socket(t) \/ AddLoad(t) \/ AddLink(t) \/ AddClose(t) \/ AddPublish(t)
    <3>1. Before(t)
      BY <2>1 DEF Socket, AddLoad, AddLink, AddClose, AddPublish, At, Before
    <3>2. pc'[t] \in {"done", "add", "link", "close_list", "publish", "call"}
      BY <1>0, <2>1 DEF Socket, AddLoad, AddLink, AddClose, AddPublish, Ends, Goto, Types
    <3>. QED
      BY <3>1, <3>2
  <2>2. CASE Lookup(t) \/ WalkFirst(t)
    BY <1>0, <2>2 DEF Lookup, WalkFirst, WalkBegins, At, Goto, Types, Before
  <2>3. CASE LookupStep(t)
    BY <1>0, <2>3 DEF LookupStep, At, Goto, Types, Before
  <2>4. CASE LookupFails(t) \/ ConnectFails(t) \/ CloseFails(t)
    <3>1. pc'[t] = "done"
      BY <1>0, <2>4 DEF LookupFails, ConnectFails, CloseFails, Ends, Goto, Types
    <3>. QED
      BY <3>1 DEF Before
  <2>5. CASE ConnectWoken(t) \/ Send(t)
    BY <1>0, <2>5 DEF ConnectWoken, Send, Calls, Ends, Goto, Types, Before
  <2>. QED
    BY <2>1, <2>2, <2>3, <2>4, <2>5
<1>. QED
  BY <1>1, <1>2, QuietTcb

\* connect allocates the tcb of a socket that has none, and fills it in.
LEMMA ConnectTcb ==
    ASSUME TypeInv, TcbInv, NEW t \in Threads, OnlyThread(t), Connect(t) \/ GetPort(t) \/ ConnectSyn(t)
    PROVE  TcbInv'
<1>a. PICK s \in Socks : s = Sock(t)
  BY SockType DEF TypeInv, OwnInv
<1>0. /\ Types /\ MoreTypes /\ t \in Walkers /\ s \in Socks /\ item[t] = s /\ Sock(t)' = s
      /\ UNCHANGED tests
  BY <1>a, SockType DEF TypeInv, OwnInv, OwnSocket, Walkers, Connect, GetPort, ConnectSyn, At, Sock, locals
<1>1. LifeOK(s) /\ FreshOK(t) /\ CallOK(t)
  BY <1>0 DEF TcbInv
<1>2. pc'[t] \in {"port", "syn", "connect_wait"}
  BY <1>0 DEF Connect, GetPort, ConnectSyn, Goto, Types
<1>3. ~Before(t)'
  BY <1>2 DEF Before
<1>4. \A k \in 1..Tests[t] : k > tests[t] => <<t, k>> \in Socks \ {s}
  BY <1>a, <1>0, SockMember, SMT DEF Sock, Types
<1>5. OwnTcb(t, s) /\ LifeOK(s)' /\ CallOK(t)'
  <2>1. CASE Connect(t)
    <3>1. tcb' = [tcb EXCEPT ![s] = [NoTcb EXCEPT !.life = "live"]] /\ conn_info' = conn_info \cup {s}
          /\ pc[t] = "connect" /\ pc'[t] = "port"
      BY <1>0, <2>1 DEF Connect, At, Goto, Types
    <3>2. tcb[s] = NoTcb
      BY <1>a, <1>1, <3>1 DEF FreshOK, Before
    <3>3. tcb'[s].life = "live" /\ tcb'[s].peer = FALSE /\ s \in conn_info'
      BY <1>0, <3>1 DEF MoreTypes, NoTcb
    <3>4. LifeOK(s)' /\ CallOK(t)'
      BY <1>a, <1>0, <3>1, <3>3 DEF LifeOK, CallOK
    <3>5. OwnTcb(t, s)
      BY <1>0, <3>1, <3>2, <3>3 DEF OwnTcb, MoreTypes, NoTcb
    <3>. QED
      BY <3>4, <3>5
  <2>2. CASE GetPort(t)
    <3>1. tcb' = [tcb EXCEPT ![s].port = NextPort] /\ UNCHANGED conn_info /\ pc[t] = "port"
          /\ pc'[t] = "syn"
      BY <1>0, <2>2 DEF GetPort, At, Goto, Types
    <3>2. /\ tcb'[s].life = tcb[s].life /\ tcb'[s].peer = tcb[s].peer
          /\ \A r \in Socks \ {s} : tcb'[r] = tcb[r]
      BY <1>0, <3>1 DEF MoreTypes, Tcbs
    <3>3. LifeOK(s)' /\ CallOK(t)'
      BY <1>a, <1>0, <1>1, <3>1, <3>2 DEF LifeOK, CallOK
    <3>. QED
      BY <3>1, <3>2, <3>3 DEF OwnTcb
  <2>3. CASE ConnectSyn(t)
    <3>1. /\ tcb' = [tcb EXCEPT ![s].peer = TRUE, ![s].state = "SYN_SENT"] /\ UNCHANGED conn_info
          /\ pc[t] = "syn" /\ pc'[t] = "connect_wait"
      BY <1>0, <2>3 DEF ConnectSyn, At, Goto, Types
    <3>2. /\ tcb'[s].life = tcb[s].life /\ tcb'[s].peer = TRUE
          /\ \A r \in Socks \ {s} : tcb'[r] = tcb[r]
      BY <1>0, <3>1 DEF MoreTypes, Tcbs
    <3>3. tcb[s].life = "live"
      BY <1>a, <1>1, <3>1 DEF CallOK
    <3>4. LifeOK(s)' /\ CallOK(t)'
      BY <1>0, <1>1, <3>1, <3>2, <3>3, <1>a DEF LifeOK, CallOK
    <3>. QED
      BY <3>1, <3>2, <3>4 DEF OwnTcb
  <2>. QED
    BY <2>1, <2>2, <2>3
<1>6. FreshOK(t)'
  BY <1>0, <1>1, <1>3, <1>4, <1>5 DEF FreshOK, OwnTcb
<1>. QED
  BY <1>a, <1>0, <1>5, <1>6, TcbStep

\* recv empties the buffer; close changes the state, frees the tcb and forgets it.
LEMMA UseTcb ==
    ASSUME TypeInv, TcbInv, NEW t \in Threads, OnlyThread(t),
           Recv(t) \/ Close(t) \/ CloseFree(t) \/ CloseClear(t)
    PROVE  TcbInv'
<1>a. PICK s \in Socks : s = Sock(t)
  BY SockType DEF TypeInv, OwnInv
<1>0. /\ Types /\ MoreTypes /\ t \in Walkers /\ s \in Socks /\ item[t] = s
      /\ pc[t] \in {"recv", "close", "close_wait", "close_clear"}
  BY <1>a, SockType DEF TypeInv, OwnInv, OwnSocket, Walkers, Recv, Close, CloseFree, CloseClear, At
<1>1. LifeOK(s) /\ FreshOK(t) /\ CallOK(t)
  BY <1>0 DEF TcbInv
<1>2. \A k \in 1..Tests[t] : k > tests[t] => <<t, k>> \in Socks \ {s}
  BY <1>a, <1>0, SockMember, SMT DEF Sock, Types
<1>3. CASE Recv(t) \/ Close(t)
  <2>1. UNCHANGED tests /\ UNCHANGED conn_info /\ Sock(t)' = s
    BY <1>a, <1>3 DEF Recv, Close, Ends, conns, locals, Sock
  <2>2. /\ tcb'[s].life = tcb[s].life /\ tcb'[s].peer = tcb[s].peer
        /\ \A r \in Socks \ {s} : tcb'[r] = tcb[r]
    BY <1>0, <1>3, SMT DEF Recv, Close, MoreTypes, Tcbs, conns
  <2>3. ~Before(t)' /\ pc'[t] \notin {"port", "syn", "close_clear"}
    BY <1>0, <1>3 DEF Recv, Close, Calls, Ends, Goto, Types, Before
  <2>4. OwnTcb(t, s) /\ LifeOK(s)' /\ CallOK(t)'
    BY <1>1, <2>1, <2>2, <2>3, <1>a DEF OwnTcb, LifeOK, CallOK
  <2>5. FreshOK(t)'
    BY <1>1, <1>2, <2>1, <2>2, <2>3 DEF FreshOK
  <2>. QED
    BY <1>a, <1>0, <2>4, <2>5, TcbStep
<1>4. CASE CloseFree(t)
  <2>1. UNCHANGED tests /\ UNCHANGED conn_info /\ Sock(t)' = s /\ pc'[t] = "close_clear"
    BY <1>a, <1>0, <1>4 DEF CloseFree, locals, Goto, Types, Sock
  <2>2. /\ tcb'[s].life = "freed" /\ tcb'[s].peer = tcb[s].peer
        /\ \A r \in Socks \ {s} : tcb'[r] = tcb[r]
    BY <1>0, <1>4 DEF CloseFree, MoreTypes, Tcbs
  <2>3. OwnTcb(t, s) /\ LifeOK(s)' /\ CallOK(t)'
    BY <2>1, <2>2, <1>a DEF OwnTcb, LifeOK, CallOK
  <2>4. FreshOK(t)'
    BY <1>1, <1>2, <2>1, <2>2 DEF FreshOK, Before
  <2>. QED
    BY <1>a, <1>0, <2>3, <2>4, TcbStep
<1>5. CASE CloseClear(t)
  <2>1. UNCHANGED tcb /\ conn_info' = conn_info \ {s} /\ pc'[t] \in {"done", "socket"}
        /\ tcb[s].life = "freed"
    BY <1>a, <1>0, <1>1, <1>5 DEF CloseClear, Ends, Goto, Types, CallOK, At
  <2>2. OwnTcb(t, s) /\ LifeOK(s)' /\ CallOK(t)'
    BY <2>1, <1>a DEF OwnTcb, LifeOK, CallOK
  <2>3. FreshOK(t)'
    <3>1. CASE tests[t] = Tests[t]
      <4>1. tests' = tests /\ pc'[t] = "done"
        BY <1>0, <1>5, <3>1 DEF CloseClear, Ends, Goto, Types
      <4>. QED
        BY <1>1, <2>1, <4>1 DEF FreshOK, Before
    <3>2. CASE tests[t] # Tests[t]
      <4>1. tests'[t] = tests[t] + 1 /\ tests[t] \in 1..Tests[t] /\ Tests[t] \in Nat
        BY <1>0, <1>5, <3>2, SocketsAssumption DEF CloseClear, Types
      <4>2. tests'[t] \in 1..Tests[t] /\ tests'[t] > tests[t]
        BY <3>2, <4>1, SMT
      <4>3. \A k \in 1..Tests[t] : k > tests'[t] => k > tests[t]
        BY <4>1, SMT
      <4>. QED
        BY <1>1, <2>1, <4>2, <4>3 DEF FreshOK, Sock
    <3>. QED
      BY <3>1, <3>2
  <2>. QED
    BY <1>a, <1>0, <2>2, <2>3, TcbStep
<1>. QED
  BY <1>3, <1>4, <1>5

\* The receive thread looks at tcbs that have been allocated, and leaves their
\* life, port and peer alone.
KeepsTcbs ==
    \A s \in Socks :
       /\ tcb'[s].life = tcb[s].life /\ tcb'[s].port = tcb[s].port /\ tcb'[s].peer = tcb[s].peer
       /\ tcb[s].life = "none" => tcb'[s] = tcb[s]

LEMMA ReceiveKeepsTcbs ==
    ASSUME TypeInv, TcbInv, Receive \/ \E s \in Socks : Segment(s)
    PROVE  KeepsTcbs
<1>1. CASE Deliver
  <2>. DEFINE new(r) == CASE r.state = "SYN_SENT"    -> [r EXCEPT !.state = "ESTABLISHED"]
                          [] r.state = "ESTABLISHED" -> [r EXCEPT !.data = 1]
                          [] r.state = "FIN_WAIT"    -> [r EXCEPT !.state = "CLOSED"]
                          [] OTHER                   -> r
  <2>0. PICK q : q = item[RX]
    OBVIOUS
  <2>1. UNCHANGED tcb \/ tcb' = [tcb EXCEPT ![q] = new(tcb[q])]
    BY <1>1, <2>0 DEF Deliver
  <2>2. q \in Socks /\ tcb[q].life # "none" /\ tcb[q] \in Tcbs /\ tcb \in [Socks -> Tcbs]
    BY <1>1, <2>0 DEF Deliver, At, TcbInv, RxOK, TypeInv, MoreTypes
  <2>3. /\ new(tcb[q]).life = tcb[q].life /\ new(tcb[q]).port = tcb[q].port
        /\ new(tcb[q]).peer = tcb[q].peer
    BY <2>2 DEF Tcbs
  <2>. HIDE DEF new
  <2>4. \A s \in Socks : tcb'[s] = tcb[s] \/ (s = q /\ tcb'[s] = new(tcb[q]))
    BY <2>1, <2>2
  <2>. QED
    BY <2>2, <2>3, <2>4 DEF KeepsTcbs
<1>2. CASE ~Deliver
  <2>1. UNCHANGED tcb
    BY <1>2 DEF Receive, Segment, WalkFirst, TcbTest, TcbCompare, TcbMissing, conns
  <2>. QED
    BY <2>1 DEF KeepsTcbs
<1>. QED
  BY <1>1, <1>2

LEMMA ReceiveTcb ==
    ASSUME TypeInv, TcbInv, OnlyReceive, KeepsTcbs, Receive \/ \E s \in Socks : Segment(s)
    PROVE  TcbInv'
<1>0. Types /\ MoreTypes /\ RX \in Walkers /\ \A t \in Threads : Sock(t) \in Socks /\ Sock(t)' = Sock(t)
  BY SockType DEF TypeInv, OwnInv, Walkers, OnlyReceive, Sock
<1>1. \A s \in Socks : LifeOK(s)'
  BY DEF TcbInv, LifeOK, OnlyReceive, KeepsTcbs
<1>2. ASSUME NEW t \in Threads PROVE FreshOK(t)' /\ CallOK(t)'
  <2>1. Before(t)' <=> Before(t)
    BY DEF OnlyReceive, Before
  <2>2. \A s \in Socks : tcb[s] = NoTcb => tcb'[s] = NoTcb
    BY SMT DEF KeepsTcbs, NoTcb
  <2>3. FreshOK(t)'
    <3>1. FreshOK(t)
      BY DEF TcbInv
    <3>. QED
      BY <1>0, <2>1, <2>2, <3>1, SockMember DEF FreshOK, OnlyReceive
  <2>4. CallOK(t)'
    <3>1. CallOK(t) /\ pc'[t] = pc[t]
      BY DEF TcbInv, OnlyReceive
    <3>2. /\ tcb'[Sock(t)'].life = tcb[Sock(t)].life
          /\ tcb'[Sock(t)'].peer = tcb[Sock(t)].peer
      BY <1>0 DEF KeepsTcbs
    <3>. QED
      BY <3>1, <3>2 DEF CallOK
  <2>. QED
    BY <2>3, <2>4
<1>3. RxOK'
  <2>1. CASE \E s \in Socks : Segment(s)
    <3>1. PICK s \in Socks : Segment(s)
      BY <2>1
    <3>2. wanted' = s /\ tcb[s].peer /\ pc'[RX] = "first"
      BY <1>0, <3>1 DEF Segment, WalkBegins, Goto, Types
    <3>. QED
      BY <3>2 DEF RxOK, KeepsTcbs
  <2>2. CASE Deliver
    <3>1. pc'[RX] = "idle"
      BY <1>0, <2>2 DEF Deliver, Goto, Types
    <3>. QED
      BY <3>1 DEF RxOK
  <2>3. CASE WalkFirst(RX) \/ TcbTest \/ TcbCompare \/ TcbMissing
    <3>1. pc[RX] # "idle" /\ UNCHANGED wanted
      BY <2>3 DEF WalkFirst, TcbTest, TcbCompare, TcbMissing, At
    <3>2. wanted \in Socks /\ tcb[wanted].peer /\ wanted' \in Socks /\ tcb'[wanted'].peer
      BY <3>1 DEF TcbInv, RxOK, KeepsTcbs
    <3>3. pc'[RX] \in {"deref", "deliver"} =>
            item'[RX] \in Socks /\ tcb[item'[RX]].life # "none"
      <4>1. CASE WalkFirst(RX) \/ TcbMissing
        BY <1>0, <4>1 DEF WalkFirst, TcbMissing, Goto, Types
      <4>2. CASE TcbTest
        <5>1. CASE Skip(item[RX])
          BY <4>2, <5>1 DEF TcbTest, At
        <5>2. CASE ~Skip(item[RX])
          BY <1>0, <4>2, <5>2 DEF TcbTest, Skip, TcbInv, LifeOK, MoreTypes
        <5>. QED
          BY <5>1, <5>2
      <4>3. CASE TcbCompare
        <5>1. item[RX] \in Socks /\ tcb[item[RX]].life # "none"
          BY <4>3 DEF TcbCompare, At, TcbInv, RxOK
        <5>2. UNCHANGED item \/ pc'[RX] = "walk"
          BY <1>0, <4>3 DEF TcbCompare, Goto, Types
        <5>. QED
          BY <5>1, <5>2
      <4>. QED
        BY <2>3, <4>1, <4>2, <4>3
    <3>. QED
      BY <3>2, <3>3 DEF RxOK, KeepsTcbs
  <2>. QED
    BY <2>1, <2>2, <2>3 DEF Receive
<1>. QED
  BY <1>1, <1>2, <1>3 DEF TcbInv

LEMMA InitTcb == ASSUME Init PROVE TcbInv
<1>1. \A s \in Socks : tcb[s] = NoTcb
  BY DEF Init
<1>2. \A t \in Threads : pc[t] = "socket" /\ Sock(t) \in Socks
  BY InitTypes, SockType, SocketsAssumption DEF Init, Walkers, TypeInv, OwnInv
<1>3. pc[RX] = "idle" /\ conn_info = {}
  BY DEF Init, Walkers
<1>4. NoTcb.life = "none" /\ NoTcb.peer = FALSE
  BY DEF NoTcb
<1>5. \A s \in Socks : LifeOK(s)
  BY <1>1, <1>3, <1>4 DEF LifeOK
<1>6. \A t \in Threads : FreshOK(t) /\ CallOK(t)
  BY <1>1, <1>2, SockMember DEF FreshOK, CallOK
<1>. QED
  BY <1>3, <1>5, <1>6 DEF TcbInv, RxOK

LEMMA NextTcb == ASSUME TypeInv, TcbInv, [Next]_vars PROVE TcbInv'
<1>1. CASE \E t \in Threads : Thread(t)
  <2>1. PICK t \in Threads : Thread(t)
    BY <1>1
  <2>2. OnlyThread(t)
    BY <2>1, ThreadFrame DEF TypeInv
  <2>. QED
    BY <2>1, <2>2, QuietSteps, ConnectTcb, UseTcb DEF Thread
<1>2. CASE Receive \/ \E s \in Socks : Segment(s)
  BY <1>2, ReceiveFrame, ReceiveKeepsTcbs, ReceiveTcb DEF TypeInv
<1>3. CASE UNCHANGED vars
  <2>1. UNCHANGED <<tcb, conn_info, wanted, item, tests, pc, call>>
    BY <1>3 DEF vars, conns, locals
  <2>. QED
    BY <2>1 DEF TcbInv, LifeOK, FreshOK, CallOK, RxOK, Before, Sock
<1>. QED
  BY <1>1, <1>2, <1>3 DEF Next

-----------------------------------------------------------------------------
(* Descriptors, and the life of a tcb.                                     *)

\* From list_add_tail's first store on, a thread's socket is in the list.
After == {"close_list", "publish", "call", "first", "walk"} \cup Found

\* A socket has a descriptor from socket on, and what has a tcb has one.
FdOK(t) ==
    /\ pc[t] \in {"add", "link"} \cup After => fd[Sock(t)] # 0
    /\ pc[t] = "socket" => fd[Sock(t)] = 0
    /\ \A k \in 1..Tests[t] : k > tests[t] => fd[<<t, k>>] = 0
FdInv == (\A t \in Threads : FdOK(t)) /\ \A s \in Socks : tcb[s].life # "none" => fd[s] # 0

\* connect allocates a tcb where there is none, close frees it, both on the
\* caller's socket; nothing else begins or ends its life.
LifeForward ==
    \A r \in Socks :
       \/ tcb'[r].life = tcb[r].life
       \/ /\ \E t \in Threads : pc[t] \in Found /\ r = Sock(t)
          /\ tcb'[r].life = "freed" \/ (tcb[r].life = "none" /\ tcb'[r].life = "live")

LEMMA LifeSteps == ASSUME TypeInv, TcbInv, [Next]_vars PROVE LifeForward
<1>0. MoreTypes /\ OwnSocket /\ Types
  BY DEF TypeInv, OwnInv
<1>1. CASE \E t \in Threads : Thread(t)
  <2>1. PICK t \in Threads : Thread(t)
    BY <1>1
  <2>2. PICK s \in Socks : s = Sock(t)
    BY <1>0, SockType
  <2>3. CASE Connect(t)
    <3>1. tcb' = [tcb EXCEPT ![s] = [NoTcb EXCEPT !.life = "live"]] /\ pc[t] = "connect"
      BY <1>0, <2>2, <2>3 DEF Connect, At, OwnSocket
    <3>2. tcb[s] = NoTcb
      BY <2>2, <3>1 DEF TcbInv, FreshOK, Before
    <3>3. tcb'[s].life = "live" /\ tcb[s].life = "none" /\ \A r \in Socks \ {s} : tcb'[r] = tcb[r]
      BY <1>0, <3>1, <3>2, SMT DEF MoreTypes, NoTcb
    <3>. QED
      BY <2>2, <3>1, <3>3 DEF LifeForward, Found
  <2>4. CASE CloseFree(t)
    <3>1. tcb' = [tcb EXCEPT ![s].life = "freed"] /\ pc[t] = "close_wait"
      BY <1>0, <2>2, <2>4 DEF CloseFree, At, OwnSocket
    <3>2. tcb'[s].life = "freed" /\ \A r \in Socks \ {s} : tcb'[r] = tcb[r]
      BY <1>0, <3>1 DEF MoreTypes, Tcbs
    <3>. QED
      BY <2>2, <3>1, <3>2 DEF LifeForward, Found
  <2>5. CASE GetPort(t) \/ ConnectSyn(t) \/ Recv(t) \/ Close(t)
    <3>1. item[t] = s
      BY <1>0, <2>2, <2>5 DEF GetPort, ConnectSyn, Recv, Close, At, OwnSocket
    <3>2. \A r \in Socks : tcb'[r].life = tcb[r].life
      BY <1>0, <2>5, <3>1, SMT DEF GetPort, ConnectSyn, Recv, Close, MoreTypes, Tcbs, conns
    <3>. QED
      BY <3>2 DEF LifeForward
  <2>6. CASE ~(Connect(t) \/ CloseFree(t) \/ GetPort(t) \/ ConnectSyn(t) \/ Recv(t) \/ Close(t))
    <3>1. UNCHANGED tcb
      BY <2>1, <2>6 DEF Thread, Socket, AddLoad, AddLink, AddClose, AddPublish, Lookup, WalkFirst,
               LookupStep, LookupFails, ConnectWoken, ConnectFails, Send, CloseFails, CloseClear, conns
    <3>. QED
      BY <3>1 DEF LifeForward
  <2>. QED
    BY <2>3, <2>4, <2>5, <2>6
<1>2. CASE Receive \/ \E s \in Socks : Segment(s)
  BY <1>2, ReceiveKeepsTcbs DEF KeepsTcbs, LifeForward
<1>3. CASE UNCHANGED vars
  BY <1>3 DEF vars, conns, LifeForward
<1>. QED
  BY <1>1, <1>2, <1>3 DEF Next

\* What a step does to where its thread is.
LEMMA ThreadMoves ==
    ASSUME TypeInv, NEW t \in Threads, Thread(t)
    PROVE  /\ pc'[t] \in After => pc[t] \in After \/ AddLink(t)
           /\ pc'[t] \in {"add", "link"} =>
                 (Socket(t) /\ FreeFd # {} /\ pc'[t] = "add") \/ (AddLoad(t) /\ pc'[t] = "link")
           /\ pc'[t] \in {"first", "walk", "deref"} => Lookup(t) \/ WalkFirst(t) \/ LookupStep(t)
           /\ pc'[t] = "socket" \/ tests' # tests => CloseClear(t)
           /\ errno'[t] = "EBADF" => errno[t] = "EBADF" \/ LookupFails(t)
<1>0. Types /\ MoreTypes /\ t \in Walkers
  BY DEF TypeInv, OwnInv, Walkers
<1>1. CASE Socket(t)
  BY <1>0, <1>1 DEF Socket, Ends, Goto, Types, MoreTypes, After, Found, locals
<1>2. CASE AddLoad(t) \/ AddLink(t) \/ AddClose(t) \/ AddPublish(t)
  BY <1>0, <1>2 DEF AddLoad, AddLink, AddClose, AddPublish, At, Goto, Types, After, Found, locals
<1>3. CASE Lookup(t) \/ WalkFirst(t)
  BY <1>0, <1>3 DEF Lookup, WalkFirst, WalkBegins, At, Goto, Types, After, locals
<1>4. CASE LookupStep(t)
  BY <1>0, <1>4 DEF LookupStep, At, Goto, Types, After, Found, locals
<1>5. CASE LookupFails(t)
  BY <1>0, <1>5 DEF LookupFails, Ends, Goto, Types, After, Found
<1>6. CASE Calling(t)
  <2>1. pc[t] \in After /\ pc'[t] \notin {"add", "link", "first", "walk", "deref", "socket"}
    BY <1>0, <1>6, CallMoves DEF Types, After
  <2>2. UNCHANGED tests /\ (errno'[t] = "EBADF" => errno[t] = "EBADF")
    BY <1>0, <1>6, CallMoves DEF MoreTypes
  <2>. QED
    BY <2>1, <2>2
<1>7. CASE CloseClear(t)
  BY <1>0, <1>7 DEF CloseClear, Ends, At, Goto, Types, MoreTypes, After, Found
<1>. QED
  BY <1>1, <1>2, <1>3, <1>4, <1>5, <1>6, <1>7 DEF Thread, Calling

LEMMA FdStep ==
    ASSUME TypeInv, TcbInv, FdInv, [Next]_vars, LifeForward,
           NEW t \in Threads, OnlyThread(t), FdOK(t)',
           \A s \in Socks : fd'[s] = fd[s] \/ (s = Sock(t) /\ fd'[s] # 0)
    PROVE  FdInv'
<1>0. Types /\ t \in Walkers /\ \A u \in Threads : Sock(u) \in Socks
  BY SockType DEF TypeInv, OwnInv, Walkers
<1>1. ASSUME NEW u \in Threads \ {t} PROVE FdOK(u)'
  <2>1. Sock(u)' = Sock(u) /\ Sock(u) # Sock(t) /\ pc'[u] = pc[u] /\ tests'[u] = tests[u]
    BY <1>0, SocketsAssumption DEF OnlyThread, Sock, Walkers
  <2>2. \A k \in 1..Tests[u] : <<u, k>> \in Socks /\ <<u, k>> # Sock(t)
    BY SockMember DEF Sock
  <2>3. FdOK(u)
    BY DEF FdInv
  <2>. QED
    BY <1>0, <2>1, <2>2, <2>3 DEF FdOK
<1>2. ASSUME NEW s \in Socks, tcb'[s].life # "none" PROVE fd'[s] # 0
  <2>1. tcb[s].life # "none" \/ \E u \in Threads : pc[u] \in Found /\ s = Sock(u)
    BY <1>2 DEF LifeForward
  <2>2. ASSUME NEW u \in Threads, pc[u] \in Found, s = Sock(u) PROVE fd[s] # 0
    <3>1. pc[u] \in {"add", "link"} \cup After
      BY <2>2 DEF After
    <3>. QED
      BY <2>2, <3>1 DEF FdInv, FdOK
  <2>3. tcb[s].life # "none" => fd[s] # 0
    BY DEF FdInv
  <2>. QED
    BY <2>1, <2>2, <2>3
<1>. QED
  BY <1>1, <1>2 DEF FdInv

LEMMA NextFd == ASSUME TypeInv, TcbInv, FdInv, [Next]_vars, LifeForward PROVE FdInv'
<1>0. Types /\ MoreTypes /\ \A u \in Threads : Sock(u) \in Socks
  BY SockType DEF TypeInv, OwnInv
<1>1. CASE \E t \in Threads : Thread(t)
  <2>1. PICK t \in Threads : Thread(t)
    BY <1>1
  <2>2. OnlyThread(t) /\ t \in Walkers
    BY <2>1, ThreadFrame DEF TypeInv, Walkers
  <2>3. FdOK(t) /\ \A k \in 1..Tests[t] : <<t, k>> \in Socks
    BY SockMember DEF FdInv
  <2>4. CASE Socket(t) /\ FreeFd # {}
    <3>. DEFINE low == CHOOSE i \in FreeFd : \A j \in FreeFd : i <= j
    <3>1. fd' = [fd EXCEPT ![Sock(t)] = low] /\ UNCHANGED tests /\ pc' = [pc EXCEPT ![t] = "add"]
      BY <2>4 DEF Socket, locals, Goto
    <3>2. low # 0
      <4>1. FreeFd \subseteq Nat /\ 0 \notin FreeFd
        BY SocketsAssumption, SMT DEF FreeFd
      <4>2. \E i \in FreeFd : \A j \in FreeFd : i <= j
        BY <2>4, <4>1, LeastNumber
      <4>3. low \in FreeFd
        BY <4>2
      <4>. QED
        BY <4>1, <4>3
    <3>. HIDE DEF low
    <3>3. fd'[Sock(t)] = low /\ \A s \in Socks \ {Sock(t)} : fd'[s] = fd[s]
      BY <1>0, <3>1 DEF Types
    <3>4. Sock(t)' = Sock(t) /\ pc'[t] = "add"
      BY <1>0, <2>2, <3>1 DEF Sock, Types
    <3>5. \A k \in 1..Tests[t] : k > tests[t] => <<t, k>> # Sock(t)
      BY <1>0, SMT DEF Sock, Types
    <3>6. FdOK(t)'
      BY <2>3, <3>1, <3>2, <3>3, <3>4, <3>5 DEF FdOK
    <3>. QED
      BY <2>2, <3>2, <3>3, <3>6, FdStep
  <2>5. CASE ~(Socket(t) /\ FreeFd # {})
    <3>1. UNCHANGED fd
      <4>1. CASE Socket(t)
        BY <2>5, <4>1 DEF Socket, fds
      <4>2. CASE ~Socket(t)
        BY <2>1, <4>2 DEF Thread, AddLoad, AddLink, AddClose, AddPublish, Lookup, WalkFirst,
               LookupStep, LookupFails, Connect, GetPort, ConnectSyn, ConnectWoken, ConnectFails, Send,
               Recv, Close, CloseFree, CloseFails, CloseClear, fds
      <4>. QED
        BY <4>1, <4>2
    <3>2. FdOK(t)'
      <4>1. CASE CloseClear(t)
        <5>1. CASE tests[t] = Tests[t]
          <6>1. tests' = tests /\ pc'[t] = "done"
            BY <1>0, <2>2, <4>1, <5>1 DEF CloseClear, Ends, Goto, Types
          <6>. QED
            BY <2>3, <3>1, <6>1 DEF FdOK, After, Found
        <5>2. CASE tests[t] # Tests[t]
          <6>1. tests'[t] = tests[t] + 1 /\ tests[t] \in 1..Tests[t] /\ Tests[t] \in Nat
                /\ pc'[t] = "socket"
            BY <1>0, <2>2, <4>1, <5>2, SocketsAssumption DEF CloseClear, Types, Goto
          <6>2. tests'[t] \in 1..Tests[t] /\ tests'[t] > tests[t]
            BY <5>2, <6>1, SMT
          <6>3. \A k \in 1..Tests[t] : k > tests'[t] => k > tests[t]
            BY <6>1, SMT
          <6>. QED
            BY <2>3, <3>1, <6>1, <6>2, <6>3 DEF FdOK, Sock, After, Found
        <5>. QED
          BY <5>1, <5>2
      <4>2. CASE ~CloseClear(t)
        <5>1. /\ UNCHANGED tests /\ pc'[t] # "socket"
              /\ pc'[t] \in After => pc[t] \in After \/ AddLink(t)
              /\ pc'[t] \in {"add", "link"} => AddLoad(t)
          BY <2>1, <2>5, <4>2, ThreadMoves
        <5>2. (AddLink(t) => pc[t] = "link") /\ (AddLoad(t) => pc[t] = "add")
          BY DEF AddLink, AddLoad, At
        <5>3. Sock(t)' = Sock(t)
          BY <5>1 DEF Sock
        <5>. QED
          BY <2>3, <3>1, <5>1, <5>2, <5>3 DEF FdOK
      <4>. QED
        BY <4>1, <4>2
    <3>. QED
      BY <2>2, <3>1, <3>2, FdStep
  <2>. QED
    BY <2>4, <2>5
<1>2. CASE (Receive \/ \E s \in Socks : Segment(s)) \/ UNCHANGED vars
  <2>1. UNCHANGED <<fd, tests>> /\ \A t \in Threads : pc'[t] = pc[t]
    BY <1>2, ReceiveFrame DEF OnlyReceive, vars, fds, locals, TypeInv
  <2>2. \A t \in Threads : FdOK(t)'
    BY <2>1 DEF FdInv, FdOK, Sock
  <2>3. \A s \in Socks : tcb'[s].life # "none" => fd'[s] # 0
    <3>1. \A u \in Threads : pc[u] \in Found => fd[Sock(u)] # 0
      BY DEF FdInv, FdOK, After
    <3>. QED
      BY <2>1, <3>1 DEF FdInv, LifeForward
  <2>. QED
    BY <2>2, <2>3 DEF FdInv
<1>. QED
  BY <1>1, <1>2 DEF Next

LEMMA InitFd == ASSUME Init PROVE FdInv
<1>1. \A t \in Threads : pc[t] = "socket" /\ Sock(t) \in Socks
  BY InitTypes, SockType, SocketsAssumption DEF Init, Walkers, TypeInv, OwnInv
<1>2. \A s \in Socks : fd[s] = 0 /\ tcb[s].life = "none"
  BY DEF Init, NoTcb
<1>. QED
  BY <1>1, <1>2, SockMember DEF FdInv, FdOK, After, Found

-----------------------------------------------------------------------------
(* The list, as long as no two calls of list_add_tail have overlapped.     *)

Appending == {"link", "close_list", "publish"}

\* The stores of list_add_tail so far, by where the caller is.
AppendOK(t) ==
    /\ pc[t] = "link" => tail[t] = last
    /\ pc[t] \in {"close_list", "publish"} => nxt[last] = Sock(t)
    /\ pc[t] \in {"add", "link", "close_list"} => nxt[Sock(t)] = Sock(t) /\ last # Sock(t)
    /\ pc[t] = "publish" => nxt[Sock(t)] = anp_sockets_cache

\* One thread appends at a time, the last entry closes the list unless one
\* does, and a socket without a descriptor is not linked.
AppendInv ==
    /\ \A t \in Threads : AppendOK(t)
    /\ \A t, u \in Threads : pc[t] \in Appending /\ pc[u] \in Appending => t = u
    /\ (\A t \in Threads : pc[t] \notin {"close_list", "publish"}) => nxt[last] = anp_sockets_cache
    /\ \A s \in Socks : fd[s] = 0 => nxt[s] = s /\ last # s

\* A walk from the head comes to s: of every socket that is returned, and of
\* every one that has a tcb.
Listed(s) == Reaches(nxt, anp_sockets_cache, nxt[anp_sockets_cache], s)
ListedInv ==
    /\ last # anp_sockets_cache => Listed(last)
    /\ \A t \in Threads : pc[t] \in After => Listed(Sock(t))
    /\ \A s \in Socks : tcb[s].life # "none" => Listed(s)

\* The walk of w has not passed s.
Ahead(w, s) ==
    /\ pc[w] = "first" => Reaches(nxt, anp_sockets_cache, item[w], s)
    /\ pc[w] \in {"walk", "deref"} =>
          /\ item[w] # anp_sockets_cache
          /\ item[w] = s \/ Reaches(nxt, anp_sockets_cache, tmp[w], s)

\* No lookup passes the caller's socket, and get_tcb does not pass the tcb of
\* an open connection.
WalkInv ==
    /\ \A t \in Threads : Ahead(t, Sock(t)) /\ errno[t] # "EBADF"
    /\ pc[RX] # "idle" /\ tcb[wanted].life = "live" => Ahead(RX, wanted) /\ pc[RX] # "lost"
    /\ crashed => \E s \in Socks : tcb[s].life = "freed"

\* Each of the three properties needs the whole of it.
ListInv == raced \/ (AppendInv /\ ListedInv /\ WalkInv)

\* The entries, once for the proofs.
LEMMA Heads ==
    ASSUME TypeInv
    PROVE  /\ nxt \in [Nodes -> Nodes] /\ last \in Nodes /\ anp_sockets_cache \in Nodes
           /\ \A s \in Socks : s \in Nodes /\ s # anp_sockets_cache
           /\ \A w \in Walkers : item[w] \in Nodes /\ tmp[w] \in Nodes
           /\ nxt[anp_sockets_cache] \in Nodes
BY SocketsAssumption DEF TypeInv, OwnInv, Types, Nodes

\* A store to the next pointer of an entry that is last, or not linked yet, at
\* most.
SafeStore ==
    \/ UNCHANGED nxt
    \/ \E n, k \in Nodes : nxt[n] \in {n, anp_sockets_cache} /\ nxt' = [nxt EXCEPT ![n] = k]

\* It hides no entry from a walk, wherever the walk is.
LEMMA SafeStoreKeeps ==
    ASSUME TypeInv, SafeStore, NEW s \in Socks
    PROVE  /\ \A x : Reaches(nxt, anp_sockets_cache, x, s) => Reaches(nxt', anp_sockets_cache, x, s)
           /\ Listed(s) => Listed(s)'
<1>0. /\ nxt \in [Nodes -> Nodes] /\ anp_sockets_cache \in Nodes
      /\ s \in Nodes /\ s # anp_sockets_cache
  BY Heads
<1>1. CASE UNCHANGED nxt
  BY <1>1 DEF Listed
<1>2. CASE \E n, k \in Nodes : nxt[n] \in {n, anp_sockets_cache} /\ nxt' = [nxt EXCEPT ![n] = k]
  <2>1. PICK n \in Nodes, k \in Nodes :
           nxt[n] \in {n, anp_sockets_cache} /\ nxt' = [nxt EXCEPT ![n] = k]
    BY <1>2
  <2>2. ASSUME NEW x, Reaches(nxt, anp_sockets_cache, x, s)
        PROVE  Reaches(nxt', anp_sockets_cache, x, s)
    BY <1>0, <2>1, <2>2, StoreKeepsReaches
  <2>3. Listed(s) => Listed(s)'
    BY <1>0, <2>1, StoreKeepsListed DEF Listed
  <2>. QED
    BY <2>2, <2>3
<1>. QED
  BY <1>1, <1>2 DEF SafeStore

\* A step of list_for_each_safe, on an entry that is not the one looked for.
LEMMA StepAhead ==
    ASSUME TypeInv, NEW x \in Nodes, NEW s \in Socks, Reaches(nxt, anp_sockets_cache, x, s)
    PROVE  x # anp_sockets_cache /\ (x = s \/ Reaches(nxt, anp_sockets_cache, nxt[x], s))
<1>0. /\ nxt \in [Nodes -> Nodes] /\ anp_sockets_cache \in Nodes
      /\ s \in Nodes /\ s # anp_sockets_cache
  BY Heads
<1>1. x # anp_sockets_cache
  BY <1>0, HeadReachesNone
<1>. QED
  BY <1>0, <1>1, ReachesOn

\* What a step of another thread does to the append of u.
LEMMA OthersAppend ==
    ASSUME TypeInv, AppendInv, NEW t \in Threads, OnlyThread(t), NEW u \in Threads \ {t},
           UNCHANGED <<nxt, last>>
    PROVE  AppendOK(u)'
<1>1. pc'[u] = pc[u] /\ tail'[u] = tail[u] /\ Sock(u)' = Sock(u)
  BY SocketsAssumption DEF OnlyThread, Sock, Walkers
<1>2. AppendOK(u)
  BY DEF AppendInv
<1>. QED
  BY <1>1, <1>2 DEF AppendOK

\* list_add_tail, and the socket before it.
LEMMA SocketAppend ==
    ASSUME TypeInv, FdInv, AppendInv, NEW t \in Threads, OnlyThread(t), Socket(t), FreeFd # {}
    PROVE  AppendInv' /\ UNCHANGED <<nxt, last>>
<1>0. Types /\ t \in Walkers /\ Sock(t) \in Socks /\ Sock(t) \in Nodes
  BY SockType DEF TypeInv, OwnInv, Walkers
<1>1. pc[t] = "socket" /\ pc'[t] = "add" /\ UNCHANGED <<last, tests>> /\ nxt' = [nxt EXCEPT ![Sock(t)] = Sock(t)]
      /\ \A s \in Socks : s # Sock(t) => fd'[s] = fd[s]
  BY <1>0 DEF Socket, At, Goto, Types, locals
<1>2. fd[Sock(t)] = 0
  BY <1>1 DEF FdInv, FdOK
<1>3. nxt[Sock(t)] = Sock(t) /\ last # Sock(t)
  BY <1>0, <1>2 DEF AppendInv
<1>4. nxt' = nxt
  BY <1>0, <1>1, <1>3 DEF Types
<1>5. Sock(t)' = Sock(t) /\ \A u \in Threads \ {t} : pc'[u] = pc[u]
  BY <1>1 DEF Sock, OnlyThread, Walkers
<1>6. \A u \in Threads \ {t} : AppendOK(u)'
  BY <1>1, <1>4, OthersAppend
<1>7. AppendOK(t)'
  BY <1>1, <1>3, <1>4, <1>5 DEF AppendOK
<1>8. \A s \in Socks : fd'[s] = 0 => nxt'[s] = s /\ last' # s
  BY <1>1, <1>3, <1>4 DEF AppendInv
<1>. QED
  BY <1>1, <1>4, <1>5, <1>6, <1>7, <1>8 DEF AppendInv, Appending

LEMMA LoadAppend ==
    ASSUME TypeInv, AppendInv, NEW t \in Threads, OnlyThread(t), AddLoad(t), ~raced'
    PROVE  AppendInv' /\ UNCHANGED <<nxt, last>>
<1>0. Types /\ t \in Walkers
  BY DEF TypeInv, OwnInv, Walkers
<1>1. /\ pc[t] = "add" /\ pc'[t] = "link" /\ tail'[t] = last /\ UNCHANGED <<nxt, last, fd, tests>>
      /\ \A u \in Threads \ {t} : pc[u] \notin Appending
  BY <1>0 DEF AddLoad, At, Goto, Types, locals, list, fds, Appending
<1>2. Sock(t)' = Sock(t) /\ \A u \in Threads \ {t} : pc'[u] = pc[u]
  BY <1>1 DEF Sock, OnlyThread, Walkers
<1>3. \A u \in Threads \ {t} : AppendOK(u)'
  BY <1>1, OthersAppend
<1>4. AppendOK(t)'
  BY <1>1, <1>2 DEF AppendOK, AppendInv
<1>5. \A u, v \in Threads : pc'[u] \in Appending /\ pc'[v] \in Appending => u = v
  BY <1>1, <1>2
<1>6. (\A u \in Threads : pc'[u] \notin {"close_list", "publish"}) => nxt[last] = anp_sockets_cache
  <2>1. \A u \in Threads \ {t} : pc[u] \notin {"close_list", "publish"}
    BY <1>1 DEF Appending
  <2>. QED
    BY <1>1, <2>1 DEF AppendInv
<1>. QED
  BY <1>1, <1>3, <1>4, <1>5, <1>6 DEF AppendInv

LEMMA LinkAppend ==
    ASSUME TypeInv, FdInv, AppendInv, ListedInv, NEW t \in Threads, OnlyThread(t), AddLink(t)
    PROVE  AppendInv' /\ SafeStore /\ UNCHANGED last /\ Listed(Sock(t))'
<1>0. Types /\ t \in Walkers /\ Sock(t) \in Socks /\ Sock(t) \in Nodes /\ last \in Nodes
      /\ anp_sockets_cache \in Nodes
  BY SockType, Heads DEF TypeInv, OwnInv, Walkers
<1>1. /\ pc[t] = "link" /\ pc'[t] = "close_list" /\ UNCHANGED <<last, fd, tests>>
      /\ nxt' = [nxt EXCEPT ![tail[t]] = Sock(t)]
  BY <1>0 DEF AddLink, LinkFrom, At, Goto, Types, locals, fds
<1>2. /\ AppendOK(t) /\ \A u \in Threads \ {t} : pc[u] \notin Appending /\ AppendOK(u)
      /\ nxt[last] = anp_sockets_cache
  BY <1>1 DEF AppendInv, Appending
<1>3. nxt' = [nxt EXCEPT ![last] = Sock(t)] /\ nxt[Sock(t)] = Sock(t) /\ last # Sock(t)
  BY <1>1, <1>2 DEF AppendOK
<1>4. /\ Sock(t)' = Sock(t)
      /\ \A u \in Threads \ {t} : pc'[u] = pc[u] /\ Sock(u)' = Sock(u) /\ Sock(u) \in Nodes
  BY <1>0, <1>1, SockType DEF Sock, OnlyThread, Walkers
<1>5. nxt'[last] = Sock(t) /\ \A n \in Nodes \ {last} : nxt'[n] = nxt[n]
  BY <1>0, <1>3 DEF Types
<1>6. ASSUME NEW u \in Threads \ {t} PROVE AppendOK(u)'
  <2>1. /\ pc'[u] \notin {"link", "close_list", "publish"}
        /\ pc'[u] = pc[u] /\ Sock(u)' = Sock(u) /\ Sock(u) \in Nodes
    BY <1>2, <1>4 DEF Appending
  <2>2. pc[u] = "add" => nxt[Sock(u)] = Sock(u) /\ last # Sock(u)
    BY <1>2 DEF AppendOK
  <2>. QED
    BY <1>1, <1>5, <2>1, <2>2 DEF AppendOK
<1>7. AppendOK(t)'
  BY <1>0, <1>1, <1>3, <1>4, <1>5 DEF AppendOK
<1>8. \A s \in Socks : fd'[s] = 0 => nxt'[s] = s /\ last' # s
  BY <1>1, <1>5 DEF AppendInv, Nodes
<1>9. AppendInv'
  <2>1. \A u \in Threads : pc'[u] \in Appending => u = t
    BY <1>2, <1>4
  <2>. QED
    BY <1>1, <1>6, <1>7, <1>8, <2>1 DEF AppendInv
<1>10. SafeStore
  BY <1>0, <1>2, <1>3 DEF SafeStore
<1>11. Listed(Sock(t))'
  <2>1. /\ nxt \in [Nodes -> Nodes] /\ anp_sockets_cache \in Nodes /\ last \in Nodes
        /\ Sock(t) \in Nodes /\ nxt[last] = anp_sockets_cache
        /\ last # anp_sockets_cache => Reaches(nxt, anp_sockets_cache, nxt[anp_sockets_cache], last)
    BY <1>0, <1>2 DEF Types, ListedInv, Listed
  <2>2. PICK s \in Nodes : s = Sock(t)
    BY <2>1
  <2>3. Reaches([nxt EXCEPT ![last] = s], anp_sockets_cache,
                [nxt EXCEPT ![last] = s][anp_sockets_cache], s)
    BY <2>1, AppendedIsListed
  <2>. QED
    BY <1>3, <1>4, <2>2, <2>3 DEF Listed
<1>. QED
  BY <1>1, <1>9, <1>10, <1>11

LEMMA CloseAppend ==
    ASSUME TypeInv, FdInv, AppendInv, NEW t \in Threads, OnlyThread(t), AddClose(t)
    PROVE  AppendInv' /\ SafeStore /\ UNCHANGED last
<1>0. Types /\ t \in Walkers /\ Sock(t) \in Socks /\ Sock(t) \in Nodes /\ last \in Nodes
      /\ anp_sockets_cache \in Nodes
  BY SockType, Heads DEF TypeInv, OwnInv, Walkers
<1>1. /\ pc[t] = "close_list" /\ pc'[t] = "publish" /\ UNCHANGED <<last, fd, tests>>
      /\ nxt' = [nxt EXCEPT ![Sock(t)] = anp_sockets_cache]
  BY <1>0 DEF AddClose, NextOfNew, At, Goto, Types, locals, fds
<1>2. AppendOK(t) /\ \A u \in Threads \ {t} : pc[u] \notin Appending /\ AppendOK(u)
  BY <1>1 DEF AppendInv, Appending
<1>3. nxt[last] = Sock(t) /\ nxt[Sock(t)] = Sock(t) /\ last # Sock(t) /\ fd[Sock(t)] # 0
  BY <1>1, <1>2 DEF AppendOK, FdInv, FdOK, After
<1>4. /\ Sock(t)' = Sock(t)
      /\ \A u \in Threads \ {t} : pc'[u] = pc[u] /\ Sock(u)' = Sock(u) /\ Sock(u) \in Nodes
                                  /\ Sock(u) # Sock(t)
  BY <1>0, <1>1, SockType DEF Sock, OnlyThread, Walkers
<1>5. nxt'[Sock(t)] = anp_sockets_cache /\ \A n \in Nodes \ {Sock(t)} : nxt'[n] = nxt[n]
  BY <1>0, <1>1 DEF Types
<1>6. \A u \in Threads \ {t} : AppendOK(u)'
  BY <1>1, <1>2, <1>4, <1>5 DEF AppendOK, Appending
<1>7. AppendOK(t)'
  BY <1>0, <1>1, <1>3, <1>4, <1>5 DEF AppendOK
<1>8. \A s \in Socks : fd'[s] = 0 => nxt'[s] = s /\ last' # s
  BY <1>1, <1>3, <1>5 DEF AppendInv, Nodes
<1>9. AppendInv'
  <2>1. \A u \in Threads : pc'[u] \in Appending => u = t
    BY <1>2, <1>4
  <2>. QED
    BY <1>1, <1>6, <1>7, <1>8, <2>1 DEF AppendInv
<1>10. SafeStore
  BY <1>0, <1>1, <1>3 DEF SafeStore
<1>. QED
  BY <1>1, <1>9, <1>10

LEMMA PublishAppend ==
    ASSUME TypeInv, FdInv, AppendInv, NEW t \in Threads, OnlyThread(t), AddPublish(t)
    PROVE  AppendInv' /\ UNCHANGED nxt /\ last' = Sock(t)
<1>0. Types /\ t \in Walkers /\ Sock(t) \in Socks
  BY SockType DEF TypeInv, OwnInv, Walkers
<1>1. /\ pc[t] = "publish" /\ pc'[t] = "call" /\ UNCHANGED <<nxt, fd, tests>> /\ last' = Sock(t)
  BY <1>0 DEF AddPublish, At, Goto, Types, locals, fds
<1>2. AppendOK(t) /\ \A u \in Threads \ {t} : pc[u] \notin Appending /\ AppendOK(u)
  BY <1>1 DEF AppendInv, Appending
<1>3. nxt[Sock(t)] = anp_sockets_cache /\ fd[Sock(t)] # 0
  BY <1>1, <1>2 DEF AppendOK, FdInv, FdOK, After
<1>4. \A u \in Threads \ {t} : pc'[u] = pc[u] /\ Sock(u)' = Sock(u) /\ Sock(u) # Sock(t)
  BY <1>1 DEF Sock, OnlyThread, Walkers
<1>5. \A u \in Threads \ {t} : AppendOK(u)'
  BY <1>1, <1>2, <1>4 DEF AppendOK, Appending
<1>6. AppendOK(t)'
  BY <1>1 DEF AppendOK
<1>7. \A s \in Socks : fd'[s] = 0 => nxt'[s] = s /\ last' # s
  BY <1>1, <1>3 DEF AppendInv
<1>8. \A u \in Threads : pc'[u] \notin Appending
  BY <1>1, <1>2, <1>4 DEF Appending
<1>. QED
  BY <1>1, <1>3, <1>5, <1>6, <1>7, <1>8 DEF AppendInv

\* The other steps of a thread are no part of list_add_tail.
LEMMA QuietAppend ==
    ASSUME TypeInv, AppendInv, NEW t \in Threads, OnlyThread(t), UNCHANGED <<nxt, last, fd>>,
           pc[t] \notin {"close_list", "publish"}, pc'[t] \notin {"add"} \cup Appending
    PROVE  AppendInv'
<1>1. \A u \in Threads \ {t} : AppendOK(u)' /\ pc'[u] = pc[u]
  BY OthersAppend DEF OnlyThread, Walkers
<1>2. AppendOK(t)'
  BY DEF AppendOK, Appending
<1>3. \A u \in Threads : pc'[u] \in Appending => pc[u] \in Appending
  BY <1>1
<1>. QED
  BY <1>1, <1>2, <1>3 DEF AppendInv, Appending

LEMMA ThreadAppend ==
    ASSUME TypeInv, FdInv, AppendInv, ListedInv, NEW t \in Threads, OnlyThread(t), Thread(t), ~raced'
    PROVE  /\ AppendInv' /\ SafeStore
           /\ last' = last \/ (AddPublish(t) /\ last' = Sock(t))
           /\ AddLink(t) => Listed(Sock(t))'
<1>0. Types /\ t \in Walkers
  BY DEF TypeInv, OwnInv, Walkers
<1>. DEFINE Others == \/ Lookup(t) \/ WalkFirst(t) \/ LookupStep(t) \/ LookupFails(t) \/ CloseClear(t)
<1>1. CASE Socket(t) /\ FreeFd # {}
  BY <1>1, SocketAppend DEF SafeStore, Socket, AddLink, At
<1>2. CASE AddLoad(t)
  BY <1>2, LoadAppend DEF SafeStore, AddLoad, AddLink, At
<1>3. CASE AddLink(t)
  BY <1>3, LinkAppend
<1>4. CASE AddClose(t)
  BY <1>4, CloseAppend DEF AddClose, AddLink, At
<1>5. CASE AddPublish(t)
  BY <1>5, PublishAppend DEF SafeStore, AddPublish, AddLink, At
<1>6. CASE (Socket(t) /\ FreeFd = {}) \/ Others \/ Calling(t)
  <2>1. /\ UNCHANGED <<nxt, last, fd>> /\ pc[t] \notin {"close_list", "publish", "link"}
        /\ pc'[t] \notin {"add", "link"}
    <3>1. CASE Socket(t) /\ FreeFd = {}
      BY <1>0, <3>1 DEF Socket, Ends, At, Goto, Types, list, fds
    <3>2. CASE Others
      <4>1. UNCHANGED <<nxt, last, fd>>
        BY <3>2 DEF Lookup, WalkFirst, LookupStep, LookupFails, CloseClear, list, fds
      <4>2. pc[t] \in {"call", "first", "walk", "close_clear"}
        BY <3>2 DEF Lookup, WalkFirst, LookupStep, LookupFails, CloseClear, At
      <4>. QED
        BY <4>1, <4>2, ThreadMoves DEF Socket, AddLoad, At
    <3>3. CASE Calling(t)
      BY <1>0, <3>3, CallMoves DEF Found, Types
    <3>. QED
      BY <1>6, <3>1, <3>2, <3>3
  <2>2. pc'[t] \notin {"close_list", "publish"}
    <3>1. CASE Socket(t) /\ FreeFd = {}
      BY <1>0, <3>1 DEF Socket, Ends, Goto, Types
    <3>2. CASE Lookup(t) \/ WalkFirst(t) \/ LookupFails(t)
      BY <1>0, <3>2 DEF Lookup, WalkFirst, LookupFails, WalkBegins, Ends, Goto, Types
    <3>3. CASE LookupStep(t) \/ CloseClear(t)
      BY <1>0, <3>3 DEF LookupStep, CloseClear, Ends, Goto, At, Types
    <3>4. CASE Calling(t)
      BY <1>0, <3>4, CallMoves DEF Types
    <3>. QED
      BY <1>6, <3>1, <3>2, <3>3, <3>4
  <2>3. AppendInv'
    BY <2>1, <2>2, QuietAppend DEF Appending
  <2>. QED
    BY <2>1, <2>3 DEF SafeStore, AddLink, At
<1>. QED
  BY <1>1, <1>2, <1>3, <1>4, <1>5, <1>6 DEF Thread, Calling

\* Every socket stays listed.
LEMMA ThreadListed ==
    ASSUME TypeInv, FdInv, AppendInv, ListedInv, LifeForward, NEW t \in Threads, OnlyThread(t), Thread(t),
           SafeStore, last' = last \/ (AddPublish(t) /\ last' = Sock(t)),
           AddLink(t) => Listed(Sock(t))'
    PROVE  ListedInv'
<1>0. Types /\ \A u \in Threads : Sock(u) \in Socks
  BY SockType DEF TypeInv, OwnInv
<1>1. \A s \in Socks : Listed(s) => Listed(s)'
  BY SafeStoreKeeps
<1>2. ASSUME last' # anp_sockets_cache PROVE Reaches(nxt', anp_sockets_cache, nxt'[anp_sockets_cache], last')
  <2>1. PICK s \in Socks : s = last'
    BY <1>0, <1>2 DEF Types, Nodes
  <2>2. Listed(s)
    <3>1. CASE last' = last
      BY <1>2, <2>1, <3>1 DEF ListedInv
    <3>2. CASE AddPublish(t) /\ last' = Sock(t)
      BY <2>1, <3>2 DEF ListedInv, AddPublish, At, After
    <3>. QED
      BY <3>1, <3>2
  <2>3. Listed(s)'
    BY <1>1, <2>2
  <2>. QED
    BY <2>1, <2>3 DEF Listed
<1>3. ASSUME NEW u \in Threads, pc'[u] \in After PROVE Listed(Sock(u))'
  <2>1. CASE AddLink(t) /\ u = t
    BY <2>1
  <2>2. CASE ~(AddLink(t) /\ u = t)
    <3>1. pc[u] \in After /\ Sock(u)' = Sock(u)
      <4>1. CASE u = t
        <5>1. pc[t] \in After
          BY <1>3, <2>2, <4>1, ThreadMoves
        <5>2. ~CloseClear(t) \/ UNCHANGED tests
          <6>1. t \in Walkers
            BY DEF Walkers
          <6>. QED
            BY <1>0, <1>3, <4>1, <6>1 DEF CloseClear, Goto, Ends, Types, After, Found
        <5>3. UNCHANGED tests
          BY <5>2, ThreadMoves
        <5>. QED
          BY <4>1, <5>1, <5>3 DEF Sock
      <4>2. CASE u # t
        BY <1>3, <4>2, SocketsAssumption DEF OnlyThread, Sock, Walkers
      <4>. QED
        BY <4>1, <4>2
    <3>2. PICK s \in Socks : s = Sock(u)
      BY <1>0
    <3>3. Listed(s)'
      BY <1>1, <3>1, <3>2 DEF ListedInv
    <3>. QED
      BY <3>1, <3>2, <3>3 DEF Listed
  <2>. QED
    BY <2>1, <2>2
<1>4. ASSUME NEW s \in Socks, tcb'[s].life # "none" PROVE Listed(s)'
  <2>1. tcb[s].life # "none" \/ \E u \in Threads : pc[u] \in Found /\ s = Sock(u)
    BY <1>4 DEF LifeForward
  <2>2. Listed(s)
    BY <2>1 DEF ListedInv, After
  <2>. QED
    BY <1>1, <2>2
<1>5. (last # anp_sockets_cache => Listed(last))'
  BY <1>2 DEF Listed
<1>. QED
  BY <1>3, <1>4, <1>5 DEF ListedInv

\* A walk that does not move keeps what it has before it.
LEMMA StandingAhead ==
    ASSUME TypeInv, SafeStore, NEW w \in Walkers, NEW s \in Socks, Ahead(w, s),
           pc'[w] = pc[w], item'[w] = item[w], tmp'[w] = tmp[w]
    PROVE  Ahead(w, s)'
BY SafeStoreKeeps DEF Ahead

\* The steps of a walk, of a lookup or of get_tcb.
LEMMA BeginAhead ==
    ASSUME TypeInv, NEW w \in Walkers, NEW s \in Socks, Listed(s), UNCHANGED nxt, WalkBegins(w)
    PROVE  Ahead(w, s)'
<1>1. item'[w] = nxt[anp_sockets_cache] /\ pc'[w] = "first"
  BY DEF WalkBegins, Goto, TypeInv, OwnInv, Types
<1>. QED
  BY <1>1 DEF Ahead, Listed

LEMMA FirstAhead ==
    ASSUME TypeInv, NEW w \in Walkers, NEW s \in Socks, Ahead(w, s), WalkFirst(w)
    PROVE  Ahead(w, s)'
<1>1. /\ pc[w] = "first" /\ pc'[w] = "walk" /\ item'[w] = item[w] /\ tmp'[w] = nxt[item[w]]
      /\ UNCHANGED nxt /\ item[w] \in Nodes
  BY DEF WalkFirst, At, Goto, TypeInv, OwnInv, Types, list
<1>2. Reaches(nxt, anp_sockets_cache, item[w], s)
  BY <1>1 DEF Ahead
<1>3. item[w] # anp_sockets_cache /\ (item[w] = s \/ Reaches(nxt, anp_sockets_cache, nxt[item[w]], s))
  BY <1>1, <1>2, StepAhead
<1>. QED
  BY <1>1, <1>3 DEF Ahead

LEMMA NextAhead ==
    ASSUME TypeInv, NEW w \in Walkers, NEW s \in Socks, Ahead(w, s), item[w] # s,
           pc[w] \in {"walk", "deref"}, pc'[w] = "walk", UNCHANGED nxt, WalkNext(w)
    PROVE  Ahead(w, s)'
<1>1. item'[w] = tmp[w] /\ tmp'[w] = nxt[tmp[w]] /\ tmp[w] \in Nodes
  BY DEF WalkNext, TypeInv, OwnInv, Types
<1>2. Reaches(nxt, anp_sockets_cache, tmp[w], s)
  BY DEF Ahead
<1>3. tmp[w] # anp_sockets_cache /\ (tmp[w] = s \/ Reaches(nxt, anp_sockets_cache, nxt[tmp[w]], s))
  BY <1>1, <1>2, StepAhead
<1>. QED
  BY <1>1, <1>3 DEF Ahead

\* No lookup passes the caller's socket.
LEMMA ThreadWalk ==
    ASSUME TypeInv, TcbInv, FdInv, ListedInv, WalkInv, LifeForward, SafeStore,
           NEW t \in Threads, OnlyThread(t), Thread(t)
    PROVE  WalkInv'
<1>0. /\ Types /\ t \in Walkers /\ RX \in Walkers /\ RX # t /\ \A u \in Threads : Sock(u) \in Socks
  BY SockType, SocketsAssumption DEF TypeInv, OwnInv, Walkers
<1>1. ASSUME NEW u \in Threads \ {t} PROVE Ahead(u, Sock(u))' /\ errno'[u] # "EBADF"
  <2>1. /\ u \in Walkers /\ Sock(u)' = Sock(u) /\ pc'[u] = pc[u] /\ item'[u] = item[u]
        /\ tmp'[u] = tmp[u] /\ errno'[u] = errno[u]
    BY DEF OnlyThread, Sock, Walkers
  <2>2. PICK s \in Socks : s = Sock(u)
    BY <1>0
  <2>3. Ahead(u, s)'
    BY <2>1, <2>2, StandingAhead DEF WalkInv
  <2>. QED
    BY <2>1, <2>2, <2>3 DEF WalkInv, Ahead
<1>2. Ahead(t, Sock(t))' /\ errno'[t] # "EBADF"
  <2>1. PICK s \in Socks : s = Sock(t)
    BY <1>0
  <2>2. Ahead(t, s) /\ errno[t] # "EBADF"
    BY <2>1 DEF WalkInv
  <2>3. ~LookupFails(t)
    BY <2>2 DEF LookupFails, At, Ahead
  <2>4. errno'[t] # "EBADF"
    BY <2>2, <2>3, ThreadMoves
  <2>5. CASE Lookup(t) \/ WalkFirst(t) \/ LookupStep(t)
    <3>1. UNCHANGED tests /\ UNCHANGED nxt
      BY <2>5 DEF Lookup, WalkFirst, LookupStep, locals, list
    <3>2. Ahead(t, s)'
      <4>1. CASE Lookup(t)
        BY <1>0, <2>1, <3>1, <4>1, BeginAhead DEF Lookup, At, ListedInv, After
      <4>2. CASE WalkFirst(t)
        BY <1>0, <2>2, <4>2, FirstAhead
      <4>3. CASE LookupStep(t)
        <5>1. CASE fd[item[t]] = fd[Sock(t)]
          <6>1. pc'[t] \notin {"first", "walk", "deref"}
            BY <1>0, <4>3, <5>1 DEF LookupStep, Goto, Types
          <6>. QED
            BY <6>1 DEF Ahead
        <5>2. CASE fd[item[t]] # fd[Sock(t)]
          <6>1. WalkNext(t) /\ pc[t] = "walk" /\ pc'[t] = "walk" /\ item[t] # s
            BY <2>1, <4>3, <5>2 DEF LookupStep, At
          <6>. QED
            BY <1>0, <2>2, <3>1, <6>1, NextAhead
        <5>. QED
          BY <5>1, <5>2
      <4>. QED
        BY <2>5, <4>1, <4>2, <4>3
    <3>3. Sock(t)' = s
      BY <2>1, <3>1 DEF Sock
    <3>. QED
      BY <2>4, <3>2, <3>3 DEF Ahead
  <2>6. CASE ~(Lookup(t) \/ WalkFirst(t) \/ LookupStep(t))
    <3>1. pc'[t] \notin {"first", "walk", "deref"}
      BY <2>6, ThreadMoves
    <3>. QED
      BY <2>4, <3>1 DEF Ahead
  <2>. QED
    BY <2>5, <2>6
<1>3. ASSUME pc'[RX] # "idle", tcb'[wanted'].life = "live"
      PROVE  Ahead(RX, wanted)' /\ pc'[RX] # "lost"
  <2>1. wanted' = wanted /\ pc'[RX] = pc[RX] /\ item'[RX] = item[RX] /\ tmp'[RX] = tmp[RX]
    BY <1>0 DEF OnlyThread
  <2>2. PICK s \in Socks : s = wanted
    BY <1>3, <2>1 DEF TcbInv, RxOK
  <2>3. tcb[s].life # "none"
    BY <1>3, <2>1, <2>2 DEF TcbInv, RxOK, LifeOK
  <2>4. tcb[s].life = "live"
    BY <1>3, <2>1, <2>2, <2>3 DEF LifeForward
  <2>5. Ahead(RX, s) /\ pc[RX] # "lost"
    BY <1>3, <2>1, <2>2, <2>4 DEF WalkInv
  <2>6. Ahead(RX, s)'
    BY <1>0, <2>1, <2>5, StandingAhead
  <2>. QED
    BY <2>1, <2>2, <2>5, <2>6 DEF Ahead
<1>4. ASSUME crashed' PROVE \E s \in Socks : tcb'[s].life = "freed"
  <2>1. crashed
    BY <1>4 DEF Thread, Socket, AddLoad, AddLink, AddClose, AddPublish, Lookup, WalkFirst, LookupStep,
         LookupFails, Connect, GetPort, ConnectSyn, ConnectWoken, ConnectFails, Send, Recv, Close,
         CloseFree, CloseFails, CloseClear, history
  <2>2. PICK s \in Socks : tcb[s].life = "freed"
    BY <2>1 DEF WalkInv
  <2>. QED
    BY <2>2 DEF LifeForward
<1>. QED
  BY <1>1, <1>2, <1>3, <1>4 DEF WalkInv

\* get_tcb does not pass the tcb of an open connection, and meets no NULL and
\* nothing freed before a close.
LEMMA ReceiveWalk ==
    ASSUME TypeInv, TcbInv, ListedInv, WalkInv, KeepsTcbs, OnlyReceive,
           Receive \/ \E s \in Socks : Segment(s)
    PROVE  WalkInv'
<1>0. /\ Types /\ RX \in Walkers /\ \A t \in Threads : Sock(t) \in Socks /\ t \in Walkers
      /\ UNCHANGED nxt /\ SafeStore /\ MoreTypes
  BY SockType DEF TypeInv, OwnInv, Walkers, OnlyReceive, SafeStore
<1>1. ASSUME NEW u \in Threads PROVE Ahead(u, Sock(u))' /\ errno'[u] # "EBADF"
  <2>1. /\ Sock(u)' = Sock(u) /\ pc'[u] = pc[u] /\ item'[u] = item[u]
        /\ tmp'[u] = tmp[u] /\ errno'[u] = errno[u]
    BY DEF OnlyReceive, Sock
  <2>. QED
    BY <1>0, <2>1 DEF WalkInv, Ahead
<1>2. ASSUME pc'[RX] # "idle", tcb'[wanted'].life = "live"
      PROVE  Ahead(RX, wanted)' /\ pc'[RX] # "lost"
  <2>1. CASE \E s \in Socks : Segment(s)
    <3>1. PICK s \in Socks : Segment(s)
      BY <2>1
    <3>2. wanted' = s /\ tcb[s].peer /\ WalkBegins(RX)
      BY <3>1 DEF Segment
    <3>3. Listed(s)
      BY <3>2 DEF ListedInv, TcbInv, LifeOK
    <3>4. Ahead(RX, s)'
      BY <1>0, <3>2, <3>3, BeginAhead
    <3>5. pc'[RX] = "first"
      BY <1>0, <3>2 DEF WalkBegins, Goto, Types
    <3>. QED
      BY <3>2, <3>4, <3>5 DEF Ahead
  <2>2. CASE WalkFirst(RX) \/ TcbTest \/ TcbCompare \/ TcbMissing
    <3>1. pc[RX] # "idle" /\ UNCHANGED wanted
      BY <2>2 DEF WalkFirst, TcbTest, TcbCompare, TcbMissing, At
    <3>2. PICK s \in Socks : s = wanted
      BY <3>1 DEF TcbInv, RxOK
    <3>3. tcb[s].life = "live" /\ tcb[s].peer /\ s \in conn_info
      BY <1>2, <3>1, <3>2 DEF TcbInv, RxOK, LifeOK, KeepsTcbs
    <3>4. Ahead(RX, s) /\ pc[RX] # "lost"
      BY <3>1, <3>2, <3>3 DEF WalkInv
    <3>5. Ahead(RX, s)' /\ pc'[RX] # "lost"
      <4>1. CASE WalkFirst(RX)
        <5>1. pc'[RX] = "walk"
          BY <1>0, <4>1 DEF WalkFirst, Goto, Types
        <5>. QED
          BY <1>0, <3>4, <4>1, <5>1, FirstAhead
      <4>2. CASE TcbTest
        <5>1. CASE Skip(item[RX])
          <6>1. item[RX] # s /\ pc[RX] = "walk" /\ pc'[RX] = "walk" /\ WalkNext(RX)
            BY <3>3, <4>2, <5>1 DEF TcbTest, At, Skip
          <6>. QED
            BY <1>0, <3>4, <6>1, NextAhead
        <5>2. CASE ~Skip(item[RX])
          <6>1. pc[RX] = "walk" /\ pc'[RX] = "deref" /\ UNCHANGED <<item, tmp>>
            BY <1>0, <4>2, <5>2 DEF TcbTest, At, Goto, Types
          <6>. QED
            BY <1>0, <3>4, <6>1 DEF Ahead
        <5>. QED
          BY <5>1, <5>2
      <4>3. CASE TcbCompare
        <5>1. pc[RX] = "deref"
          BY <4>3 DEF TcbCompare, At
        <5>2. CASE UNCHANGED <<pc, item, tmp>>
          BY <1>0, <3>4, <5>2 DEF Ahead
        <5>3. CASE pc'[RX] = "deliver"
          BY <5>3 DEF Ahead
        <5>4. CASE /\ ~TcbMatches(item[RX]) \/ tcb[item[RX]].life = "freed"
                   /\ WalkNext(RX) /\ pc'[RX] = "walk"
          <6>1. item[RX] # s
            BY <3>2, <3>3, <5>4 DEF TcbMatches
          <6>. QED
            BY <1>0, <3>4, <5>1, <5>4, <6>1, NextAhead
        <5>. QED
          BY <1>0, <4>3, <5>2, <5>3, <5>4 DEF TcbCompare, Goto, Types
      <4>4. CASE TcbMissing
        BY <3>4, <4>4 DEF TcbMissing, At, Ahead
      <4>. QED
        BY <2>2, <4>1, <4>2, <4>3, <4>4
    <3>. QED
      BY <3>1, <3>2, <3>5 DEF Ahead
  <2>3. CASE Deliver
    BY <1>0, <1>2, <2>3 DEF Deliver, Goto, Types
  <2>. QED
    BY <2>1, <2>2, <2>3 DEF Receive
<1>3. ASSUME crashed' PROVE \E s \in Socks : tcb'[s].life = "freed"
  <2>1. SUFFICES \E s \in Socks : tcb[s].life = "freed"
    BY DEF KeepsTcbs
  <2>2. CASE crashed
    BY <2>2 DEF WalkInv
  <2>3. CASE ~crashed
    <3>1. TcbCompare \/ TcbMissing \/ Deliver
      BY <1>3, <2>3 DEF Receive, Segment, WalkFirst, TcbTest, history
    <3>2. CASE TcbCompare
      <4>1. /\ item[RX] \notin conn_info /\ item[RX] \in Socks /\ tcb[item[RX]].life # "none"
        BY <1>3, <2>3, <3>2 DEF TcbCompare, At, history, TcbInv, RxOK
      <4>2. tcb[item[RX]].life = "freed"
        <5>1. tcb[item[RX]].life \in {"none", "live", "freed"}
          BY <1>0, <4>1 DEF MoreTypes, Tcbs
        <5>. QED
          BY <4>1, <5>1 DEF TcbInv, LifeOK
      <4>. QED
        BY <4>1, <4>2
    <3>3. CASE TcbMissing
      <4>1. /\ pc[RX] = "walk" /\ item[RX] = anp_sockets_cache
        BY <3>3 DEF TcbMissing, At
      <4>2. wanted \in Socks /\ tcb[wanted].life # "none"
        BY <4>1 DEF TcbInv, RxOK, LifeOK
      <4>3. tcb[wanted].life # "live"
        BY <4>1 DEF WalkInv, Ahead
      <4>4. tcb[wanted].life \in {"none", "live", "freed"}
        BY <1>0, <4>2 DEF MoreTypes, Tcbs
      <4>. QED
        BY <4>2, <4>3, <4>4
    <3>4. CASE Deliver
      <4>1. item[RX] \in Socks
        BY <3>4 DEF Deliver, At, TcbInv, RxOK
      <4>. QED
        BY <1>3, <2>3, <3>4, <4>1 DEF Deliver, history
    <3>. QED
      BY <3>1, <3>2, <3>3, <3>4
  <2>. QED
    BY <2>2, <2>3
<1>. QED
  BY <1>1, <1>2, <1>3 DEF WalkInv

-----------------------------------------------------------------------------
SocketsInv == TypeInv /\ TcbInv /\ FdInv /\ ListInv

LEMMA NextList ==
    ASSUME TypeInv, TcbInv, FdInv, ListInv, LifeForward, [Next]_vars
    PROVE  ListInv'
<1>1. CASE raced'
  BY <1>1 DEF ListInv
<1>2. CASE ~raced'
  <2>1. ~raced
    <3>1. CASE \E t \in Threads : AddLoad(t)
      BY <1>2, <3>1 DEF AddLoad
    <3>2. CASE \A t \in Threads : ~AddLoad(t)
      <4>1. UNCHANGED raced
        BY <3>2 DEF Next, Thread, Socket, AddLink, AddClose, AddPublish, Lookup, WalkFirst, LookupStep,
         LookupFails, Connect, GetPort, ConnectSyn, ConnectWoken, ConnectFails, Send, Recv, Close,
         CloseFree, CloseFails, CloseClear, Receive, Segment, TcbTest, TcbCompare, TcbMissing, Deliver,
         Crash, history, vars
      <4>. QED
        BY <1>2, <4>1
    <3>. QED
      BY <3>1, <3>2
  <2>2. AppendInv /\ ListedInv /\ WalkInv
    BY <2>1 DEF ListInv
  <2>3. CASE \E t \in Threads : Thread(t)
    <3>1. PICK t \in Threads : Thread(t)
      BY <2>3
    <3>2. OnlyThread(t)
      BY <3>1, ThreadFrame DEF TypeInv
    <3>3. /\ AppendInv' /\ SafeStore
          /\ last' = last \/ (AddPublish(t) /\ last' = Sock(t))
          /\ AddLink(t) => Listed(Sock(t))'
      BY <1>2, <2>2, <3>1, <3>2, ThreadAppend
    <3>4. ListedInv'
      BY <2>2, <3>1, <3>2, <3>3, NextTypes, ThreadListed
    <3>5. WalkInv'
      BY <2>2, <3>1, <3>2, <3>3, ThreadWalk
    <3>. QED
      BY <3>3, <3>4, <3>5 DEF ListInv
  <2>4. CASE Receive \/ \E s \in Socks : Segment(s)
    <3>1. OnlyReceive /\ KeepsTcbs
      BY <2>4, ReceiveFrame, ReceiveKeepsTcbs DEF TypeInv
    <3>2. WalkInv'
      BY <2>2, <2>4, <3>1, ReceiveWalk
    <3>3. UNCHANGED <<nxt, last, fd, tail, tests>> /\ \A t \in Threads : pc'[t] = pc[t]
      BY <3>1 DEF OnlyReceive
    <3>4. AppendInv'
      BY <2>2, <3>3 DEF AppendInv, AppendOK, Sock
    <3>5. ListedInv'
      BY <2>2, <3>1, <3>3 DEF ListedInv, Listed, Sock, KeepsTcbs
    <3>. QED
      BY <3>2, <3>4, <3>5 DEF ListInv
  <2>5. CASE UNCHANGED vars
    <3>1. /\ UNCHANGED <<nxt, last, fd, tail, tests, pc, item>>
          /\ UNCHANGED <<tmp, tcb, errno, wanted, crashed>>
      BY <2>5 DEF vars, list, fds, conns, locals, history
    <3>2. AppendInv'
      BY <2>2, <3>1 DEF AppendInv, AppendOK, Sock
    <3>3. ListedInv'
      BY <2>2, <3>1 DEF ListedInv, Listed, Sock
    <3>4. WalkInv'
      BY <2>2, <3>1 DEF WalkInv, Ahead, Sock
    <3>. QED
      BY <3>2, <3>3, <3>4 DEF ListInv
  <2>. QED
    BY <2>3, <2>4, <2>5 DEF Next
<1>. QED
  BY <1>1, <1>2

LEMMA InitList == ASSUME Init PROVE ListInv
<1>0. TypeInv /\ \A t \in Threads : Sock(t) \in Socks /\ Sock(t) \in Nodes
  BY InitTypes, SockType DEF TypeInv, OwnInv
<1>1. /\ \A t \in Threads : pc[t] = "socket" /\ errno[t] = "none"
      /\ last = anp_sockets_cache /\ anp_sockets_cache \in Nodes /\ anp_sockets_cache \notin Socks
      /\ pc[RX] = "idle" /\ crashed = FALSE
      /\ \A n \in Nodes : nxt[n] = n
      /\ \A s \in Socks : s \in Nodes /\ tcb[s].life = "none"
  BY SocketsAssumption DEF Init, Walkers, Nodes, NoTcb
<1>2. AppendInv
  BY <1>0, <1>1 DEF AppendInv, AppendOK, Appending
<1>3. ListedInv
  BY <1>1 DEF ListedInv, After, Found
<1>4. WalkInv
  BY <1>1 DEF WalkInv, Ahead
<1>. QED
  BY <1>2, <1>3, <1>4 DEF ListInv

\* The whole inductive invariant of the socket table: types and descriptors, the
\* life of the tcbs, and, until two calls of list_add_tail overlap, what is
\* linked and what every walk still has before it.
THEOREM SocketsInvariant == Spec => []SocketsInv
<1>1. Init => SocketsInv
  BY InitTypes, InitTcb, InitFd, InitList DEF SocketsInv
<1>2. SocketsInv /\ [Next]_vars => SocketsInv'
  <2>. SUFFICES ASSUME SocketsInv, [Next]_vars PROVE SocketsInv'
    OBVIOUS
  <2>1. LifeForward
    BY LifeSteps DEF SocketsInv
  <2>. QED
    BY <2>1, NextTypes, NextTcb, NextFd, NextList DEF SocketsInv
<1>. QED
  BY <1>1, <1>2, PTL DEF Spec

\* For any number of threads and sockets, and any interleaving of their appends
\* and walks with each other: a call on a descriptor that socket returned
\* answers EBADF only if two calls of list_add_tail overlapped.
THEOREM LookupFinds == Spec => []FoundUnlessRaced
<1>1. SocketsInv => FoundUnlessRaced
  BY DEF SocketsInv, ListInv, WalkInv, FoundUnlessRaced
<1>. QED
  BY <1>1, SocketsInvariant, PTL

\* get_tcb answers NULL for an open connection only if two calls of
\* list_add_tail overlapped.
THEOREM SegmentFinds == Spec => []OpenIsFound
<1>1. SocketsInv => OpenIsFound
  BY DEF SocketsInv, ListInv, WalkInv, OpenIsFound
<1>. QED
  BY <1>1, SocketsInvariant, PTL

\* The receive thread uses NULL or freed memory only after a close has freed a
\* tcb, or if two calls of list_add_tail overlapped.
THEOREM CrashOnlyAfterClose == Spec => []CrashNeedsClose
<1>1. SocketsInv => CrashNeedsClose
  BY DEF SocketsInv, ListInv, WalkInv, CrashNeedsClose
<1>. QED
  BY <1>1, SocketsInvariant, PTL

-----------------------------------------------------------------------------
(* Ports.  Descriptors are never given back, so the sockets that have a    *)
(* port are at most FdCount; get_port comes back to a port after PortSpace *)
(* calls.                                                                  *)

\* The sockets get_port has answered.
Assigned ==
    {s \in Socks : tcb[s].peer \/ \E t \in Threads : pc[t] = "syn" /\ s = Sock(t)}
Used == {fd[s] : s \in Assigned}

\* How many calls of get_port ago a port was answered.
Behind(p) == IF p <= available_port THEN available_port - p ELSE available_port + PortSpace - p

PortInv ==
    /\ \A s \in Assigned : Behind(tcb[s].port) < Cardinality(Used)
    /\ \A r, s \in Assigned : tcb[r].port = tcb[s].port => r = s
    /\ OwnSegment

\* get_port counts, and begins again after the last port.
LEMMA PortAfter ==
    ASSUME NEW a \in 0..PortSpace - 1
    PROVE  (a + 1) % PortSpace = IF a + 1 = PortSpace THEN 0 ELSE a + 1
BY SocketsAssumption, SMT

LEMMA FewDescriptors ==
    ASSUME NEW S \in SUBSET (1..FdCount)
    PROVE  IsFiniteSet(S) /\ Cardinality(S) \in Nat /\ Cardinality(S) <= FdCount
<1>1. 1 \in Int /\ FdCount \in Int /\ FdCount >= 1
  BY SocketsAssumption, SMT
<1>2. IsFiniteSet(1..FdCount)
      /\ Cardinality(1..FdCount) = IF 1 > FdCount THEN 0 ELSE FdCount - 1 + 1
  BY <1>1, FS_Interval
<1>3. IsFiniteSet(S) /\ Cardinality(S) <= Cardinality(1..FdCount)
  BY <1>2, FS_Subset
<1>4. Cardinality(S) \in Nat
  BY <1>3, FS_CardinalityType
<1>. QED
  BY <1>1, <1>2, <1>3, <1>4, SMT

LEMMA UsedFinite ==
    ASSUME TypeInv, TcbInv, FdInv
    PROVE  /\ \A s \in Assigned : s \in Socks /\ fd[s] # 0 /\ fd[s] \in 1..FdCount
           /\ Used \subseteq 1..FdCount
           /\ IsFiniteSet(Used) /\ Cardinality(Used) \in Nat
<1>1. ASSUME NEW s \in Assigned PROVE s \in Socks /\ fd[s] # 0 /\ fd[s] \in 1..FdCount
  <2>1. s \in Socks /\ tcb[s].life # "none"
    BY DEF Assigned, TcbInv, LifeOK, CallOK
  <2>2. fd[s] # 0 /\ fd[s] \in 0..FdCount
    BY <2>1 DEF FdInv, TypeInv, OwnInv, Types
  <2>. QED
    BY <2>1, <2>2, SocketsAssumption, SMT
<1>2. Used \subseteq 1..FdCount
  BY <1>1 DEF Used
<1>. QED
  BY <1>1, <1>2, FewDescriptors

\* A step that gives no port.
SamePorts ==
    /\ Assigned' = Assigned /\ UNCHANGED available_port
    /\ \A s \in Assigned : tcb'[s].port = tcb[s].port /\ fd'[s] = fd[s]

LEMMA SamePortsKeep ==
    ASSUME PortInv, SamePorts, OwnSegment'
    PROVE  PortInv'
<1>1. Used' = Used
  BY DEF SamePorts, Used
<1>2. \A s \in Assigned : Behind(tcb[s].port)' = Behind(tcb[s].port)
  BY DEF SamePorts, Behind
<1>. QED
  BY <1>1, <1>2, SMT DEF PortInv, SamePorts

\* A port is new while there are no more descriptors than ports.
LEMMA GetPortNew ==
    ASSUME TypeInv, TcbInv, FdInv, PortInv, TypeInv', FdCount <= PortSpace,
           NEW t \in Threads, OnlyThread(t), GetPort(t)
    PROVE  PortInv'
<1>0. /\ Types /\ MoreTypes /\ t \in Walkers /\ PortSpace \in Nat /\ FdCount \in Nat
      /\ available_port \in 0..PortSpace - 1 /\ available_port' \in 0..PortSpace - 1
      /\ \A u \in Threads : Sock(u) \in Socks
  BY SockType, SocketsAssumption DEF TypeInv, OwnInv, Walkers, MoreTypes
<1>1. PICK s \in Socks : s = Sock(t)
  BY <1>0
<1>2. /\ pc[t] = "port" /\ pc'[t] = "syn" /\ UNCHANGED <<fd, tests>>
      /\ tcb' = [tcb EXCEPT ![s].port = NextPort] /\ available_port' = NextPort
  BY <1>0, <1>1 DEF GetPort, At, Goto, Types, TypeInv, OwnInv, OwnSocket, fds, locals
<1>3. /\ tcb'[s].port = NextPort /\ tcb'[s].peer = tcb[s].peer
      /\ \A r \in Socks \ {s} : tcb'[r] = tcb[r]
  BY <1>0, <1>2 DEF MoreTypes, Tcbs
<1>4. ~tcb[s].peer
  BY <1>1, <1>2 DEF TcbInv, CallOK
<1>5. s \notin Assigned /\ Assigned' = Assigned \cup {s}
  <2>1. \A u \in Threads : Sock(u)' = Sock(u)
    BY <1>2 DEF Sock
  <2>2. \A u \in Threads \ {t} : pc'[u] = pc[u] /\ Sock(u) # s
    BY <1>1, SocketsAssumption DEF OnlyThread, Sock, Walkers
  <2>3. \A r \in Socks : tcb'[r].peer = tcb[r].peer
    BY <1>3
  <2>4. s \notin Assigned
    BY <1>1, <1>2, <1>4, <2>2 DEF Assigned
  <2>5. \A r \in Socks \ {s} : (\E u \in Threads : pc'[u] = "syn" /\ r = Sock(u)')
                               <=> \E u \in Threads : pc[u] = "syn" /\ r = Sock(u)
    BY <1>1, <2>1, <2>2
  <2>6. \A r \in Socks \ {s} : r \in Assigned' <=> r \in Assigned
    BY <2>3, <2>5 DEF Assigned
  <2>7. s \in Assigned'
    BY <1>1, <1>2, <2>1 DEF Assigned
  <2>8. Assigned \subseteq Socks /\ Assigned' \subseteq Socks
    BY DEF Assigned
  <2>. QED
    BY <2>4, <2>6, <2>7, <2>8
<1>6. Cardinality(Used') = Cardinality(Used) + 1 /\ Cardinality(Used) < FdCount
  <2>1. Used' = Used \cup {fd[s]}
    BY <1>2, <1>5 DEF Used
  <2>2. fd[s] \notin Used /\ fd[s] \in 1..FdCount
    <3>1. fd[s] # 0 /\ fd[s] \in 0..FdCount
      BY <1>0, <1>1, <1>2 DEF FdInv, FdOK, After, Found, Types
    <3>2. fd[s] \notin Used
      <4>. SUFFICES ASSUME NEW r \in Assigned, fd[r] = fd[s] PROVE FALSE
        BY DEF Used
      <4>1. r \in Socks /\ r # s /\ s \in Socks
        BY <1>5, UsedFinite
      <4>. QED
        BY <3>1, <4>1 DEF TypeInv, OwnInv, DescInv
    <3>. QED
      BY <1>0, <3>1, <3>2, SMT
  <2>3. IsFiniteSet(Used) /\ Cardinality(Used) \in Nat /\ Used' \in SUBSET (1..FdCount)
    BY <2>1, <2>2, UsedFinite
  <2>4. Cardinality(Used') = Cardinality(Used) + 1
    BY <2>1, <2>2, <2>3, FS_AddElement
  <2>5. Cardinality(Used') <= FdCount
    BY <2>3, FewDescriptors
  <2>. QED
    BY <1>0, <2>3, <2>4, <2>5, SMT
<1>7. \A p \in 0..PortSpace - 1 :
         /\ p = NextPort => Behind(p) = PortSpace - 1 /\ Behind(p)' = 0
         /\ p # NextPort => Behind(p)' = Behind(p) + 1
         /\ Behind(p) \in Nat
  <2>1. available_port' = IF available_port + 1 = PortSpace THEN 0 ELSE available_port + 1
    BY <1>0, <1>2, PortAfter DEF NextPort
  <2>. QED
    BY <1>0, <1>2, <2>1, SMT DEF Behind
<1>8. \A r \in Assigned : tcb[r].port \in 0..PortSpace - 1 /\ r \in Socks \ {s}
  BY <1>0, <1>5 DEF Assigned, MoreTypes, Tcbs
<1>9. \A r \in Assigned : tcb[r].port # NextPort
  <2>. SUFFICES ASSUME NEW r \in Assigned, tcb[r].port = NextPort PROVE FALSE
    OBVIOUS
  <2>1. Behind(tcb[r].port) = PortSpace - 1 /\ Behind(tcb[r].port) < Cardinality(Used)
    BY <1>7, <1>8 DEF PortInv
  <2>2. Cardinality(Used) \in Nat
    BY UsedFinite
  <2>. QED
    BY <1>0, <1>6, <2>1, <2>2, SMT
<1>10. \A r \in Assigned' : Behind(tcb[r].port)' < Cardinality(Used')
  <2>1. NextPort \in 0..PortSpace - 1 /\ Cardinality(Used) \in Nat
    BY <1>0, <1>2, UsedFinite
  <2>2. Behind(tcb[s].port)' = 0
    BY <1>2, <1>3, <1>7, <2>1 DEF Behind
  <2>3. ASSUME NEW r \in Assigned PROVE Behind(tcb[r].port)' < Cardinality(Used')
    <3>1. PICK p \in 0..PortSpace - 1 : p = tcb[r].port /\ p = tcb'[r].port
      BY <1>3, <1>8
    <3>2. Behind(p)' = Behind(p) + 1 /\ Behind(p) < Cardinality(Used) /\ Behind(p) \in Nat
      BY <1>7, <1>9, <3>1 DEF PortInv
    <3>3. Behind(tcb[r].port)' = Behind(p)'
      BY <3>1 DEF Behind
    <3>4. Behind(p) + 1 < Cardinality(Used) + 1
      BY <2>1, <3>2, SMT
    <3>. QED
      BY <1>6, <3>2, <3>3, <3>4
  <2>4. 0 < Cardinality(Used')
    BY <1>6, <2>1, SMT
  <2>. QED
    BY <1>5, <2>2, <2>3, <2>4
<1>11. \A q, r \in Assigned' : tcb'[q].port = tcb'[r].port => q = r
  BY <1>3, <1>5, <1>8, <1>9, SMT DEF PortInv
<1>12. OwnSegment'
  BY SocketsAssumption DEF PortInv, OwnSegment, OnlyThread, Walkers
<1>. QED
  BY <1>10, <1>11, <1>12 DEF PortInv

\* The other steps of a thread.
LEMMA ThreadPorts ==
    ASSUME TypeInv, TcbInv, FdInv, PortInv, NEW t \in Threads, OnlyThread(t), Thread(t), ~GetPort(t)
    PROVE  PortInv'
<1>0. /\ Types /\ MoreTypes /\ t \in Walkers /\ \A u \in Threads : Sock(u) \in Socks
      /\ RX \notin Threads
  BY SockType, SocketsAssumption DEF TypeInv, OwnInv, Walkers
<1>1. PICK s \in Socks : s = Sock(t)
  BY <1>0
<1>2. OwnSegment'
  BY <1>0 DEF PortInv, OwnSegment, OnlyThread, Walkers
<1>3. UNCHANGED available_port
  BY DEF Thread, Socket, AddLoad, AddLink, AddClose, AddPublish, Lookup, WalkFirst, LookupStep,
         LookupFails, Connect, ConnectSyn, ConnectWoken, ConnectFails, Send, Recv, Close,
         CloseFree, CloseFails, CloseClear, conns
<1>4. \A r \in Assigned : r \in Socks /\ fd'[r] = fd[r]
  <2>1. UNCHANGED fd \/ (Socket(t) /\ FreeFd # {})
    <3>1. CASE Socket(t)
      BY <3>1 DEF Socket, fds
    <3>2. CASE ~Socket(t)
      BY <3>2 DEF Thread, AddLoad, AddLink, AddClose, AddPublish, Lookup, WalkFirst,
             LookupStep, LookupFails, Connect, GetPort, ConnectSyn, ConnectWoken, ConnectFails, Send,
             Recv, Close, CloseFree, CloseFails, CloseClear, fds
    <3>. QED
      BY <3>1, <3>2
  <2>2. CASE Socket(t) /\ FreeFd # {}
    <3>1. fd[Sock(t)] = 0 /\ \A r \in Socks : r # Sock(t) => fd'[r] = fd[r]
      BY <1>0, <2>2 DEF FdInv, FdOK, Socket, At, Types
    <3>. QED
      BY <3>1, UsedFinite
  <2>. QED
    BY <2>1, <2>2, UsedFinite
<1>5. \A u \in Threads \ {t} : pc'[u] = pc[u] /\ Sock(u)' = Sock(u) /\ Sock(u) # s
  BY <1>0, <1>1 DEF OnlyThread, Sock, Walkers
<1>6. CASE Connect(t)
  <2>1. tcb' = [tcb EXCEPT ![s] = [NoTcb EXCEPT !.life = "live"]] /\ pc[t] = "connect" /\ pc'[t] = "port"
    BY <1>0, <1>1, <1>6 DEF Connect, At, Goto, Types, TypeInv, OwnInv, OwnSocket
  <2>2. tcb[s] = NoTcb
    BY <1>1, <2>1 DEF TcbInv, FreshOK, Before
  <2>3. /\ tcb[s].peer = FALSE /\ tcb'[s].peer = FALSE /\ \A r \in Socks \ {s} : tcb'[r] = tcb[r]
    BY <1>0, <2>1, <2>2, SMT DEF MoreTypes, NoTcb
  <2>4. s \notin Assigned /\ s \notin Assigned'
    BY <1>1, <1>5, <2>1, <2>3 DEF Assigned
  <2>5. \A r \in Socks \ {s} : r \in Assigned' <=> r \in Assigned
    <3>1. \A r \in Socks : (\E u \in Threads : pc'[u] = "syn" /\ r = Sock(u)')
                               <=> \E u \in Threads : pc[u] = "syn" /\ r = Sock(u)
      BY <1>5, <2>1
    <3>. QED
      BY <2>3, <3>1 DEF Assigned
  <2>6. Assigned' = Assigned
    BY <2>4, <2>5 DEF Assigned
  <2>. QED
    BY <1>2, <1>3, <1>4, <2>3, <2>4, <2>6, SamePortsKeep DEF SamePorts
<1>7. CASE ConnectSyn(t)
  <2>1. /\ tcb' = [tcb EXCEPT ![s].peer = TRUE, ![s].state = "SYN_SENT"]
        /\ pc[t] = "syn" /\ pc'[t] = "connect_wait"
    BY <1>0, <1>1, <1>7 DEF ConnectSyn, At, Goto, Types, TypeInv, OwnInv, OwnSocket
  <2>2. /\ tcb'[s].peer = TRUE /\ tcb'[s].port = tcb[s].port
        /\ \A r \in Socks \ {s} : tcb'[r] = tcb[r]
    BY <1>0, <2>1 DEF MoreTypes, Tcbs
  <2>3. s \in Assigned /\ s \in Assigned'
    BY <1>1, <2>1, <2>2 DEF Assigned
  <2>4. \A r \in Socks \ {s} : r \in Assigned' <=> r \in Assigned
    <3>1. \A r \in Socks \ {s} : (\E u \in Threads : pc'[u] = "syn" /\ r = Sock(u)')
                               <=> \E u \in Threads : pc[u] = "syn" /\ r = Sock(u)
      BY <1>1, <1>5, <2>1
    <3>. QED
      BY <2>2, <3>1 DEF Assigned
  <2>5. Assigned' = Assigned
    BY <2>3, <2>4 DEF Assigned
  <2>. QED
    BY <1>2, <1>3, <1>4, <2>2, <2>5, SamePortsKeep DEF SamePorts
<1>8. CASE ~Connect(t) /\ ~ConnectSyn(t)
  <2>1. \A r \in Socks : tcb'[r].peer = tcb[r].peer /\ tcb'[r].port = tcb[r].port
    <3>1. CASE Recv(t) \/ Close(t) \/ CloseFree(t)
      <4>1. item[t] = s
        BY <1>1, <3>1 DEF Recv, Close, CloseFree, At, TypeInv, OwnInv, OwnSocket
      <4>. QED
        BY <1>0, <3>1, <4>1, SMT DEF Recv, Close, CloseFree, MoreTypes, Tcbs, conns
    <3>2. CASE ~(Recv(t) \/ Close(t) \/ CloseFree(t))
      <4>1. UNCHANGED tcb
        BY <1>8, <3>2 DEF Thread, Socket, AddLoad, AddLink, AddClose, AddPublish, Lookup, WalkFirst,
               LookupStep, LookupFails, ConnectWoken, ConnectFails, Send, CloseFails, CloseClear, conns
      <4>. QED
        BY <4>1
    <3>. QED
      BY <3>1, <3>2
  <2>2. pc[t] # "syn" /\ pc'[t] # "syn"
    <3>1. CASE Calling(t)
      <4>1. CASE ConnectWoken(t) \/ ConnectFails(t) \/ Send(t) \/ CloseFree(t) \/ CloseFails(t)
        BY <1>0, <4>1 DEF ConnectWoken, ConnectFails, Send, CloseFree, CloseFails, Calls, Ends, At, Goto, Types
      <4>2. CASE Recv(t) \/ Close(t)
        BY <1>0, <4>2 DEF Recv, Close, Calls, Ends, At, Goto, Types
      <4>. QED
        BY <1>8, <3>1, <4>1, <4>2 DEF Calling
    <3>2. CASE Socket(t) \/ AddLoad(t) \/ AddLink(t) \/ AddClose(t) \/ AddPublish(t)
      BY <1>0, <3>2 DEF Socket, AddLoad, AddLink, AddClose, AddPublish, Ends, At, Goto, Types
    <3>3. CASE Lookup(t) \/ WalkFirst(t) \/ LookupFails(t)
      BY <1>0, <3>3 DEF Lookup, WalkFirst, LookupFails, WalkBegins, Ends, At, Goto, Types
    <3>4. CASE LookupStep(t) \/ CloseClear(t)
      BY <1>0, <3>4 DEF LookupStep, CloseClear, Ends, At, Goto, Types
    <3>. QED
      BY <1>8, <3>1, <3>2, <3>3, <3>4 DEF Thread, Calling
  <2>3. \A r \in Socks : (\E u \in Threads : pc'[u] = "syn" /\ r = Sock(u)')
                         <=> \E u \in Threads : pc[u] = "syn" /\ r = Sock(u)
    BY <1>5, <2>2
  <2>4. Assigned' = Assigned
    BY <2>1, <2>3 DEF Assigned
  <2>. QED
    BY <1>2, <1>3, <1>4, <2>1, <2>4, SamePortsKeep DEF SamePorts
<1>. QED
  BY <1>6, <1>7, <1>8

\* get_tcb takes the only tcb with the segment's port.
LEMMA ReceivePorts ==
    ASSUME TypeInv, TcbInv, PortInv, KeepsTcbs, OnlyReceive, Receive \/ \E s \in Socks : Segment(s)
    PROVE  PortInv'
<1>0. Types /\ RX \in Walkers
  BY DEF TypeInv, OwnInv, Walkers
<1>1. \A r \in Socks : tcb'[r].peer = tcb[r].peer /\ tcb'[r].port = tcb[r].port
  BY DEF KeepsTcbs
<1>2. Assigned' = Assigned /\ Assigned \subseteq Socks
  BY <1>1 DEF Assigned, OnlyReceive, Sock
<1>3. SamePorts
  BY <1>1, <1>2 DEF SamePorts, OnlyReceive
<1>4. OwnSegment'
  <2>. SUFFICES ASSUME pc'[RX] = "deliver" PROVE item'[RX] = wanted'
    BY DEF OwnSegment
  <2>1. TcbCompare
    BY <1>0 DEF Receive, Segment, WalkFirst, TcbTest, TcbMissing, Deliver, WalkBegins, At, Goto, Types
  <2>2. pc[RX] = "deref" /\ UNCHANGED <<item, wanted>> /\ TcbMatches(item[RX])
    BY <1>0, <2>1 DEF TcbCompare, At, Goto, Types
  <2>3. item[RX] \in Assigned /\ wanted \in Assigned
    BY <2>2 DEF TcbInv, RxOK, TcbMatches, Assigned
  <2>. QED
    BY <2>2, <2>3 DEF PortInv, TcbMatches
<1>. QED
  BY <1>3, <1>4, SamePortsKeep

\* get_tcb hands a segment to the connection it was sent to, for any number of
\* threads and sockets: the descriptors, which are never given back, run out
\* (48575 of them) before get_port comes back to a port (65536).
THEOREM SegmentsFindTheirOwn ==
    ASSUME FdCount <= PortSpace
    PROVE  Spec => []OwnSegment
<1>1. Init => PortInv
  <2>. SUFFICES ASSUME Init PROVE PortInv
    OBVIOUS
  <2>1. /\ \A s \in Socks : tcb[s] = NoTcb
        /\ \A t \in Threads : pc[t] = "socket"
        /\ pc[RX] = "idle" /\ NoTcb.peer = FALSE
    BY SocketsAssumption DEF Init, Walkers, NoTcb
  <2>2. Assigned = {}
    BY <2>1 DEF Assigned
  <2>. QED
    BY <2>1, <2>2 DEF PortInv, OwnSegment
<1>2. SocketsInv /\ SocketsInv' /\ PortInv /\ [Next]_vars => PortInv'
  <2>. SUFFICES ASSUME SocketsInv, SocketsInv', PortInv, [Next]_vars PROVE PortInv'
    OBVIOUS
  <2>0. TypeInv /\ TcbInv /\ FdInv /\ TypeInv'
    BY DEF SocketsInv
  <2>1. CASE \E t \in Threads : Thread(t)
    <3>1. PICK t \in Threads : Thread(t)
      BY <2>1
    <3>2. OnlyThread(t)
      BY <2>0, <3>1, ThreadFrame DEF TypeInv
    <3>. QED
      BY <2>0, <3>1, <3>2, GetPortNew, ThreadPorts
  <2>2. CASE Receive \/ \E s \in Socks : Segment(s)
    BY <2>0, <2>2, ReceiveFrame, ReceiveKeepsTcbs, ReceivePorts DEF TypeInv
  <2>3. CASE UNCHANGED vars
    <3>1. UNCHANGED <<tcb, pc, tests, fd, available_port, item, wanted>>
      BY <2>3 DEF vars, fds, conns, locals
    <3>2. SamePorts /\ OwnSegment'
      BY <3>1 DEF SamePorts, Assigned, Sock, PortInv, OwnSegment
    <3>. QED
      BY <3>2, SamePortsKeep
  <2>. QED
    BY <2>1, <2>2, <2>3 DEF Next
<1>3. PortInv => OwnSegment
  BY DEF PortInv
<1>. QED
  BY <1>1, <1>2, <1>3, SocketsInvariant, PTL DEF Spec
=============================================================================
