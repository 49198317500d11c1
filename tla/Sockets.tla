------------------------------- MODULE Sockets -------------------------------
(***************************************************************************)
(* The socket table of anpwrapper.c under the example client: every thread *)
(* of tcp_client runs run_test, and the receive thread looks connections   *)
(* up with get_tcb.  The list anp_sockets_cache has no lock.  A step is at *)
(* most one access to it, to conn_info, or one critical section of fd_lock *)
(* or port_lock.                                                           *)
(*                                                                         *)
(* TCP itself is in Tcp: here a connection is opened, fed and ended by the *)
(* segments that find it.  Sockets the stack does not support, and failed  *)
(* allocations, are left out.                                              *)
(***************************************************************************)
EXTENDS Naturals, FiniteSets

CONSTANTS
    Threads,            \* the client's threads (its option -P)
    RX,                 \* the thread that receives frames
    Tests,              \* how often each thread runs run_test (the client: once)
    anp_sockets_cache,  \* the list head
    FdCount,            \* FD_MAX_VAL - FD_START_VAL
    PORTS_STARTING, PortSpace,      \* 49154, and 2^16: ports are uint16_t
    Buffer              \* test_buffer_sz

VARIABLES
    nxt, last,          \* the list: next pointers, and the head's prev
    fd_in_use, fd,      \* descriptors taken, and each socket's (0: none)
    available_port,
    conn_info,          \* the sockets whose conn_info is not NULL
    tcb,                \* what connect allocates for a socket
    pc, call,           \* where a thread is, and in which socket call
    tests,              \* the runs of run_test a thread has begun
    tail,               \* head->prev as list_add_tail loaded it
    item, tmp,          \* the cursors of list_for_each_safe
    so_far, errno,      \* run_test's locals
    wanted,             \* the connection a received segment belongs to
    crashed,            \* history: the process used NULL or freed memory
    raced               \* history: two calls of list_add_tail overlapped

list == <<nxt, last>>
fds == <<fd_in_use, fd>>
conns == <<available_port, conn_info, tcb>>
locals == <<tests, so_far, errno>>
history == <<crashed, raced>>
vars == <<list, fds, conns, pc, call, tail, item, tmp, wanted, locals, history>>

Socks == UNION {{t} \X (1..Tests[t]) : t \in Threads}
Nodes == Socks \cup {anp_sockets_cache}
Walkers == Threads \cup {RX}

ASSUME SocketsAssumption ==
    /\ RX \notin Threads /\ anp_sockets_cache \notin Socks
    /\ Tests \in [Threads -> Nat \ {0}] /\ FdCount \in Nat \ {0} /\ Buffer \in Nat \ {0}
    /\ PortSpace \in Nat \ {0} /\ PORTS_STARTING \in 0..PortSpace - 1

Sock(t) == <<t, tests[t]>>
NoSock == anp_sockets_cache
\* peer: the addresses and the remote port have been filled in.
NoTcb == [life |-> "none", port |-> 0, peer |-> FALSE, state |-> "CLOSED", data |-> 0]

At(w, l) == pc[w] = l /\ ~crashed
Goto(w, l) == pc' = [pc EXCEPT ![w] = l]
Crash == crashed' = TRUE /\ UNCHANGED raced

\* The end of run_test with an error, or of the last run.
Ends(t, e) == Goto(t, "done") /\ errno' = [errno EXCEPT ![t] = e] /\ UNCHANGED <<tests, so_far>>

-----------------------------------------------------------------------------
(* socket *)

\* The descriptors get_next_fd may take, and the port get_port answers, as in
\* the code and as they would be without a test, a carry or an increment.
AnyFd == 1..FdCount
FreeFd == (1..FdCount) \ fd_in_use
PortWide == available_port + 1
PortSame == available_port
NextPort == (available_port + 1) % PortSpace

\* socket up to list_add_tail: get_next_fd takes the lowest free descriptor.
Socket(t) ==
    LET low == CHOOSE i \in FreeFd : \A j \in FreeFd : i <= j
        s == Sock(t) IN
    /\ At(t, "socket")
    /\ IF FreeFd = {}
       THEN /\ Ends(t, "EMFILE") /\ UNCHANGED <<list, fds>>
       ELSE /\ fd_in_use' = fd_in_use \cup {low} /\ fd' = [fd EXCEPT ![s] = low]
            /\ nxt' = [nxt EXCEPT ![s] = s]
            /\ Goto(t, "add") /\ UNCHANGED <<last, locals>>
    /\ UNCHANGED <<conns, call, tail, item, tmp, wanted, history>>

\* list_add_tail: load head->prev, store its next, the new next, head->prev.
\* (As list_add it would use the head, and without new->next what list_init set.)
LinkHead(t) == anp_sockets_cache
LinkFrom(t) == tail[t]
NextSelf(t) == Sock(t)
NextOfNew(t) == anp_sockets_cache

AddLoad(t) ==
    /\ At(t, "add")
    /\ tail' = [tail EXCEPT ![t] = last]
    /\ raced' = (raced \/ \E u \in Threads \ {t} : pc[u] \in {"link", "close_list", "publish"})
    /\ Goto(t, "link")
    /\ UNCHANGED <<list, fds, conns, call, item, tmp, wanted, locals, crashed>>

AddLink(t) ==
    /\ At(t, "link")
    /\ nxt' = [nxt EXCEPT ![LinkFrom(t)] = Sock(t)]
    /\ tail' = [tail EXCEPT ![t] = anp_sockets_cache]
    /\ Goto(t, "close_list")
    /\ UNCHANGED <<last, fds, conns, call, item, tmp, wanted, locals, history>>

AddClose(t) ==
    /\ At(t, "close_list")
    /\ nxt' = [nxt EXCEPT ![Sock(t)] = NextOfNew(t)]
    /\ Goto(t, "publish")
    /\ UNCHANGED <<last, fds, conns, call, tail, item, tmp, wanted, locals, history>>

\* The last store; socket returns, and run_test calls connect.
AddPublish(t) ==
    /\ At(t, "publish")
    /\ last' = Sock(t)
    /\ Goto(t, "call") /\ call' = [call EXCEPT ![t] = "connect"]
    /\ UNCHANGED <<nxt, fds, conns, tail, item, tmp, wanted, locals, history>>

-----------------------------------------------------------------------------
(* The walks *)

\* list_for_each_safe loads the first entry, then that entry's next.
WalkBegins(w) ==
    /\ item' = [item EXCEPT ![w] = nxt[anp_sockets_cache]]
    /\ Goto(w, "first")

WalkFirst(w) ==
    /\ At(w, "first")
    /\ tmp' = [tmp EXCEPT ![w] = nxt[item[w]]]
    /\ Goto(w, "walk")
    /\ UNCHANGED <<list, fds, conns, call, tail, item, wanted, locals, history>>

WalkNext(w) ==
    /\ item' = [item EXCEPT ![w] = tmp[w]]
    /\ tmp' = [tmp EXCEPT ![w] = nxt[tmp[w]]]

\* The cursors are dead once the walk is over.
WalkEnds(w) == tmp' = [tmp EXCEPT ![w] = anp_sockets_cache]

\* connect, send, recv and close begin alike: is_anp_sockfd, get_anp_socket.
Lookup(t) ==
    /\ At(t, "call") /\ fd[Sock(t)] \in fd_in_use
    /\ WalkBegins(t)
    /\ UNCHANGED <<list, fds, conns, call, tail, tmp, wanted, locals, history>>

LookupStep(t) ==
    /\ At(t, "walk") /\ t \in Threads /\ item[t] # anp_sockets_cache
    /\ IF fd[item[t]] = fd[Sock(t)]
       THEN Goto(t, call[t]) /\ WalkEnds(t) /\ UNCHANGED item
       ELSE WalkNext(t) /\ UNCHANGED pc
    /\ UNCHANGED <<list, fds, conns, call, tail, wanted, locals, history>>

LookupFails(t) ==
    /\ At(t, "walk") /\ t \in Threads /\ item[t] = anp_sockets_cache
    /\ Ends(t, "EBADF")
    /\ UNCHANGED <<list, fds, conns, call, tail, item, tmp, wanted, history>>

-----------------------------------------------------------------------------
(* connect, send, recv, close, on the socket the lookup found *)

Connect(t) ==
    /\ At(t, "connect")
    /\ conn_info' = conn_info \cup {item[t]}
    /\ tcb' = [tcb EXCEPT ![item[t]] = [NoTcb EXCEPT !.life = "live"]]
    /\ Goto(t, "port")
    /\ UNCHANGED <<list, fds, available_port, call, tail, item, tmp, wanted, locals, history>>

\* get_port: the test against PORTS_ENDING never holds of a uint16_t.
GetPort(t) ==
    /\ At(t, "port")
    /\ available_port' = NextPort /\ tcb' = [tcb EXCEPT ![item[t]].port = NextPort]
    /\ Goto(t, "syn")
    /\ UNCHANGED <<list, fds, conn_info, call, tail, item, tmp, wanted, locals, history>>

\* The rest of the tcb is filled in, the SYN is sent, and connect waits.
ConnectSyn(t) ==
    /\ At(t, "syn")
    /\ tcb' = [tcb EXCEPT ![item[t]].peer = TRUE, ![item[t]].state = "SYN_SENT"]
    /\ Goto(t, "connect_wait")
    /\ UNCHANGED <<list, fds, available_port, conn_info, call, tail, item, tmp, wanted,
                   locals, history>>

\* run_test's next call.
Calls(t, c) == Goto(t, "call") /\ call' = [call EXCEPT ![t] = c]

ConnectWoken(t) ==
    /\ At(t, "connect_wait") /\ tcb[item[t]].state = "ESTABLISHED"
    /\ Calls(t, "send")
    /\ UNCHANGED <<list, fds, conns, tail, item, tmp, wanted, locals, history>>

\* The handshake was given up (or connect was woken for nothing): -1, with errno
\* as it was.  The socket keeps its tcb.
ConnectFails(t) ==
    /\ At(t, "connect_wait") /\ tcb[item[t]].state # "ESTABLISHED"
    /\ Ends(t, "none")
    /\ UNCHANGED <<list, fds, conns, call, tail, item, tmp, wanted, history>>

Connected(s) == s \in conn_info /\ tcb[s].state = "ESTABLISHED"

\* send returns len: one iteration of run_test's loop.
Send(t) ==
    /\ At(t, "send")
    /\ IF Connected(item[t])
       THEN /\ Calls(t, "recv") /\ so_far' = [so_far EXCEPT ![t] = 0]
            /\ UNCHANGED <<tests, errno>>
       ELSE Ends(t, "ENOTCONN") /\ UNCHANGED call
    /\ UNCHANGED <<list, fds, conns, tail, item, tmp, wanted, history>>

\* recv returns once there is data, and run_test's loop goes on until it has
\* the whole buffer.
Recv(t) ==
    LET s == item[t]
        n == so_far[t] + tcb[s].data IN
    /\ At(t, "recv")
    /\ \/ /\ s \notin conn_info
          /\ Ends(t, "ENOTCONN") /\ UNCHANGED <<conns, call>>
       \/ /\ s \in conn_info /\ tcb[s].data > 0
          /\ tcb' = [tcb EXCEPT ![s].data = 0]
          /\ so_far' = [so_far EXCEPT ![t] = n]
          /\ Calls(t, IF n < Buffer THEN "recv" ELSE "close")
          /\ UNCHANGED <<available_port, conn_info, tests, errno>>
    /\ UNCHANGED <<list, fds, tail, item, tmp, wanted, history>>

Close(t) ==
    /\ At(t, "close")
    /\ IF Connected(item[t])
       THEN /\ tcb' = [tcb EXCEPT ![item[t]].state = "FIN_WAIT"]
            /\ Goto(t, "close_wait") /\ UNCHANGED locals
       ELSE Ends(t, "ENOTCONN") /\ UNCHANGED tcb
    /\ UNCHANGED <<list, fds, available_port, conn_info, call, tail, item, tmp, wanted, history>>

\* close woken in CLOSED: free(conn_info), and only then the pointer is cleared.
CloseFree(t) ==
    /\ At(t, "close_wait") /\ tcb[item[t]].state = "CLOSED"
    /\ tcb' = [tcb EXCEPT ![item[t]].life = "freed"]
    /\ Goto(t, "close_clear")
    /\ UNCHANGED <<list, fds, available_port, conn_info, call, tail, item, tmp, wanted,
                   locals, history>>

\* close woken for nothing: -1, and the socket keeps its tcb.
CloseFails(t) ==
    /\ At(t, "close_wait") /\ tcb[item[t]].state # "CLOSED"
    /\ Ends(t, "none")
    /\ UNCHANGED <<list, fds, conns, call, tail, item, tmp, wanted, history>>

\* The descriptor stays taken and the socket stays listed.  run_test returns 0.
CloseClear(t) ==
    /\ At(t, "close_clear")
    /\ conn_info' = conn_info \ {item[t]}
    /\ IF tests[t] = Tests[t]
       THEN Ends(t, "none")
       ELSE /\ Goto(t, "socket") /\ tests' = [tests EXCEPT ![t] = @ + 1]
            /\ UNCHANGED <<so_far, errno>>
    /\ UNCHANGED <<list, fds, available_port, tcb, call, tail, item, tmp, wanted, history>>

-----------------------------------------------------------------------------
(* The receive thread: tcp_rx calls get_tcb *)

\* A segment of a connection that has been opened, perhaps a late one.
Segment(s) ==
    /\ At(RX, "idle")
    /\ tcb[s].peer
    /\ wanted' = s
    /\ WalkBegins(RX)
    /\ UNCHANGED <<list, fds, conns, call, tail, tmp, locals, history>>

\* The first load of conn_info: NULL is skipped, or would not be.
SkipNone(s) == FALSE
Skip(s) == s \notin conn_info

TcbTest ==
    /\ At(RX, "walk") /\ item[RX] # anp_sockets_cache
    /\ IF Skip(item[RX])
       THEN WalkNext(RX) /\ UNCHANGED pc
       ELSE Goto(RX, "deref") /\ UNCHANGED <<item, tmp>>
    /\ UNCHANGED <<list, fds, conns, call, tail, wanted, locals, history>>

\* The second load, and the comparison of the four fields.  Whether freed
\* memory still holds them depends on what the allocator wrote there.
TcbMatchesOpen(s) == tcb[s].port = tcb[wanted].port /\ tcb[s].state = "ESTABLISHED"
TcbMatches(s) == tcb[s].port = tcb[wanted].port /\ tcb[s].peer

TcbCompare ==
    LET s == item[RX] IN
    /\ At(RX, "deref")
    /\ \/ /\ s \notin conn_info
          /\ Crash /\ UNCHANGED <<pc, item, tmp>>
       \/ /\ s \in conn_info /\ TcbMatches(s)
          /\ Goto(RX, "deliver") /\ WalkEnds(RX) /\ UNCHANGED <<item, history>>
       \/ /\ s \in conn_info
          /\ ~TcbMatches(s) \/ tcb[s].life = "freed"
          /\ WalkNext(RX) /\ Goto(RX, "walk") /\ UNCHANGED history
    /\ UNCHANGED <<list, fds, conns, call, tail, wanted, locals>>

\* get_tcb returns NULL: drop_pkt unlocks the mutex of a NULL tcb.
TcbMissing ==
    /\ At(RX, "walk") /\ item[RX] = anp_sockets_cache
    /\ Goto(RX, "lost") /\ Crash
    /\ UNCHANGED <<list, fds, conns, call, tail, item, tmp, wanted, locals>>

\* tcp_rx on the tcb it found: the handshake ends, data arrives, the FIN is
\* answered.  A freed one is used after free.
Deliver ==
    LET s == item[RX] IN
    /\ At(RX, "deliver")
    /\ Goto(RX, "idle") /\ item' = [item EXCEPT ![RX] = anp_sockets_cache]
    /\ wanted' = NoSock
    /\ IF tcb[s].life = "freed"
       THEN Crash /\ UNCHANGED tcb
       ELSE /\ tcb' = [tcb EXCEPT ![s] =
                         CASE @.state = "SYN_SENT"    -> [@ EXCEPT !.state = "ESTABLISHED"]
                           [] @.state = "ESTABLISHED" -> [@ EXCEPT !.data = 1]
                           [] @.state = "FIN_WAIT"    -> [@ EXCEPT !.state = "CLOSED"]
                           [] OTHER                   -> @]
            /\ UNCHANGED history
    /\ UNCHANGED <<list, fds, available_port, conn_info, call, tail, tmp, locals>>

-----------------------------------------------------------------------------
Init ==
    /\ nxt = [n \in Nodes |-> n] /\ last = anp_sockets_cache
    /\ fd_in_use = {} /\ fd = [s \in Socks |-> 0]
    /\ available_port = PORTS_STARTING
    /\ conn_info = {} /\ tcb = [s \in Socks |-> NoTcb]
    /\ pc = [w \in Walkers |-> IF w = RX THEN "idle" ELSE "socket"]
    /\ call = [t \in Threads |-> "connect"]
    /\ tests = [t \in Threads |-> 1]
    /\ tail = [t \in Threads |-> anp_sockets_cache]
    /\ item = [w \in Walkers |-> anp_sockets_cache] /\ tmp = item
    /\ so_far = [t \in Threads |-> 0] /\ errno = [t \in Threads |-> "none"]
    /\ wanted = NoSock
    /\ crashed = FALSE /\ raced = FALSE

Thread(t) ==
    \/ Socket(t) \/ AddLoad(t) \/ AddLink(t) \/ AddClose(t) \/ AddPublish(t)
    \/ Lookup(t) \/ WalkFirst(t) \/ LookupStep(t) \/ LookupFails(t)
    \/ Connect(t) \/ GetPort(t) \/ ConnectSyn(t) \/ ConnectWoken(t) \/ ConnectFails(t)
    \/ Send(t) \/ Recv(t) \/ Close(t) \/ CloseFree(t) \/ CloseFails(t) \/ CloseClear(t)

Receive == WalkFirst(RX) \/ TcbTest \/ TcbCompare \/ TcbMissing \/ Deliver

Next ==
    \/ \E t \in Threads : Thread(t)
    \/ \E s \in Socks : Segment(s)
    \/ Receive

Spec == Init /\ [][Next]_vars

\* A runnable thread runs.  Nothing is assumed of the peer.
FairSpec == Spec /\ WF_vars(Receive) /\ \A t \in Threads : WF_vars(Thread(t))
=============================================================================
