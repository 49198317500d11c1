------------------------------ MODULE MCSockets ------------------------------
(***************************************************************************)
(* What Sockets is checked for.                                            *)
(***************************************************************************)
EXTENDS Sockets

CONSTANTS t1, t2

\* One thread comes back for a second socket.
TwoAndOne == [t \in Threads |-> IF t = t1 THEN 2 ELSE 1]

Labels ==
    {"socket", "add", "link", "close_list", "publish", "call", "first", "walk",
     "connect", "port", "syn", "connect_wait", "send", "recv", "close", "close_wait",
     "close_clear", "done", "idle", "deref", "deliver", "lost"}

\* The variables have the types their declarations in anpwrapper.c give them.
TypeOK ==
    /\ nxt \in [Nodes -> Nodes] /\ last \in Nodes
    /\ fd_in_use \subseteq 1..FdCount /\ fd \in [Socks -> 0..FdCount]
    /\ available_port \in 0..PortSpace - 1 /\ conn_info \subseteq Socks
    /\ tcb \in [Socks -> [life : {"none", "live", "freed"}, port : 0..PortSpace - 1, peer : BOOLEAN,
                          state : {"CLOSED", "SYN_SENT", "ESTABLISHED", "FIN_WAIT"},
                          data : 0..1]]
    /\ pc \in [Walkers -> Labels] /\ call \in [Threads -> {"connect", "send", "recv", "close"}]
    /\ tests \in [Threads -> Nat] /\ so_far \in [Threads -> 0..Buffer]
    /\ errno \in [Threads -> {"none", "EMFILE", "EBADF", "ENOTCONN"}]
    /\ tail \in [Threads -> Nodes] /\ item \in [Walkers -> Nodes] /\ tmp \in [Walkers -> Nodes]
    /\ wanted \in Nodes /\ crashed \in BOOLEAN /\ raced \in BOOLEAN

\* A call on a descriptor that socket returned answers EBADF only if two calls
\* of list_add_tail (anpwrapper.c:178) overlapped at some time: an append that
\* runs alone is seen by every walk that begins after socket returned, however
\* many appends and walks run beside it.
FoundUnlessRaced == \A t \in Threads : errno[t] = "EBADF" => raced

\* get_anp_socket returns the socket whose descriptor the caller holds: fd_lock
\* never lets get_next_fd hand one descriptor to two sockets.
OwnSocket ==
    \A t \in Threads :
        pc[t] \in {"connect", "port", "syn", "connect_wait", "send", "recv", "close",
                   "close_wait", "close_clear"} => item[t] = Sock(t)

\* get_tcb hands a segment to the connection it was sent to, although all the
\* client's connections have the same peer: as long as no more connections are
\* opened than there are ports, get_port gives each a port of its own.
OwnSegment == pc[RX] = "deliver" => item[RX] = wanted

\* get_tcb answers NULL (and drop_pkt then uses NULL, tcp.c:267) for an open
\* connection only if two calls of list_add_tail overlapped: a connection that
\* has been published stays reachable while other sockets come and go.
OpenIsFound == pc[RX] = "lost" /\ tcb[wanted].life = "live" => raced

\* As long as no connection has been closed, and no two list_add_tail have
\* overlapped, the receive thread meets neither NULL nor freed memory: the two
\* loads of conn_info in get_tcb, and connect's publishing an unfinished tcb,
\* are harmless until close runs.
CrashNeedsClose == crashed /\ ~raced => \E s \in Socks : tcb[s].life = "freed"

\* Every walk of the list ends, in get_anp_socket and in get_tcb, while other
\* threads append to it: no reader meets an entry that points to itself for good.
WalksEnd ==
    \A w \in Walkers : pc[w] \in {"first", "walk", "deref"}
                       ~> (pc[w] \notin {"first", "walk", "deref"} \/ crashed)
=============================================================================
