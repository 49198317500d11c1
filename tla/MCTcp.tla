------------------------------- MODULE MCTcp -------------------------------
(***************************************************************************)
(* Instances of Tcp for TLC: one or two connections and the programs that  *)
(* applications run on them.                                               *)
(***************************************************************************)
EXTENDS TcpProperties, TLC

CONSTANTS a1, a2, c1, c2, h1, h2, iss, irs, peerLen

OneConn == {c1}
OneApp == {a1}
TwoConns == {c1, c2}
TwoApps == {a1, a2}
MCAppConn == [a \in Apps |-> IF a = a1 THEN c1 ELSE c2]
MCISS == [c \in Conns |-> iss]
MCIRS == [c \in Conns |-> irs]
MCPeerLen == [c \in Conns |-> peerLen]
OneHop == [c \in Conns |-> h1]
TwoHops == [c \in Conns |-> IF c = c1 THEN h1 ELSE h2]

Call(o, k) == [op |-> o, n |-> k]
All(p) == {[a \in Apps |-> p]}

ConnectOnly == All(<<Call("connect", 0)>>)
SendOnly == All(<<Call("connect", 0), Call("send", 2)>>)
RecvOnly == All(<<Call("connect", 0), Call("recv", 2)>>)
RecvClose == All(<<Call("connect", 0), Call("recv", 2), Call("recv", 1), Call("close", 0)>>)
SendClose == All(<<Call("connect", 0), Call("send", 3), Call("close", 0)>>)
ConnectClose == All(<<Call("connect", 0), Call("close", 0)>>)
SendOrRecv == SendOnly \cup RecvOnly
=============================================================================
