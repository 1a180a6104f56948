------------------------------- MODULE Handles -------------------------------
(***************************************************************************)
(* Who owns a socket.  RpcClient objects (simple_rpc/src/rpc_client.cpp)   *)
(* hold a file descriptor through their TcpTransport; they are local       *)
(* objects, the heap objects behind the C API's handles, or the impl_ of   *)
(* an RPCEndpoint (nfs3_rpc_tests/src/rpc_endpoint.cpp), and are moved.    *)
(* The operating system gives a closed descriptor's number out again, so a *)
(* descriptor closed twice, or kept after it was moved from, is somebody   *)
(* else's connection.                                                      *)
(***************************************************************************)
EXTENDS Integers, FiniteSets

CONSTANTS
    Clients,     \* places where an RpcClient can be constructed
    Endpoints,   \* places where an RPCEndpoint can be constructed
    Fds,         \* file descriptors
    NoFd,        \* -1
    NoClient,    \* the empty impl_
    MaxConns,    \* bound: connections made
    MaxXid       \* bound: xid_ of a client, below 2^32 (RpcClient has the wrap)

ASSUME HandlesAssumption ==
    /\ NoFd \notin Fds
    /\ NoClient \notin Clients
    /\ MaxConns \in Nat
    /\ MaxXid \in Nat

VARIABLES
    alive,    \* clients constructed and not destroyed
    fd,       \* fd_ of each client
    xid,      \* xid_ of each client
    open,     \* connection behind each descriptor, 0 when it is closed
    conns,    \* connections made so far
    sent,     \* largest xid sent on each connection
    made,     \* endpoints constructed and not destroyed
    impl      \* impl_ of each endpoint

clientVars == <<alive, fd, xid>>
osVars == <<open, conns, sent>>
endpointVars == <<made, impl>>
vars == <<clientVars, osVars, endpointVars>>

Init ==
    /\ alive = {}
    /\ fd = [c \in Clients |-> NoFd]
    /\ xid = [c \in Clients |-> 1]
    /\ open = [f \in Fds |-> 0]
    /\ conns = 0
    /\ sent = [k \in 1..MaxConns |-> 0]
    /\ made = {}
    /\ impl = [e \in Endpoints |-> NoClient]

\* Clients that are the impl_ of an endpoint: nobody else can reach them.
Inner == {impl[e] : e \in made} \ {NoClient}
Reachable == alive \ Inner

-----------------------------------------------------------------------------
(* TcpTransport.                                                           *)

\* disconnect(): the descriptors open once client c has closed its own.
Closed_nothing(c) == open
Closed(c) == [f \in Fds |-> IF f = fd[c] THEN 0 ELSE open[f]]

\* A client that has moved its descriptor away forgets it.
FdAfterMove_kept(s) == fd[s]
FdAfterMove_zero(s) == 0
FdAfterMove(s) == NoFd

\* connect(): the old descriptor is closed before a new one is asked for; a
\* failure, wherever it happens, leaves the client without one.
TransportConnect(c, ok) ==
    IF ok
    THEN \E f \in Fds :
            /\ Closed(c)[f] = 0
            /\ conns < MaxConns
            /\ conns' = conns + 1
            /\ open' = [Closed(c) EXCEPT ![f] = conns + 1]
            /\ fd' = [fd EXCEPT ![c] = f]
    ELSE /\ open' = Closed(c)
         /\ fd' = [fd EXCEPT ![c] = NoFd]
         /\ UNCHANGED conns

-----------------------------------------------------------------------------
(* RpcClient.                                                              *)

\* A local RpcClient.
Construct(c) ==
    /\ c \notin alive
    /\ alive' = alive \cup {c}
    /\ fd' = [fd EXCEPT ![c] = NoFd]
    /\ xid' = [xid EXCEPT ![c] = 1]
    /\ UNCHANGED <<osVars, endpointVars>>

Connect(c, ok) ==
    /\ c \in Reachable
    /\ TransportConnect(c, ok)
    /\ UNCHANGED <<alive, xid, sent, endpointVars>>

Disconnect(c) ==
    /\ c \in Reachable
    /\ open' = Closed(c)
    /\ fd' = [fd EXCEPT ![c] = NoFd]
    /\ xid' = [xid EXCEPT ![c] = 1]
    /\ UNCHANGED <<alive, conns, sent, endpointVars>>

\* call() on a connected client: its xid goes out on the connection.
Call(c) ==
    /\ c \in alive
    /\ fd[c] # NoFd
    /\ xid[c] < MaxXid
    /\ sent' = [sent EXCEPT ![open[fd[c]]] = xid[c]]
    /\ xid' = [xid EXCEPT ![c] = xid[c] + 1]
    /\ UNCHANGED <<alive, fd, open, conns, endpointVars>>

\* The destructor; also nfstest_rpc_disconnect(), which deletes the handle.
Destroy(c) ==
    /\ c \in Reachable
    /\ open' = Closed(c)
    /\ fd' = [fd EXCEPT ![c] = NoFd]
    /\ alive' = alive \ {c}
    /\ UNCHANGED <<xid, conns, sent, endpointVars>>

\* RpcClient d(std::move(s)).
MoveConstruct(d, s) ==
    /\ d \notin alive
    /\ s \in Reachable
    /\ alive' = alive \cup {d}
    /\ fd' = [fd EXCEPT ![d] = fd[s], ![s] = FdAfterMove(s)]
    /\ xid' = [xid EXCEPT ![d] = xid[s], ![s] = 1]
    /\ UNCHANGED <<osVars, endpointVars>>

\* d = std::move(s): d's descriptor is closed; moving to oneself does nothing.
MovedXid_own(d, s) == xid[d]
MovedXid(d, s) == xid[s]

MoveAssign(d, s) ==
    /\ d \in Reachable /\ s \in Reachable
    /\ IF d = s
       THEN UNCHANGED <<fd, xid, open>>
       ELSE /\ open' = Closed(d)
            /\ fd' = [fd EXCEPT ![d] = fd[s], ![s] = FdAfterMove(s)]
            /\ xid' = [xid EXCEPT ![d] = MovedXid(d, s), ![s] = 1]
    /\ UNCHANGED <<alive, conns, sent, endpointVars>>

\* nfstest_rpc_connect(): a handle whose connect fails is deleted again.
nfstest_rpc_connect(c, ok) ==
    /\ c \notin alive
    /\ alive' = IF ok THEN alive \cup {c} ELSE alive
    /\ TransportConnect(c, ok)
    /\ xid' = [xid EXCEPT ![c] = 1]
    /\ UNCHANGED <<sent, endpointVars>>

-----------------------------------------------------------------------------
(* RPCEndpoint, without libtirpc.                                          *)

\* create(): whether the connection came up is not looked at.
create(e, c, ok) ==
    /\ e \notin made
    /\ c \notin alive
    /\ made' = made \cup {e}
    /\ impl' = [impl EXCEPT ![e] = c]
    /\ alive' = alive \cup {c}
    /\ TransportConnect(c, ok)
    /\ xid' = [xid EXCEPT ![c] = 1]
    /\ UNCHANGED sent

\* What becomes of the client e owned when e lets go of it.
Release(e) ==
    IF impl[e] = NoClient
    THEN UNCHANGED <<alive, fd, open>>
    ELSE /\ open' = Closed(impl[e])
         /\ fd' = [fd EXCEPT ![impl[e]] = NoFd]
         /\ alive' = alive \ {impl[e]}

EndpointDestroy(e) ==
    /\ e \in made
    /\ Release(e)
    /\ made' = made \ {e}
    /\ impl' = [impl EXCEPT ![e] = NoClient]
    /\ UNCHANGED <<xid, conns, sent>>

\* Moving from a std::unique_ptr leaves it empty.
ImplAfterMove_kept(s) == impl[s]
ImplAfterMove(s) == NoClient

EndpointMoveConstruct(d, s) ==
    /\ d \notin made
    /\ s \in made
    /\ made' = made \cup {d}
    /\ impl' = [impl EXCEPT ![d] = impl[s], ![s] = ImplAfterMove(s)]
    /\ UNCHANGED <<clientVars, osVars>>

EndpointMoveAssign(d, s) ==
    /\ d \in made /\ s \in made
    /\ IF d = s
       THEN UNCHANGED <<clientVars, open, impl>>
       ELSE /\ Release(d)
            /\ impl' = [impl EXCEPT ![d] = impl[s], ![s] = ImplAfterMove(s)]
            /\ UNCHANGED xid
    /\ UNCHANGED <<conns, sent, made>>

\* shutdown() disconnects and keeps impl_.
shutdown(e) ==
    /\ e \in made
    /\ impl[e] # NoClient
    /\ open' = Closed(impl[e])
    /\ fd' = [fd EXCEPT ![impl[e]] = NoFd]
    /\ xid' = [xid EXCEPT ![impl[e]] = 1]
    /\ UNCHANGED <<alive, conns, sent, endpointVars>>

ClientNext ==
    \E c \in Clients :
        \/ Construct(c) \/ Disconnect(c) \/ Call(c) \/ Destroy(c)
        \/ \E ok \in BOOLEAN : Connect(c, ok) \/ nfstest_rpc_connect(c, ok)
        \/ \E s \in Clients : MoveConstruct(c, s) \/ MoveAssign(c, s)
EndpointNext ==
    \E e \in Endpoints :
        \/ EndpointDestroy(e) \/ shutdown(e)
        \/ \E c \in Clients, ok \in BOOLEAN : create(e, c, ok)
        \/ \E s \in Endpoints :
              EndpointMoveConstruct(e, s) \/ EndpointMoveAssign(e, s)

Next == ClientNext \/ EndpointNext
Spec == Init /\ [][Next]_vars

-----------------------------------------------------------------------------
TypeOK ==
    /\ alive \subseteq Clients
    /\ fd \in [Clients -> Fds \cup {NoFd}]
    /\ xid \in [Clients -> Nat]
    /\ open \in [Fds -> 0..MaxConns]
    /\ conns \in 0..MaxConns
    /\ sent \in [1..MaxConns -> Nat]
    /\ made \subseteq Endpoints
    /\ impl \in [Endpoints -> Clients \cup {NoClient}]

\* No two clients hold the same descriptor, nor two descriptors the same
\* connection, through any sequence of moves, failed connects and destructions
\* (rpc_transport.cpp:20, :25).
SingleOwner ==
    /\ \A c, d \in alive : fd[c] = fd[d] /\ fd[c] # NoFd => c = d
    /\ \A f, g \in Fds : open[f] = open[g] /\ open[f] # 0 => f = g

\* The open descriptors are exactly those that live clients hold: none leaks,
\* and none is used after it was closed (rpc_transport.cpp:16, :87).
OpenIsHeld ==
    \A f \in Fds : open[f] # 0 <=> \E c \in alive : fd[c] = f

\* No xid is sent twice on a connection, also when the connection has been
\* moved to another client, whose own numbering was elsewhere; before the
\* 32-bit counter wraps (rpc_client.cpp:13, :19, :32).
XidFresh ==
    \A c \in alive : fd[c] # NoFd => sent[open[fd[c]]] < xid[c]

\* Endpoints own their clients: no client belongs to two of them, and none has
\* been destroyed under its endpoint (rpc_endpoint.cpp:74, :77).
EndpointsOwn ==
    /\ \A e, g \in made : impl[e] = impl[g] /\ impl[e] # NoClient => e = g
    /\ Inner \subseteq alive

-----------------------------------------------------------------------------
(* The inductive invariant behind the safety properties.                   *)

\* A client that is not alive holds nothing.
DeadInv == \A c \in Clients \ alive : fd[c] = NoFd

\* Descriptors and the clients that hold them.
HoldInv ==
    /\ \A c, d \in Clients : fd[c] = fd[d] /\ fd[c] # NoFd => c = d
    /\ \A f \in Fds : open[f] # 0 <=> \E c \in Clients : fd[c] = f

\* Connections are numbered as they are made.
ConnInv ==
    /\ \A f \in Fds : open[f] <= conns
    /\ \A f, g \in Fds : open[f] = open[g] /\ open[f] # 0 => f = g
    /\ \A k \in 1..MaxConns : k > conns => sent[k] = 0

NumberInv ==
    \A c \in Clients :
        /\ xid[c] >= 1
        /\ fd[c] # NoFd => sent[open[fd[c]]] < xid[c]

EndpointInv ==
    /\ EndpointsOwn
    /\ \A e \in Endpoints \ made : impl[e] = NoClient

IndInv ==
    TypeOK /\ DeadInv /\ HoldInv /\ ConnInv /\ NumberInv /\ EndpointInv
=============================================================================
