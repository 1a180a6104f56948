---------------------------- MODULE HandlesProofs ----------------------------
(* Proofs about Handles, for every value of its constants. *)
EXTENDS Handles, TLAPS

\* Leaves that need no arithmetic and that SMT does not find cite Zenon.
USE SMTT(30)

\* Client c closes its descriptor.
CloseFd(c) ==
    /\ open' = Closed(c)
    /\ fd' = [fd EXCEPT ![c] = NoFd]

\* Facts about one client's descriptor.
LEMMA HeldIsOpen ==
    ASSUME TypeOK, HoldInv, NEW c \in Clients, fd[c] # NoFd
    PROVE  fd[c] \in Fds /\ open[fd[c]] \in 1..MaxConns
  <1>1. fd[c] \in Fds
    BY DEF TypeOK
  <1>2. open[fd[c]] # 0
    BY <1>1 DEF HoldInv
  <1> QED  BY <1>1, <1>2, HandlesAssumption DEF TypeOK

\* A client closes its descriptor: the others keep theirs.
LEMMA CloseHolds ==
    ASSUME TypeOK, HoldInv, NEW c \in Clients, CloseFd(c)
    PROVE  /\ fd' \in [Clients -> Fds \cup {NoFd}]
           /\ open' \in [Fds -> 0..MaxConns]
           /\ HoldInv'
           /\ fd'[c] = NoFd
           /\ \A d \in Clients : d # c => fd'[d] = fd[d]
           /\ \A f \in Fds : open'[f] = 0 \/ open'[f] = open[f]
           /\ \A d \in Clients : fd'[d] # NoFd => open'[fd'[d]] = open[fd[d]]
  <1>1. /\ fd' \in [Clients -> Fds \cup {NoFd}]
        /\ fd'[c] = NoFd
        /\ \A d \in Clients : d # c => fd'[d] = fd[d]
    BY DEF TypeOK, CloseFd
  <1>2. /\ open' \in [Fds -> 0..MaxConns]
        /\ \A f \in Fds : open'[f] = IF f = fd[c] THEN 0 ELSE open[f]
    BY HandlesAssumption DEF TypeOK, CloseFd, Closed
  <1>3. \A d, e \in Clients : fd'[d] = fd'[e] /\ fd'[d] # NoFd => d = e
    BY <1>1 DEF HoldInv
  <1>4. ASSUME NEW f \in Fds
        PROVE  open'[f] # 0 <=> \E d \in Clients : fd'[d] = f
    <2>1. CASE f = fd[c]
      <3>1. ~ \E d \in Clients : fd'[d] = f
        BY <1>1, <2>1, HandlesAssumption DEF HoldInv
      <3> QED  BY <1>2, <2>1, <3>1
    <2>2. CASE f # fd[c]
      <3>1. (\E d \in Clients : fd'[d] = f) <=> \E d \in Clients : fd[d] = f
        BY <1>1, <2>2, HandlesAssumption
      <3> QED  BY <1>2, <2>2, <3>1 DEF HoldInv
    <2> QED  BY <2>1, <2>2
  <1>5. \A f \in Fds : open'[f] = 0 \/ open'[f] = open[f]
    BY <1>2
  <1>6. ASSUME NEW d \in Clients, fd'[d] # NoFd
        PROVE  open'[fd'[d]] = open[fd[d]]
    <2>1. d # c /\ fd'[d] = fd[d] /\ fd[d] \in Fds
      BY <1>1, <1>6 DEF TypeOK
    <2>2. fd[d] # fd[c]
      BY <1>6, <2>1 DEF HoldInv
    <2> QED  BY <1>2, <2>1, <2>2
  <1>7. HoldInv'
    BY <1>3, <1>4 DEF HoldInv
  <1> QED  BY <1>1, <1>2, <1>5, <1>6, <1>7

\* The descriptor of client s goes to client d, whose own is closed.
LEMMA MoveHolds ==
    ASSUME TypeOK, HoldInv, NEW d \in Clients, NEW s \in Clients, d # s,
           open' = Closed(d),
           fd' = [fd EXCEPT ![d] = fd[s], ![s] = NoFd]
    PROVE  /\ fd' \in [Clients -> Fds \cup {NoFd}]
           /\ open' \in [Fds -> 0..MaxConns]
           /\ HoldInv'
           /\ fd'[d] = fd[s] /\ fd'[s] = NoFd
           /\ \A c \in Clients : c # d /\ c # s => fd'[c] = fd[c]
           /\ \A f \in Fds : open'[f] = 0 \/ open'[f] = open[f]
           /\ \A c \in Clients : fd'[c] # NoFd => open'[fd'[c]] = open[fd'[c]]
  <1>1. /\ fd' \in [Clients -> Fds \cup {NoFd}]
        /\ fd'[d] = fd[s] /\ fd'[s] = NoFd
        /\ \A c \in Clients : c # d /\ c # s => fd'[c] = fd[c]
    BY DEF TypeOK
  <1>2. /\ open' \in [Fds -> 0..MaxConns]
        /\ \A f \in Fds : open'[f] = IF f = fd[d] THEN 0 ELSE open[f]
    BY HandlesAssumption DEF TypeOK, Closed
  <1>3. \A b, c \in Clients : fd'[b] = fd'[c] /\ fd'[b] # NoFd => b = c
    BY <1>1 DEF HoldInv
  <1>4. ASSUME NEW c \in Clients, fd'[c] # NoFd
        PROVE  fd'[c] \in Fds /\ fd'[c] # fd[d]
    BY <1>1, <1>4 DEF HoldInv
  <1>5. ASSUME NEW f \in Fds
        PROVE  open'[f] # 0 <=> \E c \in Clients : fd'[c] = f
    <2>1. CASE f = fd[d]
      <3>1. ~ \E c \in Clients : fd'[c] = f
        BY <1>4, <2>1, HandlesAssumption, ZenonT(30)
      <3> QED  BY <1>2, <2>1, <3>1, ZenonT(30)
    <2>2. CASE f # fd[d]
      <3>1. ASSUME NEW c \in Clients, fd[c] = f
            PROVE  \E b \in Clients : fd'[b] = f
        BY <1>1, <2>2, <3>1
      <3>2. ASSUME NEW c \in Clients, fd'[c] = f
            PROVE  \E b \in Clients : fd[b] = f
        BY <1>1, <3>2, HandlesAssumption
      <3> QED  BY <1>2, <2>2, <3>1, <3>2, ZenonT(30) DEF HoldInv
    <2> QED  BY <2>1, <2>2, ZenonT(30)
  <1>6. HoldInv'
    BY <1>3, <1>5, ZenonT(30) DEF HoldInv
  <1>7. \A c \in Clients : fd'[c] # NoFd => open'[fd'[c]] = open[fd'[c]]
    BY <1>2, <1>4, ZenonT(30)
  <1> QED  BY <1>1, <1>2, <1>6, <1>7

\* A connect gives client c a descriptor and a connection nobody had.
LEMMA ConnectHolds ==
    ASSUME TypeOK, HoldInv, ConnInv, NEW c \in Clients, NEW ok \in BOOLEAN,
           TransportConnect(c, ok), sent' = sent
    PROVE  /\ fd' \in [Clients -> Fds \cup {NoFd}]
           /\ open' \in [Fds -> 0..MaxConns]
           /\ conns' \in 0..MaxConns
           /\ HoldInv' /\ ConnInv'
           /\ \A d \in Clients : d # c =>
                /\ fd'[d] = fd[d]
                /\ fd'[d] # NoFd => open'[fd'[d]] = open[fd[d]]
           /\ fd'[c] # NoFd => sent[open'[fd'[c]]] = 0
           /\ ~ok => fd'[c] = NoFd
  <1>1. CASE ~ok
    <2>1. CloseFd(c) /\ conns' = conns
      BY <1>1 DEF TransportConnect, CloseFd
    <2>2. /\ fd' \in [Clients -> Fds \cup {NoFd}]
          /\ open' \in [Fds -> 0..MaxConns]
          /\ HoldInv' /\ fd'[c] = NoFd
          /\ \A d \in Clients : d # c => fd'[d] = fd[d]
          /\ \A f \in Fds : open'[f] = 0 \/ open'[f] = open[f]
          /\ \A d \in Clients : fd'[d] # NoFd => open'[fd'[d]] = open[fd[d]]
      BY <2>1, CloseHolds
    <2>3. ConnInv'
      BY SMTT(30), <2>1, <2>2, HandlesAssumption DEF ConnInv, TypeOK
    <2> QED  BY <2>1, <2>2, <2>3 DEF TypeOK
  <1>2. CASE ok
    <2>1. PICK f \in Fds :
              /\ Closed(c)[f] = 0
              /\ conns < MaxConns
              /\ conns' = conns + 1
              /\ open' = [Closed(c) EXCEPT ![f] = conns + 1]
              /\ fd' = [fd EXCEPT ![c] = f]
      BY <1>2 DEF TransportConnect
    <2>2. conns \in Nat /\ conns' \in 0..MaxConns
      BY <2>1, HandlesAssumption DEF TypeOK
    <2>3. \A g \in Fds : open'[g] = IF g = f THEN conns + 1
                                    ELSE IF g = fd[c] THEN 0 ELSE open[g]
      BY <2>1 DEF Closed
    <2>4. open' \in [Fds -> 0..MaxConns]
      BY <2>1, <2>2, HandlesAssumption DEF Closed, TypeOK
    <2>5. /\ fd' \in [Clients -> Fds \cup {NoFd}]
          /\ fd'[c] = f
          /\ \A d \in Clients : d # c => fd'[d] = fd[d]
      BY <2>1 DEF TypeOK
    <2>6. f = fd[c] \/ open[f] = 0
      BY <2>1 DEF Closed
    <2>7. \A d \in Clients : d # c => fd[d] # f
      BY <2>6, HandlesAssumption DEF HoldInv
    <2>8. \A d, e \in Clients : fd'[d] = fd'[e] /\ fd'[d] # NoFd => d = e
      BY <2>5, <2>7 DEF HoldInv
    <2>9. ASSUME NEW g \in Fds
          PROVE  open'[g] # 0 <=> \E d \in Clients : fd'[d] = g
      <3>1. CASE g = f
        BY <2>2, <2>3, <2>5, <3>1
      <3>2. CASE g # f /\ g = fd[c]
        <4>1. \A d \in Clients : d # c => fd[d] # g
          BY <3>2, HandlesAssumption DEF HoldInv
        <4> QED  BY <2>3, <2>5, <3>2, <4>1
      <3>3. CASE g # f /\ g # fd[c]
        <4>1. (\E d \in Clients : fd'[d] = g) <=> \E d \in Clients : fd[d] = g
          BY <2>5, <3>3
        <4> QED  BY <2>3, <3>3, <4>1 DEF HoldInv
      <3> QED  BY <3>1, <3>2, <3>3
    <2>10. HoldInv'
      BY <2>8, <2>9 DEF HoldInv
    <2>11. ConnInv'
      <3>1. \A g \in Fds : open[g] \in Nat /\ open[g] <= conns
        BY HandlesAssumption DEF ConnInv, TypeOK
      <3>2. \A g \in Fds : open'[g] <= conns'
        BY <2>1, <2>2, <2>3, <3>1
      <3>3. \A g, h \in Fds : open'[g] = open'[h] /\ open'[g] # 0 => g = h
        BY <2>2, <2>3, <3>1 DEF ConnInv
      <3>4. \A k \in 1..MaxConns : k > conns' => sent'[k] = 0
        BY <2>1, <2>2, HandlesAssumption DEF ConnInv
      <3> QED  BY <3>2, <3>3, <3>4 DEF ConnInv
    <2>12. \A d \in Clients : d # c /\ fd'[d] # NoFd => open'[fd'[d]] = open[fd[d]]
      <3> TAKE d \in Clients
      <3> HAVE d # c /\ fd'[d] # NoFd
      <3>1. fd'[d] = fd[d] /\ fd[d] \in Fds /\ fd[d] # f /\ fd[d] # fd[c]
        BY <2>5, <2>7 DEF TypeOK, HoldInv
      <3> QED  BY <2>3, <3>1
    <2>13. sent[open'[fd'[c]]] = 0
      <3>1. conns + 1 \in 1..MaxConns
        BY <2>1, <2>2, HandlesAssumption
      <3> QED  BY <2>2, <2>3, <2>5, <3>1 DEF ConnInv
    <2> QED  BY <1>2, <2>2, <2>4, <2>5, <2>10, <2>11, <2>12, <2>13
  <1> QED  BY <1>1, <1>2

-----------------------------------------------------------------------------
(* The inductive invariant, by kind of operation. *)

\* The initial state satisfies the inductive invariant.
LEMMA IndInit == Init => IndInv
  <1> SUFFICES ASSUME Init PROVE IndInv
    OBVIOUS
  <1>1. TypeOK
    BY HandlesAssumption DEF Init, TypeOK
  <1>2. DeadInv /\ HoldInv /\ ConnInv /\ NumberInv
    BY HandlesAssumption DEF Init, DeadInv, HoldInv, ConnInv, NumberInv
  <1>3. EndpointInv
    BY DEF Init, EndpointInv, EndpointsOwn, Inner
  <1> QED  BY <1>1, <1>2, <1>3 DEF IndInv

\* Closing a descriptor, with or without a new numbering, keeps what is about
\* descriptors and connections.
LEMMA CloseStep ==
    ASSUME IndInv, NEW c \in Clients, CloseFd(c),
           xid' \in {xid, [xid EXCEPT ![c] = 1]},
           UNCHANGED <<conns, sent>>
    PROVE  /\ fd' \in [Clients -> Fds \cup {NoFd}]
           /\ open' \in [Fds -> 0..MaxConns]
           /\ xid' \in [Clients -> Nat]
           /\ conns' \in 0..MaxConns
           /\ sent' \in [1..MaxConns -> Nat]
           /\ HoldInv' /\ ConnInv' /\ NumberInv'
           /\ fd'[c] = NoFd
           /\ \A d \in Clients : d # c => fd'[d] = fd[d]
  <1>1. /\ fd' \in [Clients -> Fds \cup {NoFd}]
        /\ open' \in [Fds -> 0..MaxConns]
        /\ HoldInv' /\ fd'[c] = NoFd
        /\ \A d \in Clients : d # c => fd'[d] = fd[d]
        /\ \A f \in Fds : open'[f] = 0 \/ open'[f] = open[f]
        /\ \A d \in Clients : fd'[d] # NoFd => open'[fd'[d]] = open[fd[d]]
    BY CloseHolds DEF IndInv
  <1>2. /\ xid' \in [Clients -> Nat]
        /\ \A d \in Clients : d # c => xid'[d] = xid[d]
        /\ xid'[c] >= 1
    BY DEF IndInv, TypeOK, NumberInv
  <1>3. ConnInv'
    BY <1>1, HandlesAssumption DEF IndInv, ConnInv, TypeOK
  <1>4. NumberInv'
    BY <1>1, <1>2 DEF IndInv, NumberInv
  <1> QED  BY <1>1, <1>2, <1>3, <1>4 DEF IndInv, TypeOK

\* The same for a connect.  The client's numbering is kept or starts at 1.
LEMMA ConnectStep ==
    ASSUME IndInv, NEW c \in Clients, NEW ok \in BOOLEAN,
           TransportConnect(c, ok),
           xid' \in {xid, [xid EXCEPT ![c] = 1]}, sent' = sent
    PROVE  /\ fd' \in [Clients -> Fds \cup {NoFd}]
           /\ open' \in [Fds -> 0..MaxConns]
           /\ xid' \in [Clients -> Nat]
           /\ conns' \in 0..MaxConns
           /\ sent' \in [1..MaxConns -> Nat]
           /\ HoldInv' /\ ConnInv' /\ NumberInv'
           /\ ~ok => fd'[c] = NoFd
           /\ \A d \in Clients : d # c => fd'[d] = fd[d]
  <1>1. /\ fd' \in [Clients -> Fds \cup {NoFd}]
        /\ open' \in [Fds -> 0..MaxConns]
        /\ conns' \in 0..MaxConns
        /\ HoldInv' /\ ConnInv'
        /\ \A d \in Clients : d # c =>
             /\ fd'[d] = fd[d]
             /\ fd'[d] # NoFd => open'[fd'[d]] = open[fd[d]]
        /\ fd'[c] # NoFd => sent[open'[fd'[c]]] = 0
        /\ ~ok => fd'[c] = NoFd
    BY ConnectHolds DEF IndInv
  <1>2. /\ xid' \in [Clients -> Nat]
        /\ \A d \in Clients : d # c => xid'[d] = xid[d]
        /\ xid'[c] >= 1
    BY DEF IndInv, TypeOK, NumberInv
  <1>3. ASSUME NEW d \in Clients
        PROVE  xid'[d] >= 1 /\ (fd'[d] # NoFd => sent'[open'[fd'[d]]] < xid'[d])
    <2>1. CASE d = c
      BY <1>1, <1>2, <2>1
    <2>2. CASE d # c
      BY <1>1, <1>2, <2>2 DEF IndInv, NumberInv
    <2> QED  BY <2>1, <2>2
  <1>4. NumberInv'
    BY <1>3 DEF NumberInv
  <1> QED  BY <1>1, <1>2, <1>4 DEF IndInv, TypeOK

\* The same for a move from s to d.
LEMMA MoveStep ==
    ASSUME IndInv, NEW d \in Clients, NEW s \in Clients, d # s,
           open' = Closed(d),
           fd' = [fd EXCEPT ![d] = fd[s], ![s] = NoFd],
           xid' = [xid EXCEPT ![d] = xid[s], ![s] = 1],
           UNCHANGED <<conns, sent>>
    PROVE  /\ fd' \in [Clients -> Fds \cup {NoFd}]
           /\ open' \in [Fds -> 0..MaxConns]
           /\ xid' \in [Clients -> Nat]
           /\ conns' \in 0..MaxConns
           /\ sent' \in [1..MaxConns -> Nat]
           /\ HoldInv' /\ ConnInv' /\ NumberInv'
           /\ \A c \in Clients : c # d /\ c # s => fd'[c] = fd[c]
  <1>1. /\ fd' \in [Clients -> Fds \cup {NoFd}]
        /\ open' \in [Fds -> 0..MaxConns]
        /\ HoldInv'
        /\ fd'[d] = fd[s] /\ fd'[s] = NoFd
        /\ \A c \in Clients : c # d /\ c # s => fd'[c] = fd[c]
        /\ \A f \in Fds : open'[f] = 0 \/ open'[f] = open[f]
        /\ \A c \in Clients : fd'[c] # NoFd => open'[fd'[c]] = open[fd'[c]]
    BY MoveHolds, ZenonT(30) DEF IndInv
  <1>2. /\ xid' \in [Clients -> Nat]
        /\ xid'[d] = xid[s] /\ xid'[s] = 1
        /\ \A c \in Clients : c # d /\ c # s => xid'[c] = xid[c]
    BY DEF IndInv, TypeOK
  <1>3. ConnInv'
    <2>1. /\ \A f \in Fds : open[f] \in Nat /\ open[f] <= conns
          /\ conns \in Nat
      BY HandlesAssumption DEF IndInv, ConnInv, TypeOK
    <2>2. \A f \in Fds : open'[f] <= conns'
      BY <1>1, <2>1
    <2>3. \A f, g \in Fds : open'[f] = open'[g] /\ open'[f] # 0 => f = g
      BY <1>1 DEF IndInv, ConnInv
    <2> QED  BY <2>2, <2>3 DEF IndInv, ConnInv
  <1>4. NumberInv'
    BY <1>1, <1>2 DEF IndInv, NumberInv
  <1> QED  BY <1>1, <1>2, <1>3, <1>4, ZenonT(30) DEF IndInv, TypeOK

\* Every operation of RpcClient and of the C handles keeps the invariant.
LEMMA ClientStep ==
    ASSUME IndInv, ClientNext
    PROVE  IndInv'
  <1> USE DEF clientVars, osVars, endpointVars
  <1>0. PICK c \in Clients :
            \/ Construct(c) \/ Disconnect(c) \/ Call(c) \/ Destroy(c)
            \/ \E ok \in BOOLEAN : Connect(c, ok) \/ nfstest_rpc_connect(c, ok)
            \/ \E s \in Clients : MoveConstruct(c, s) \/ MoveAssign(c, s)
    BY DEF ClientNext
  <1>1. ASSUME alive \subseteq alive', UNCHANGED <<made, impl>>
        PROVE  EndpointInv'
    BY <1>1 DEF IndInv, EndpointInv, EndpointsOwn, Inner
  <1>2. CASE Construct(c)
    <2>1. fd' = fd
      BY <1>2 DEF Construct, IndInv, TypeOK, DeadInv
    <2>2. TypeOK'
      BY <1>2 DEF Construct, IndInv, TypeOK
    <2>3. NumberInv'
      BY <1>2, <2>1 DEF Construct, IndInv, NumberInv, DeadInv, TypeOK
    <2>4. DeadInv' /\ HoldInv' /\ ConnInv'
      BY <1>2, <2>1 DEF Construct, IndInv, DeadInv, HoldInv, ConnInv
    <2> QED  BY <1>1, <1>2, <2>2, <2>3, <2>4 DEF Construct, IndInv
  <1>3. CASE Disconnect(c)
    <2>1. CloseFd(c) /\ alive' = alive /\ UNCHANGED <<conns, sent, made, impl>>
      BY <1>3 DEF Disconnect, CloseFd
    <2>2. xid' \in {xid, [xid EXCEPT ![c] = 1]}
      BY <1>3 DEF Disconnect
    <2>3. DeadInv'
      BY <2>1, <2>2, CloseStep DEF IndInv, DeadInv
    <2> QED  BY <1>1, <2>1, <2>2, <2>3, CloseStep DEF IndInv, TypeOK
  <1>4. CASE Call(c)
    <2>1. fd[c] \in Fds /\ open[fd[c]] \in 1..MaxConns
      BY <1>4, HeldIsOpen DEF Call, IndInv
    <2>2. TypeOK'
      BY <1>4, <2>1 DEF Call, IndInv, TypeOK
    <2>3. ConnInv'
      BY <1>4, <2>1, HandlesAssumption DEF Call, IndInv, ConnInv, TypeOK
    <2>4. ASSUME NEW d \in Clients
          PROVE  xid'[d] >= 1 /\ (fd'[d] # NoFd => sent'[open'[fd'[d]]] < xid'[d])
      <3>1. CASE d = c
        BY <1>4, <2>1, <3>1 DEF Call, IndInv, TypeOK, NumberInv
      <3>2. CASE d # c /\ fd[d] # NoFd
        <4>1. fd[d] \in Fds /\ open[fd[d]] \in 1..MaxConns
          BY <3>2, HeldIsOpen DEF IndInv
        <4>2. open[fd[d]] # open[fd[c]]
          BY <2>1, <3>2, <4>1 DEF IndInv, HoldInv, ConnInv
        <4> QED
          BY <1>4, <2>1, <3>2, <4>1, <4>2 DEF Call, IndInv, TypeOK, NumberInv
      <3>3. CASE d # c /\ fd[d] = NoFd
        BY <1>4, <3>3 DEF Call, IndInv, TypeOK, NumberInv
      <3> QED  BY <3>1, <3>2, <3>3
    <2>5. NumberInv'
      BY <2>4 DEF NumberInv
    <2>6. DeadInv' /\ HoldInv'
      BY <1>4 DEF Call, IndInv, DeadInv, HoldInv
    <2> QED  BY <1>1, <1>4, <2>2, <2>3, <2>5, <2>6 DEF Call, IndInv
  <1>5. CASE Destroy(c)
    <2>1. CloseFd(c) /\ alive' = alive \ {c} /\ c \notin Inner
      BY <1>5 DEF Destroy, CloseFd, Reachable
    <2>2. UNCHANGED <<xid, conns, sent, made, impl>>
      BY <1>5 DEF Destroy
    <2>3. DeadInv'
      BY <2>1, <2>2, CloseStep DEF IndInv, DeadInv
    <2>4. EndpointInv'
      BY <2>1, <2>2 DEF IndInv, EndpointInv, EndpointsOwn, Inner
    <2> QED  BY <2>1, <2>2, <2>3, <2>4, CloseStep DEF IndInv, TypeOK
  <1>6. ASSUME NEW ok \in BOOLEAN, Connect(c, ok) PROVE IndInv'
    <2>1. /\ TransportConnect(c, ok) /\ c \in alive
          /\ UNCHANGED <<alive, xid, sent, made, impl>>
      BY <1>6 DEF Connect, Reachable
    <2>2. DeadInv'
      BY <2>1, ConnectStep DEF IndInv, DeadInv
    <2> QED  BY <1>1, <2>1, <2>2, ConnectStep DEF IndInv, TypeOK
  <1>7. ASSUME NEW ok \in BOOLEAN, nfstest_rpc_connect(c, ok) PROVE IndInv'
    <2>1. /\ TransportConnect(c, ok)
          /\ alive' = IF ok THEN alive \cup {c} ELSE alive
          /\ xid' = [xid EXCEPT ![c] = 1]
          /\ UNCHANGED <<sent, made, impl>>
      BY <1>7 DEF nfstest_rpc_connect
    <2>2. DeadInv'
      BY <2>1, ConnectStep, ZenonT(30) DEF IndInv, DeadInv
    <2> QED  BY <1>1, <2>1, <2>2, ConnectStep, ZenonT(30) DEF IndInv, TypeOK
  <1>8. ASSUME NEW s \in Clients, MoveConstruct(c, s) PROVE IndInv'
    <2>1. /\ c # s /\ s \in alive /\ alive' = alive \cup {c}
          /\ fd' = [fd EXCEPT ![c] = fd[s], ![s] = NoFd]
          /\ xid' = [xid EXCEPT ![c] = xid[s], ![s] = 1]
          /\ UNCHANGED <<open, conns, sent, made, impl>>
      BY <1>8 DEF MoveConstruct, FdAfterMove, Reachable
    <2>2. fd[c] = NoFd
      BY <1>8 DEF MoveConstruct, IndInv, DeadInv
    <2>3. open' = Closed(c)
      BY <2>1, <2>2, HandlesAssumption DEF Closed, IndInv, TypeOK
    <2>4. DeadInv'
      BY <2>1, <2>3, MoveStep, ZenonT(30) DEF IndInv, DeadInv
    <2> QED  BY <1>1, <2>1, <2>3, <2>4, MoveStep, ZenonT(30) DEF IndInv, TypeOK
  <1>9. ASSUME NEW s \in Clients, MoveAssign(c, s) PROVE IndInv'
    <2>1. /\ c \in alive /\ s \in alive
          /\ UNCHANGED <<alive, conns, sent, made, impl>>
      BY <1>9 DEF MoveAssign, Reachable
    <2>2. CASE c = s
      BY <1>9, <2>1, <2>2
         DEF MoveAssign, IndInv, TypeOK, DeadInv, HoldInv, ConnInv, NumberInv,
             EndpointInv, EndpointsOwn, Inner
    <2>3. CASE c # s
      <3>1. /\ open' = Closed(c)
            /\ fd' = [fd EXCEPT ![c] = fd[s], ![s] = NoFd]
            /\ xid' = [xid EXCEPT ![c] = xid[s], ![s] = 1]
        BY <1>9, <2>3 DEF MoveAssign, FdAfterMove, MovedXid
      <3>2. DeadInv'
        BY <2>1, <2>3, <3>1, MoveStep, ZenonT(30) DEF IndInv, DeadInv
      <3> QED  BY <1>1, <2>1, <2>3, <3>1, <3>2, MoveStep, ZenonT(30) DEF IndInv, TypeOK
    <2> QED  BY <2>2, <2>3
  <1> QED
    BY <1>0, <1>2, <1>3, <1>4, <1>5, <1>6, <1>7, <1>8, <1>9

\* An endpoint that owns a client destroys it.
LEMMA ReleaseStep ==
    ASSUME IndInv, NEW e \in made, Release(e),
           UNCHANGED <<xid, conns, sent>>
    PROVE  /\ alive' = alive \ {impl[e]}
           /\ fd' \in [Clients -> Fds \cup {NoFd}]
           /\ open' \in [Fds -> 0..MaxConns]
           /\ xid' \in [Clients -> Nat]
           /\ conns' \in 0..MaxConns
           /\ sent' \in [1..MaxConns -> Nat]
           /\ DeadInv' /\ HoldInv' /\ ConnInv' /\ NumberInv'
  <1>1. e \in Endpoints /\ impl[e] \in Clients \cup {NoClient}
    BY DEF IndInv, TypeOK
  <1>2. CASE impl[e] = NoClient
    <2>1. alive' = alive /\ fd' = fd /\ open' = open
      BY <1>2 DEF Release
    <2>2. alive' = alive \ {impl[e]}
      BY <1>2, <2>1, HandlesAssumption DEF IndInv, TypeOK
    <2> QED
      BY <2>1, <2>2 DEF IndInv, TypeOK, DeadInv, HoldInv, ConnInv, NumberInv
  <1>3. CASE impl[e] # NoClient
    <2>1. PICK c \in Clients : c = impl[e]
      BY <1>1, <1>3
    <2>2. CloseFd(c) /\ alive' = alive \ {c}
      BY <1>3, <2>1 DEF Release, CloseFd
    <2>3. DeadInv'
      BY <2>2, CloseStep DEF IndInv, DeadInv
    <2> QED  BY <2>1, <2>2, <2>3, CloseStep
  <1> QED  BY <1>2, <1>3

\* Every operation of RPCEndpoint keeps the invariant.
LEMMA EndpointStep ==
    ASSUME IndInv, EndpointNext
    PROVE  IndInv'
  <1> USE DEF clientVars, osVars, endpointVars
  <1>0. PICK e \in Endpoints :
            \/ EndpointDestroy(e) \/ shutdown(e)
            \/ \E c \in Clients, ok \in BOOLEAN : create(e, c, ok)
            \/ \E s \in Endpoints :
                  EndpointMoveConstruct(e, s) \/ EndpointMoveAssign(e, s)
    BY DEF EndpointNext
  <1>1. CASE EndpointDestroy(e)
    <2>1. /\ e \in made /\ Release(e) /\ UNCHANGED <<xid, conns, sent>>
          /\ made' = made \ {e}
          /\ impl' = [impl EXCEPT ![e] = NoClient]
      BY <1>1 DEF EndpointDestroy
    <2>2. /\ impl' \in [Endpoints -> Clients \cup {NoClient}]
          /\ impl'[e] = NoClient
          /\ \A g \in Endpoints : g # e => impl'[g] = impl[g]
      BY <2>1 DEF IndInv, TypeOK
    <2>3. alive' = alive \ {impl[e]}
      BY <2>1, ReleaseStep
    <2>4. EndpointInv'
      BY <2>1, <2>2, <2>3
         DEF IndInv, TypeOK, EndpointInv, EndpointsOwn, Inner
    <2> QED  BY <2>1, <2>2, <2>4, ReleaseStep DEF IndInv, TypeOK
  <1>2. CASE shutdown(e)
    <2>1. PICK c \in Clients : c = impl[e]
      BY <1>2 DEF shutdown, IndInv, TypeOK
    <2>2. /\ CloseFd(c) /\ xid' = [xid EXCEPT ![c] = 1]
          /\ UNCHANGED <<alive, conns, sent, made, impl>>
      BY <1>2, <2>1 DEF shutdown, CloseFd
    <2>3. DeadInv'
      BY <2>2, CloseStep, ZenonT(30) DEF IndInv, DeadInv
    <2>4. EndpointInv'
      BY <2>2 DEF IndInv, EndpointInv, EndpointsOwn, Inner
    <2> QED  BY <2>2, <2>3, <2>4, CloseStep, ZenonT(30) DEF IndInv, TypeOK
  <1>3. ASSUME NEW c \in Clients, NEW ok \in BOOLEAN, create(e, c, ok)
        PROVE  IndInv'
    <2>1. /\ TransportConnect(c, ok)
          /\ e \notin made /\ made' = made \cup {e}
          /\ c \notin alive /\ alive' = alive \cup {c}
          /\ impl' = [impl EXCEPT ![e] = c]
          /\ xid' = [xid EXCEPT ![c] = 1]
          /\ sent' = sent
      BY <1>3 DEF create
    <2>2. /\ impl' \in [Endpoints -> Clients \cup {NoClient}]
          /\ impl'[e] = c
          /\ \A g \in Endpoints : g # e => impl'[g] = impl[g]
      BY <2>1 DEF IndInv, TypeOK
    <2>3. DeadInv'
      BY <2>1, ConnectStep, ZenonT(30) DEF IndInv, DeadInv
    <2>4. EndpointInv'
      BY <2>1, <2>2, HandlesAssumption
         DEF IndInv, TypeOK, EndpointInv, EndpointsOwn, Inner
    <2>5. /\ fd' \in [Clients -> Fds \cup {NoFd}]
          /\ open' \in [Fds -> 0..MaxConns]
          /\ xid' \in [Clients -> Nat]
          /\ conns' \in 0..MaxConns
          /\ sent' \in [1..MaxConns -> Nat]
          /\ HoldInv' /\ ConnInv' /\ NumberInv'
      BY <2>1, ConnectStep, ZenonT(30)
    <2>6. alive' \subseteq Clients /\ made' \subseteq Endpoints
      BY <2>1 DEF IndInv, TypeOK
    <2>7. TypeOK'
      BY <2>2, <2>5, <2>6 DEF TypeOK
    <2> QED  BY <2>3, <2>4, <2>5, <2>7 DEF IndInv
  <1>4. ASSUME NEW s \in Endpoints, EndpointMoveConstruct(e, s)
        PROVE  IndInv'
    <2>1. /\ e \notin made /\ s \in made /\ e # s /\ made' = made \cup {e}
          /\ impl' = [impl EXCEPT ![e] = impl[s], ![s] = NoClient]
          /\ UNCHANGED <<alive, fd, xid, open, conns, sent>>
      BY <1>4 DEF EndpointMoveConstruct, ImplAfterMove
    <2>2. /\ impl' \in [Endpoints -> Clients \cup {NoClient}]
          /\ impl'[e] = impl[s] /\ impl'[s] = NoClient
          /\ \A g \in Endpoints : g # e /\ g # s => impl'[g] = impl[g]
      BY <2>1 DEF IndInv, TypeOK
    <2>3. EndpointInv'
      BY <2>1, <2>2 DEF IndInv, TypeOK, EndpointInv, EndpointsOwn, Inner
    <2> QED
      BY <2>1, <2>2, <2>3
         DEF IndInv, TypeOK, DeadInv, HoldInv, ConnInv, NumberInv
  <1>5. ASSUME NEW s \in Endpoints, EndpointMoveAssign(e, s)
        PROVE  IndInv'
    <2>1. e \in made /\ s \in made /\ UNCHANGED <<conns, sent, made>>
      BY <1>5 DEF EndpointMoveAssign
    <2>2. CASE e = s
      BY <1>5, <2>1, <2>2
         DEF EndpointMoveAssign, IndInv, TypeOK, DeadInv, HoldInv, ConnInv,
             NumberInv, EndpointInv, EndpointsOwn, Inner
    <2>3. CASE e # s
      <3>1. /\ Release(e) /\ xid' = xid
            /\ impl' = [impl EXCEPT ![e] = impl[s], ![s] = NoClient]
        BY <1>5, <2>3 DEF EndpointMoveAssign, ImplAfterMove
      <3>2. /\ impl' \in [Endpoints -> Clients \cup {NoClient}]
            /\ impl'[e] = impl[s] /\ impl'[s] = NoClient
            /\ \A g \in Endpoints : g # e /\ g # s => impl'[g] = impl[g]
        BY <2>3, <3>1 DEF IndInv, TypeOK
      <3>3. alive' = alive \ {impl[e]}
        BY <2>1, <3>1, ReleaseStep
      <3>4. EndpointInv'
        <4>1. /\ made \subseteq Endpoints
              /\ \A g, h \in made :
                    impl[g] = impl[h] /\ impl[g] # NoClient => g = h
              /\ \A g \in made : impl[g] # NoClient => impl[g] \in alive
              /\ \A g \in Endpoints \ made : impl[g] = NoClient
          BY DEF IndInv, TypeOK, EndpointInv, EndpointsOwn, Inner
        <4>2. \A g, h \in made :
                 impl'[g] = impl'[h] /\ impl'[g] # NoClient => g = h
          BY <2>1, <2>3, <3>2, <4>1
        <4>3. \A g \in made : impl'[g] # NoClient => impl'[g] \in alive'
          BY <2>1, <2>3, <3>2, <3>3, <4>1
        <4>4. \A g \in Endpoints \ made : impl'[g] = NoClient
          BY <2>1, <3>2, <4>1
        <4> QED
          BY <2>1, <4>2, <4>3, <4>4 DEF EndpointInv, EndpointsOwn, Inner
      <3> QED  BY <2>1, <3>1, <3>2, <3>3, <3>4, ReleaseStep, ZenonT(30) DEF IndInv, TypeOK
    <2> QED  BY <2>2, <2>3
  <1> QED  BY <1>0, <1>1, <1>2, <1>3, <1>4, <1>5

\* Every operation of clients, C handles and endpoints preserves it.
LEMMA IndNext == IndInv /\ [Next]_vars => IndInv'
  <1>1. ASSUME IndInv, UNCHANGED vars PROVE IndInv'
    BY <1>1
       DEF vars, clientVars, osVars, endpointVars, IndInv, TypeOK, DeadInv,
           HoldInv, ConnInv, NumberInv, EndpointInv, EndpointsOwn, Inner
  <1> QED  BY <1>1, ClientStep, EndpointStep DEF Next

\* So it always holds.
LEMMA Inductive == Spec => []IndInv
  BY IndInit, IndNext, PTL DEF Spec

-----------------------------------------------------------------------------
\* The state of clients, descriptors and endpoints keeps its type.
THEOREM HandlesTyped == Spec => []TypeOK
  <1>1. IndInv => TypeOK
    BY DEF IndInv
  <1> QED  BY <1>1, Inductive, PTL

\* However many clients are constructed, moved, reconnected and destroyed, no
\* two live ones hold one descriptor, and no two descriptors one connection
\* (TcpTransport's move operations, rpc_transport.cpp:20 and :25).
THEOREM DescriptorsOwnedOnce == Spec => []SingleOwner
  <1>1. IndInv => SingleOwner
    BY DEF IndInv, TypeOK, HoldInv, ConnInv, SingleOwner
  <1> QED  BY <1>1, Inductive, PTL

\* The open descriptors are those of live clients: TcpTransport neither leaks a
\* descriptor nor uses a closed one (rpc_transport.cpp:16 and :87).
THEOREM NoLeakNoDangling == Spec => []OpenIsHeld
  <1>1. ASSUME IndInv, NEW f \in Fds
        PROVE  open[f] # 0 <=> \E c \in alive : fd[c] = f
    <2>1. \A c \in Clients : fd[c] = f => c \in alive
      BY <1>1, HandlesAssumption DEF IndInv, DeadInv
    <2> QED  BY <1>1, <2>1 DEF IndInv, TypeOK, HoldInv
  <1>2. IndInv => OpenIsHeld
    BY <1>1 DEF OpenIsHeld
  <1> QED  BY <1>2, Inductive, PTL

\* A connection that is moved takes its numbering along: RpcClient sends no xid
\* twice on a connection before its 32-bit counter wraps (rpc_client.cpp:13,
\* :19 and :32).
THEOREM XidsFresh == Spec => []XidFresh
  <1>1. IndInv => XidFresh
    BY DEF IndInv, TypeOK, NumberInv, XidFresh
  <1> QED  BY <1>1, Inductive, PTL

\* No RpcClient belongs to two endpoints or is destroyed under its endpoint
\* (RPCEndpoint's move operations, rpc_endpoint.cpp:74 and :77).
THEOREM EndpointsOwnClients == Spec => []EndpointsOwn
  <1>1. IndInv => EndpointsOwn
    BY DEF IndInv, EndpointInv
  <1> QED  BY <1>1, Inductive, PTL
=============================================================================
