-------------------------- MODULE TestClientProofs --------------------------
(***************************************************************************)
(* The safety properties of TestClient, for any number of tests and of     *)
(* restarts of the server and for both builds.                             *)
(***************************************************************************)
EXTENDS TestClient, TLAPS

\* Leaves that need no arithmetic and that SMT does not find cite Zenon.
USE SMTT(30)

\* Nothing has been returned for a call that is under way.
Quiet ==
    pc \in Waiting => result = "none" /\ rpcerr = "none" /\ mounterr = -1

\* What arrives is what the server said, of the call under way.
Carried == reply \in {NoReply, said}
Honest ==
    /\ asked.proc \in MountProcs => asked.fhs = {}
    /\ said.rpc = "OK" /\ said.stat = 0 => asked.fhs \subseteq {said.fh}
    /\ said.rpc = "OK" /\ asked.proc \in MountProcs /\ build = "native"
        => port111 = "mountd"

\* A mounter's connection leads to where the build looks for the service.
Reached ==
    /\ mconn # 0 => MountCanReach
    /\ pc \in {"mnt_wait", "m_wait"} => mconn # 0 /\ asked.proc \in MountProcs

\* The fixture mounts only while it has no root handle.
Unmounted == pc \in {"mount", "mnt", "mnt_wait"} => root_fh = 0

IndInv ==
    /\ build \in {"native", "tirpc"}
    /\ Quiet /\ Carried /\ Honest /\ Reached /\ Unmounted
    /\ VerdictIsServers /\ BlameIsServers /\ RootFromMountd
    /\ MountErrorIsServers

-----------------------------------------------------------------------------
(* What the endpoint and the mounter make of a reply. *)

\* A failure of the RPC layer is never reported as SUCCESS, and as one of the
\* server's rejections only if it is one (rpc_endpoint.hpp:275-283).
LEMMA RpcErrorFacts ==
    ASSUME NEW void \in BOOLEAN, NEW rpc, build \in {"native", "tirpc"}
    PROVE  /\ RpcError(void, rpc) # "SUCCESS"
           /\ RpcError(void, rpc) \in {"PROG_UNAVAIL", "PROC_UNAVAIL", "AUTH_ERROR"}
                => rpc = RpcError(void, rpc)
           /\ RpcError(void, rpc) = "PROG_MISMATCH" =>
                rpc \in {"RPC_MISMATCH"} \cup
                        IF build = "native" THEN {"PROG_MISMATCH"} ELSE {}
<1>1. CASE rpc \in {"TIMEOUT", "PROG_UNAVAIL", "PROC_UNAVAIL"}
  <2>1. RpcError(void, rpc) = rpc
    BY <1>1 DEF RpcError
  <2> QED BY <1>1, <2>1
<1>2. CASE rpc \notin {"TIMEOUT", "PROG_UNAVAIL", "PROC_UNAVAIL"} /\ build = "tirpc"
  <2>1. RpcError(void, rpc) = IF rpc = "RPC_MISMATCH" THEN "PROG_MISMATCH" ELSE "UNKNOWN"
    BY <1>2 DEF RpcError
  <2> QED BY <1>2, <2>1
<1>3. CASE rpc \notin {"TIMEOUT", "PROG_UNAVAIL", "PROC_UNAVAIL"} /\ build = "native"
  <2>1. RpcError(void, rpc) =
            IF rpc \in {"PROG_MISMATCH", "RPC_MISMATCH"} THEN "PROG_MISMATCH"
            ELSE IF rpc = "AUTH_ERROR" /\ ~void THEN rpc
            ELSE "CONNECTION_FAILED"
    BY <1>3 DEF RpcError
  <2> QED BY <1>3, <2>1
<1> QED BY <1>1, <1>2, <1>3

\* A value of the endpoint has the server's status; anything else is the RPC
\* layer's error or a decoding error (rpc_endpoint.hpp:262-300, 378-417).
LEMMA EndpointFacts ==
    ASSUME NEW r, NEW v \in Endpoint(r)
    PROVE  \/ r.rpc = "OK" /\ v.err = "SUCCESS" /\ v.stat = r.stat
           \/ r.rpc = "OK" /\ v.err = DecodeError
           \/ r.rpc # "OK" /\ v.err = RpcError(asked.proc = "NULL", r.rpc)
<1> DEFINE void == asked.proc = "NULL"
           value(fh) == [err |-> "SUCCESS", stat |-> r.stat, fh |-> fh]
           failure == [err |-> DecodeError, stat |-> 0, fh |-> 0]
           broken == [err |-> RpcError(void, r.rpc), stat |-> 0, fh |-> 0]
<1>1. CASE r.rpc # "OK"
  <2>1. v = broken
    BY <1>1 DEF Endpoint
  <2> QED BY <1>1, <2>1
<1>2. CASE r.rpc = "OK"
  <2>1. v \in {value(r.fh), value(0), failure}
    BY <1>2 DEF Endpoint
  <2> QED BY <1>2, <2>1
<1> QED BY <1>1, <1>2

\* What arrives at a caller is the server's word on its call, or a failure of
\* the RPC layer's own, which is none of the server's rejections.
LEMMA ArrivedFacts ==
    ASSUME IndInv, NEW r \in Arrived
    PROVE  \/ r = said
           \/ r.rpc \in {"RECV_ERR", "TIMEOUT", "CANTRECV"}
<1>1. CASE r \in Local
  <2>1. PICK rpc \in {"RECV_ERR", "TIMEOUT", "CANTRECV"} : r = Reply(rpc, "none", 0, 0)
    BY <1>1 DEF Local
  <2> QED BY <2>1 DEF Reply
<1>2. CASE reply # NoReply /\ r = reply
  BY <1>2 DEF IndInv, Carried
<1> QED BY <1>1, <1>2 DEF Arrived

\* MountClient returns a value, or an error other than RPC_ERROR, only if the
\* call succeeded, and then as the server said (mount_client.cpp:298-371).
LEMMA MountOutcomeFacts ==
    ASSUME NEW r, MountOutcome(r) \notin {-2, 1}
    PROVE  r.rpc = "OK" /\ (asked.proc = "UMNT" \/ r.stat = MountOutcome(r))
<1>1. r.rpc = "OK"
  BY DEF MountOutcome
<1>2. CASE asked.proc = "UMNT"
  BY <1>1, <1>2
<1>3. CASE asked.proc # "UMNT"
  <2>1. MountOutcome(r) = MountError(r.stat)
    BY <1>1, <1>3 DEF MountOutcome
  <2>2. r.stat \in {0, 1, 2, 5, 13, 20, 63}
    BY <2>1 DEF MountError
  <2> QED BY <1>1, <2>1, <2>2 DEF MountError
<1> QED BY <1>2, <1>3

-----------------------------------------------------------------------------
(* Steps. *)

\* A new call forgets what was said to the one before.
LEMMA AskedFacts ==
    ASSUME NEW proc, NEW fhs, Asked(proc, fhs)
    PROVE  /\ asked'.proc = proc /\ asked'.fhs = fhs
           /\ reply' = NoReply /\ said' = NoReply /\ said'.rpc = "none"
BY DEF Asked, NoReply, Reply

\* The procedures of NFS3TestClient up to the wait for the reply.
LEMMA InvokeStep ==
    ASSUME NEW proc, proc \notin MountProcs, NEW fhs, IndInv, Invoke(proc, fhs)
    PROVE  IndInv'
<1>1. /\ asked'.proc = proc /\ reply' = NoReply /\ said' = NoReply
      /\ said'.rpc = "none"
  BY AskedFacts DEF Invoke
<1>2. /\ build' = build /\ port111' = port111 /\ mconn' = mconn
      /\ root_fh' = root_fh
  BY DEF Invoke, server, links
<1>3. /\ mounterr' = -1
      /\ result' \in {"none", "RPC_ERROR"}
      /\ rpcerr' \in {"none", "CONNECTION_FAILED"}
      /\ pc' \in {"body", "wait", "dead"}
      /\ pc' \in Waiting => result' = "none" /\ rpcerr' = "none"
  BY DEF Invoke, Sent, Waiting
<1>4. Quiet' /\ Carried' /\ Honest' /\ Unmounted'
  BY <1>1, <1>2, <1>3 DEF IndInv, Quiet, Carried, Honest, Unmounted
<1>5. Reached' /\ RootFromMountd'
  BY <1>2, <1>3 DEF IndInv, Reached, MountCanReach, RootFromMountd
<1>6. VerdictIsServers' /\ BlameIsServers' /\ MountErrorIsServers'
  BY <1>1, <1>3 DEF VerdictIsServers, BlameIsServers, MountErrorIsServers
<1> QED BY <1>2, <1>4, <1>5, <1>6 DEF IndInv

\* The calls of MountClient up to the wait for the reply.
LEMMA MountCallStep ==
    ASSUME NEW proc \in MountProcs, NEW from \in {"mnt", "mounter"},
           NEW wait \in {"mnt_wait", "m_wait"},
           wait = "mnt_wait" => from = "mnt",
           IndInv, MountCall(proc, from, wait)
    PROVE  IndInv'
<1>1. /\ asked'.proc = proc /\ asked'.fhs = {} /\ reply' = NoReply
      /\ said' = NoReply /\ said'.rpc = "none"
  BY AskedFacts DEF MountCall
<1>2. /\ build' = build /\ port111' = port111 /\ mconn' = mconn
      /\ root_fh' = root_fh
  BY DEF MountCall, server, links
<1>3. /\ result' = "none" /\ rpcerr' = "none" /\ pc = from
      /\ \/ mconn = 0 /\ mounterr' = 1 /\ pc' = pc
         \/ mconn # 0 /\ mounterr' = -1 /\ pc' \in {wait, "dead"}
  BY DEF MountCall, Sent
<1>4. Quiet' /\ Carried' /\ Honest'
  BY <1>1, <1>2, <1>3 DEF IndInv, Quiet, Carried, Honest, Waiting
<1>5. Unmounted'
  BY <1>2, <1>3 DEF IndInv, Unmounted
<1>6. Reached' /\ RootFromMountd'
  BY <1>1, <1>2, <1>3 DEF IndInv, Reached, MountCanReach, RootFromMountd
<1>7. VerdictIsServers' /\ BlameIsServers' /\ MountErrorIsServers'
  BY <1>1, <1>3 DEF VerdictIsServers, BlameIsServers, MountErrorIsServers
<1> QED BY <1>2, <1>4, <1>5, <1>6, <1>7 DEF IndInv

\* A procedure returns what the server said, or RPC_ERROR.
LEMMA ReturnsStep ==
    ASSUME IndInv, Returns
    PROVE  IndInv'
<1>0. PICK r \in Arrived : \E v \in Endpoint(r) :
          rpcerr' = v.err /\ result' = Nfs3Error(v)
  BY DEF Returns
<1>1. PICK v \in Endpoint(r) : rpcerr' = v.err /\ result' = Nfs3Error(v)
  BY <1>0
<1>2. /\ build' = build /\ port111' = port111 /\ mconn' = mconn
      /\ root_fh' = root_fh /\ asked' = asked /\ reply' = reply /\ said' = said
      /\ mounterr' = mounterr /\ pc = "wait" /\ pc' = "body"
  BY DEF Returns, server, links
<1>3. Quiet' /\ Carried' /\ Honest' /\ Unmounted'
  BY <1>2 DEF IndInv, Quiet, Carried, Honest, Unmounted, Waiting
<1>4. Reached' /\ RootFromMountd' /\ MountErrorIsServers'
  BY <1>2 DEF IndInv, Reached, MountCanReach, RootFromMountd, MountErrorIsServers
<1>5. r = said \/ r.rpc \in {"RECV_ERR", "TIMEOUT", "CANTRECV"}
  BY <1>1, ArrivedFacts
<1> DEFINE void == asked.proc = "NULL"
<1>6. \/ r.rpc = "OK" /\ v.err = "SUCCESS" /\ v.stat = r.stat
      \/ r.rpc = "OK" /\ v.err = DecodeError
      \/ r.rpc # "OK" /\ v.err = RpcError(void, r.rpc)
  BY <1>1, EndpointFacts
<1>7. DecodeError \in {"UNKNOWN", "DECODE_ERROR"}
  BY DEF DecodeError
<1>8. /\ RpcError(void, r.rpc) # "SUCCESS"
      /\ RpcError(void, r.rpc) \in {"PROG_UNAVAIL", "PROC_UNAVAIL", "AUTH_ERROR"}
           => r.rpc = RpcError(void, r.rpc)
      /\ RpcError(void, r.rpc) = "PROG_MISMATCH" =>
           r.rpc \in {"RPC_MISMATCH"} \cup
                     IF build = "native" THEN {"PROG_MISMATCH"} ELSE {}
  <2>1. void \in BOOLEAN /\ build \in {"native", "tirpc"}
    BY DEF IndInv
  <2> HIDE DEF void
  <2> QED BY <2>1, RpcErrorFacts
<1>9. VerdictIsServers'
  <2>1. result' \in {"ok", "SERVERFAULT"} => v.err = "SUCCESS"
    BY <1>1 DEF Nfs3Error
  <2>2. result' \in {"ok", "SERVERFAULT"} =>
            r.rpc = "OK" /\ r = said /\ v.stat = said.stat
    BY <2>1, <1>5, <1>6, <1>7, <1>8
  <2>3. /\ result' = "ok" => v.stat = 0
        /\ result' = "SERVERFAULT" => v.stat # 0
    BY <1>1 DEF Nfs3Error
  <2> QED BY <2>2, <2>3, <1>2 DEF IndInv, Honest, VerdictIsServers
<1>10. BlameIsServers'
  <2>1. rpcerr' \in {"PROG_UNAVAIL", "PROC_UNAVAIL", "AUTH_ERROR", "PROG_MISMATCH"} =>
            rpcerr' = RpcError(void, r.rpc)
    BY <1>1, <1>6, <1>7
  <2> QED BY <2>1, <1>2, <1>5, <1>8 DEF BlameIsServers
<1> QED BY <1>2, <1>3, <1>4, <1>9, <1>10 DEF IndInv

\* MountClient returns; in SetUp() a value becomes the root handle.
LEMMA MountReturnsStep ==
    ASSUME IndInv, MountReturns
    PROVE  IndInv'
<1>1. PICK r \in Arrived :
        /\ mounterr' = MountOutcome(r)
        /\ \/ /\ pc = "mnt_wait" /\ MountOutcome(r) = 0
              /\ pc' = "body" /\ mconn' = 0
           \/ /\ pc' = "teardown" /\ root_fh' = root_fh /\ mconn' = 0
           \/ /\ pc' = "mounter" /\ root_fh' = root_fh /\ mconn' = mconn
  BY DEF MountReturns, Mounted
<1>2. /\ build' = build /\ port111' = port111 /\ asked' = asked
      /\ reply' = reply /\ said' = said /\ result' = result /\ rpcerr' = rpcerr
      /\ pc \in {"mnt_wait", "m_wait"}
  BY DEF MountReturns, server
<1>3. r = said \/ r.rpc \in {"RECV_ERR", "TIMEOUT", "CANTRECV"}
  BY <1>1, ArrivedFacts
<1>4. MountOutcome(r) \notin {-2, 1} =>
        r = said /\ said.rpc = "OK"
        /\ (asked.proc = "UMNT" \/ said.stat = MountOutcome(r))
  BY <1>3, MountOutcomeFacts
<1>5. Quiet' /\ Carried' /\ Honest' /\ Unmounted'
  BY <1>1, <1>2 DEF IndInv, Quiet, Carried, Honest, Unmounted, Waiting
<1>6. Reached'
  BY <1>1, <1>2 DEF IndInv, Reached, MountCanReach
<1>7. VerdictIsServers' /\ BlameIsServers'
  BY <1>2 DEF IndInv, VerdictIsServers, BlameIsServers
<1>8. MountErrorIsServers'
  BY <1>1, <1>2, <1>4 DEF MountErrorIsServers
<1>9. RootFromMountd'
  <2>1. CASE root_fh' = root_fh
    BY <2>1, <1>2 DEF IndInv, RootFromMountd
  <2>2. CASE root_fh' # root_fh
    <3>1. said.rpc = "OK" /\ asked.proc \in MountProcs /\ MountCanReach
      BY <2>2, <1>1, <1>2, <1>4 DEF IndInv, Reached
    <3> QED BY <3>1, <1>2 DEF IndInv, Honest, MountCanReach, RootFromMountd
  <2> QED BY <2>1, <2>2
<1> QED BY <1>2, <1>5, <1>6, <1>7, <1>8, <1>9 DEF IndInv

\* The server's answer is possible for what it is asked, and honest.
LEMMA ServeStep ==
    ASSUME IndInv, Serve
    PROVE  IndInv'
<1>1. PICK r \in Answers \cup {Reply(rpc, "none", 0, epoch) : rpc \in Rejections} :
          (r.rpc = "OK" => Possible(r)) /\ reply' = r /\ said' = r
  BY DEF Serve
<1>2. /\ build' = build /\ port111' = port111 /\ mconn' = mconn /\ pc' = pc
      /\ root_fh' = root_fh /\ asked' = asked /\ result' = result
      /\ rpcerr' = rpcerr /\ mounterr' = mounterr /\ pc \in Waiting
  BY DEF Serve, server, links, outcome
<1>3. result = "none" /\ rpcerr = "none" /\ mounterr = -1
  BY <1>2 DEF IndInv, Quiet
<1>4. VerdictIsServers' /\ BlameIsServers' /\ MountErrorIsServers'
  BY <1>2, <1>3 DEF VerdictIsServers, BlameIsServers, MountErrorIsServers
<1>5. Quiet' /\ Carried' /\ Unmounted'
  BY <1>1, <1>2 DEF IndInv, Quiet, Carried, Unmounted
<1>6. Reached' /\ RootFromMountd'
  BY <1>2 DEF IndInv, Reached, MountCanReach, RootFromMountd
<1>7. r.rpc = "OK" => r \in Answers
  <2>1. ASSUME NEW rpc \in Rejections, r = Reply(rpc, "none", 0, epoch)
        PROVE  r.rpc # "OK"
    BY <2>1 DEF Reply, Rejections
  <2> QED BY <1>1, <2>1
<1>8. r.rpc = "OK" /\ r.stat = 0 => asked.fhs \subseteq {r.fh}
  <2>1. CASE asked.proc \in MountProcs
    BY <2>1 DEF IndInv, Honest
  <2>2. CASE asked.proc \notin MountProcs /\ r \in Answers
    <3>1. PICK body \in {"foreign", "whole", "cut", "empty"},
               stat \in IF asked.fhs \subseteq {epoch} THEN {0, 2} ELSE {70} :
              r = Reply("OK", body, stat, epoch)
      BY <2>2 DEF Answers
    <3>2. r.stat = stat /\ r.fh = epoch
      BY <3>1 DEF Reply
    <3> QED BY <3>1, <3>2
  <2> QED BY <1>7, <2>1, <2>2
<1>9. Honest'
  BY <1>1, <1>2, <1>8 DEF IndInv, Honest, Possible
<1> QED BY <1>2, <1>4, <1>5, <1>6, <1>9 DEF IndInv

\* Steps that leave the call and its outcome alone.
LEMMA OtherStep ==
    ASSUME IndInv,
           build' = build, port111' = port111, asked' = asked, reply' = reply,
           said' = said, result' = result, rpcerr' = rpcerr, mounterr' = mounterr,
           root_fh' = root_fh,
           pc' = pc \/ pc' \notin Waiting,
           mconn' = mconn \/ (mconn' = 0 /\ pc' \notin Waiting),
           pc' \in {"mount", "mnt"} => pc' = pc \/ root_fh = 0
    PROVE  IndInv'
<1>1. Quiet' /\ Carried' /\ Honest'
  BY DEF IndInv, Quiet, Carried, Honest
<1>2. Unmounted'
  BY DEF IndInv, Unmounted, Waiting
<1>3. Reached' /\ RootFromMountd'
  BY DEF IndInv, Reached, MountCanReach, RootFromMountd, Waiting
<1>4. VerdictIsServers' /\ BlameIsServers' /\ MountErrorIsServers'
  BY DEF IndInv, VerdictIsServers, BlameIsServers, MountErrorIsServers
<1> QED BY <1>1, <1>2, <1>3, <1>4 DEF IndInv

\* Every procedure of NFS3TestClient is a call with some handles.
LEMMA BodyInvokes ==
    ASSUME Body
    PROVE  \E proc, fhs : /\ proc \notin MountProcs /\ proc # "DUMP"
                          /\ Invoke(proc, fhs)
BY ZenonT(30) DEF Body, On, OnTwo, MountProcs, null, getattr, setattr, lookup, access,
       readlink, read, write, create_file, mkdir, symlink, mknod, remove, rmdir,
       rename_op, link, readdir, readdirplus, fsstat, fsinfo, pathconf, commit

\* The initial state satisfies the inductive invariant.
THEOREM IndInit == Init => IndInv
<1> SUFFICES ASSUME Init PROVE IndInv
  OBVIOUS
<1>1. said.rpc = "none"
  BY DEF Init, NoReply, Reply
<1>2. asked.proc = "none"
  BY DEF Init, NoCall
<1> QED BY <1>1, <1>2, TestAssumption
    DEF Init, IndInv, Quiet, Carried, Honest, Reached, Unmounted, Waiting, MountProcs,
        VerdictIsServers, BlameIsServers, RootFromMountd, MountErrorIsServers

\* Every step of a test, of the fixture, of the clients and of the server keeps
\* the invariant.
THEOREM IndNext == IndInv /\ [Next]_vars => IndInv'
<1> SUFFICES ASSUME IndInv, [Next]_vars PROVE IndInv'
  OBVIOUS
<1>1. CASE SetUp
  <2>1. pc' \in {"create", "teardown"}
    BY <1>1 DEF SetUp
  <2> QED BY <1>1, <2>1, OtherStep DEF SetUp, server, links, outcome, Waiting
<1>2. CASE create
  BY <1>2, OtherStep DEF create, server, outcome, Waiting
<1>3. CASE MountClient
  <2>1. /\ mconn' # 0 => MountCanReach
        /\ mounterr' = -1 /\ pc' \in {"mounter", "teardown", "mnt"}
        /\ pc' = "mnt" => pc = "mount"
    BY <1>3 DEF MountClient
  <2>2. /\ build' = build /\ port111' = port111 /\ asked' = asked
        /\ reply' = reply /\ said' = said /\ result' = result
        /\ rpcerr' = rpcerr /\ root_fh' = root_fh
    BY <1>3 DEF MountClient, server
  <2>3. Quiet' /\ Carried' /\ Honest' /\ Unmounted'
    BY <2>1, <2>2 DEF IndInv, Quiet, Carried, Honest, Unmounted, Waiting
  <2>4. Reached' /\ RootFromMountd'
    BY <2>1, <2>2 DEF IndInv, Reached, MountCanReach, RootFromMountd
  <2>5. VerdictIsServers' /\ BlameIsServers' /\ MountErrorIsServers'
    BY <2>1, <2>2 DEF IndInv, VerdictIsServers, BlameIsServers, MountErrorIsServers
  <2> QED BY <2>2, <2>3, <2>4, <2>5 DEF IndInv
<1>4. CASE TearDown
  <2>1. said'.rpc = "none" /\ asked'.proc = "none"
    BY <1>4 DEF TearDown, NoReply, Reply, NoCall
  <2>2. /\ build' = build /\ port111' = port111 /\ root_fh' = root_fh
        /\ pc' = "idle" /\ mconn' = 0 /\ reply' = NoReply
        /\ result' = "none" /\ rpcerr' = "none" /\ mounterr' = -1
    BY <1>4 DEF TearDown, server
  <2>3. Quiet' /\ Carried' /\ Honest' /\ Reached' /\ Unmounted' /\ RootFromMountd'
    BY <2>1, <2>2 DEF IndInv, Quiet, Carried, Honest, Reached, Unmounted,
                      RootFromMountd, Waiting, MountProcs
  <2>4. VerdictIsServers' /\ BlameIsServers' /\ MountErrorIsServers'
    BY <2>2 DEF VerdictIsServers, BlameIsServers, MountErrorIsServers
  <2> QED BY <2>2, <2>3, <2>4 DEF IndInv
<1>5. CASE mnt
  BY <1>5, MountCallStep DEF mnt, MountProcs
<1>6. CASE umnt
  BY <1>6, MountCallStep DEF umnt, MountProcs
<1>7. CASE list_exports
  BY <1>7, MountCallStep DEF list_exports, MountProcs
<1>8. CASE dump
  <2>1. /\ asked'.proc = "DUMP" /\ reply' = NoReply /\ said' = NoReply
        /\ said'.rpc = "none"
    BY <1>8, AskedFacts DEF dump
  <2>2. /\ build' = build /\ port111' = port111 /\ root_fh' = root_fh
        /\ pc = "mounter" /\ pc' = pc /\ mconn' = mconn
        /\ result' = "none" /\ rpcerr' = "none"
    BY <1>8 DEF dump, server, links
  <2>3. Quiet' /\ Carried' /\ Honest' /\ Reached' /\ Unmounted' /\ RootFromMountd'
    BY <2>1, <2>2 DEF IndInv, Quiet, Carried, Honest, Reached, Unmounted,
                      RootFromMountd, MountCanReach, Waiting, MountProcs
  <2>4. VerdictIsServers' /\ BlameIsServers' /\ MountErrorIsServers'
    BY <2>1, <2>2 DEF VerdictIsServers, BlameIsServers, MountErrorIsServers, MountProcs
  <2> QED BY <2>2, <2>3, <2>4 DEF IndInv
<1>9. CASE MountReturns
  BY <1>9, MountReturnsStep
<1>10. CASE MountClientEnds
  BY <1>10, OtherStep DEF MountClientEnds, server, outcome, Waiting
<1>11. CASE Body
  BY <1>11, BodyInvokes, InvokeStep
<1>12. CASE Returns
  BY <1>12, ReturnsStep
<1>13. CASE Serve
  BY <1>13, ServeStep
<1>14. CASE Restart
  BY <1>14, OtherStep DEF Restart, links, outcome
<1>15. CASE UNCHANGED vars
  BY <1>15, OtherStep DEF vars, server, links, outcome
<1> QED
  BY <1>1, <1>2, <1>3, <1>4, <1>5, <1>6, <1>7, <1>8, <1>9, <1>10, <1>11,
     <1>12, <1>13, <1>14, <1>15 DEF Next

\* So it always holds.
THEOREM Invariance == Spec => []IndInv
BY IndInit, IndNext, PTL DEF Spec

-----------------------------------------------------------------------------
(* The properties. *)

\* What NFS3TestClient returns as the server's verdict is the server's answer
\* to this very call.
THEOREM Verdicts == Spec => []VerdictIsServers
BY Invariance, PTL DEF IndInv

\* RPCEndpoint names as the server's rejection only what the server rejected.
THEOREM Blames == Spec => []BlameIsServers
BY Invariance, PTL DEF IndInv

\* The fixture's root handle comes from a MOUNT service where the build looks
\* for one.
THEOREM RootHandles == Spec => []RootFromMountd
BY Invariance, PTL DEF IndInv

\* An error of MountClient's other than RPC_ERROR is the server's status.
THEOREM MountErrors == Spec => []MountErrorIsServers
BY Invariance, PTL DEF IndInv

\* The fixture never replaces a root handle, however stale.
THEOREM StaleHandles == Spec => StaleStays
<1>1. IndInv /\ [Next]_vars =>
        [root_fh # 0 /\ root_fh # epoch => root_fh' = root_fh]_vars
  <2> SUFFICES ASSUME IndInv, Next, root_fh # 0
               PROVE  root_fh' = root_fh
    OBVIOUS
  <2>1. CASE MountReturns
    BY <2>1 DEF MountReturns, Mounted, IndInv, Unmounted
  <2>2. CASE Body
    <3>1. PICK proc, fhs : Invoke(proc, fhs)
      BY <2>2, BodyInvokes
    <3> QED BY <3>1 DEF Invoke
  <2>3. CASE mnt \/ umnt \/ list_exports \/ dump
    BY <2>3 DEF mnt, umnt, list_exports, dump, MountCall
  <2>4. CASE SetUp \/ create \/ MountClient \/ TearDown
    BY <2>4 DEF SetUp, create, MountClient, TearDown
  <2>5. CASE MountClientEnds \/ Returns \/ Serve \/ Restart
    BY <2>5 DEF MountClientEnds, Returns, Serve, Restart
  <2> QED BY <2>1, <2>2, <2>3, <2>4, <2>5 DEF Next
<1> QED BY <1>1, Invariance, PTL DEF Spec, StaleStays

-----------------------------------------------------------------------------
(* Refinement: every step is a step of SyncRpc or leaves Phase, Done and    *)
(* Came alone.                                                              *)

\* What the refinement needs beyond IndInv: the reply is what the server said,
\* at most one of the two clients has returned something since the last call,
\* and a call under way is not dump().
SyncInv ==
    /\ reply = said
    /\ result = "none" \/ mounterr = -1
    /\ pc \in Waiting => asked.proc # "DUMP"

\* A step to another place of the fixture, or of the server, that leaves the
\* call alone.
LEMMA Aside ==
    ASSUME SyncInv, asked' = asked, reply' = reply, said' = said, result' = result,
           mounterr' = mounterr,
           pc' = pc \/ {pc, pc'} \cap (Waiting \cup {"dead"}) = {}
    PROVE  SyncInv' /\ UNCHANGED Sync!vars
<1>1. SyncInv' /\ Came' = Came
  BY DEF SyncInv, Came
<1>2. pc' = pc \/ (/\ pc \notin Waiting /\ pc' \notin Waiting
                  /\ pc # "dead" /\ pc' # "dead")
  OBVIOUS
<1>3. Phase' = Phase /\ (pc' \in Waiting <=> pc \in Waiting)
  BY <1>2 DEF Phase, Waiting
<1>4. Done' = Done
  BY <1>1, <1>3, ZenonT(30) DEF Done, Waiting
<1> QED BY <1>1, <1>3, <1>4 DEF Sync!vars

\* A new call begins, is refused where there is no connection, or ends the
\* process.
LEMMA CallBegins ==
    ASSUME NEW proc, proc # "DUMP", NEW fhs, Asked(proc, fhs),
           pc \notin Waiting, pc # "dead",
           \/ /\ pc' = pc
              /\ \/ result' = "RPC_ERROR" /\ mounterr' = -1
                 \/ result' = "none" /\ mounterr' = 1
           \/ pc' \in Waiting \cup {"dead"} /\ result' = "none" /\ mounterr' = -1
    PROVE  SyncInv' /\ Sync!Next
<1>1. asked'.proc = proc /\ reply' = NoReply /\ said' = NoReply /\ said'.rpc = "none"
  BY AskedFacts
<1>2. SyncInv'
  BY <1>1 DEF SyncInv
<1>3. Phase = "idle" /\ Done' = FALSE
  BY <1>1 DEF Phase, Done
<1>4. CASE pc' = pc /\ (result' = "RPC_ERROR" \/ mounterr' = 1)
  <2>1. Phase' = "idle" /\ Came' = "fail"
    BY <1>1, <1>4 DEF Phase, Came
  <2> QED BY <1>2, <1>3, <2>1 DEF Sync!Next, Sync!Refuse
<1>5. CASE pc' \in Waiting /\ result' = "none" /\ mounterr' = -1
  <2>1. Phase' = "busy" /\ Came' = "none"
    BY <1>5 DEF Phase, Came
  <2> QED BY <1>2, <1>3, <2>1 DEF Sync!Next, Sync!Begin
<1>6. CASE pc' = "dead" /\ result' = "none" /\ mounterr' = -1
  <2>1. Phase' = "dead" /\ Came' = "none"
    BY <1>6 DEF Phase, Came, Waiting
  <2> QED BY <1>2, <1>3, <2>1 DEF Sync!Next, Sync!Die
<1> QED BY <1>4, <1>5, <1>6

\* A call returns: with an answer only after the server carried it out.
LEMMA CallReturned ==
    ASSUME IndInv', SyncInv, pc \in Waiting, pc' \notin Waiting, pc' # "dead",
           asked' = asked, reply' = reply, said' = said,
           \/ result' \in {"ok", "SERVERFAULT", "RPC_ERROR"} /\ mounterr' = -1
           \/ /\ result' = "none" /\ mounterr' # -1
              /\ mounterr' \notin {-2, 1} => asked.proc \in MountProcs,
           result = "none" /\ mounterr = -1
    PROVE  SyncInv' /\ Sync!Next
<1>1. SyncInv'
  BY DEF SyncInv
<1>2. /\ Phase = "busy" /\ Phase' = "idle" /\ Came = "none"
      /\ asked'.proc # "DUMP" /\ Came' \in {"ok", "fail"}
  BY DEF Phase, Came, SyncInv
<1>3. Done' = Done
  BY <1>2 DEF Done
<1>4. Came' = "ok" => Done
  <2> SUFFICES ASSUME Came' = "ok" PROVE said'.rpc = "OK"
    BY DEF Done
  <2>1. CASE result' \in {"ok", "SERVERFAULT"}
    BY <2>1 DEF IndInv, VerdictIsServers
  <2>2. CASE mounterr' \notin {-2, -1, 1}
    BY <2>2 DEF IndInv, MountErrorIsServers
  <2> QED BY <2>1, <2>2 DEF Came
<1>5. CASE Came' = "ok"
  BY <1>1, <1>2, <1>3, <1>4, <1>5 DEF Sync!Next, Sync!Succeed
<1>6. CASE Came' = "fail"
  BY <1>1, <1>2, <1>3, <1>6 DEF Sync!Next, Sync!Fail
<1> QED BY <1>2, <1>5, <1>6

\* The latest call is forgotten.
LEMMA Forgotten ==
    ASSUME pc \notin Waiting, pc # "dead", pc' \notin Waiting, pc' # "dead",
           reply' = said', result' = "none",
           asked'.proc = "DUMP" \/ mounterr' = -1
    PROVE  SyncInv' /\ Sync!Next
<1>1. SyncInv'
  BY DEF SyncInv
<1>2. Phase = "idle" /\ Phase' = "idle" /\ Came' = "none" /\ Done' = FALSE
  BY DEF Phase, Came, Done
<1> QED BY <1>1, <1>2 DEF Sync!Next, Sync!Forget

\* Every step of the fixture, of the clients and of the server is a step of
\* SyncRpc or a stutter.
LEMMA SyncNext ==
    ASSUME IndInv, IndInv', SyncInv, [Next]_vars
    PROVE  SyncInv' /\ [Sync!Next]_Sync!vars
<1>1. CASE SetUp \/ create \/ MountClientEnds
  <2>1. /\ asked' = asked /\ reply' = reply /\ said' = said /\ result' = result
        /\ mounterr' = mounterr
    BY <1>1 DEF SetUp, create, MountClientEnds, outcome
  <2>2. {pc, pc'} \subseteq {"idle", "create", "teardown", "body", "mount", "mounter"}
    BY <1>1 DEF SetUp, create, MountClientEnds
  <2>3. {pc, pc'} \cap (Waiting \cup {"dead"}) = {}
    BY <2>2 DEF Waiting
  <2> QED BY <2>1, <2>3, Aside
<1>2. CASE MountClient
  <2>1. /\ asked' = asked /\ reply' = reply /\ said' = said /\ result' = result
        /\ mounterr' = -1
        /\ pc \in {"mount", "body"} /\ pc' \in {"mounter", "teardown", "mnt"}
    BY <1>2 DEF MountClient
  <2>2. {pc, pc'} \cap (Waiting \cup {"dead"}) = {}
    BY <2>1 DEF Waiting
  <2>3. CASE mounterr = -1
    BY <2>1, <2>2, <2>3, Aside
  <2>4. CASE mounterr # -1
    <3>1. result' = "none" /\ reply' = said'
      BY <2>1, <2>4 DEF SyncInv
    <3> QED BY <2>1, <2>2, <3>1, Forgotten
  <2> QED BY <2>3, <2>4
<1>3. CASE TearDown
  <2>1. /\ reply' = said' /\ result' = "none" /\ mounterr' = -1
        /\ {pc, pc'} \cap (Waiting \cup {"dead"}) = {}
    BY <1>3 DEF TearDown, Waiting
  <2> QED BY <2>1, Forgotten
<1>4. CASE dump
  <2>1. /\ asked'.proc = "DUMP" /\ reply' = said'
        /\ pc = "mounter" /\ pc' = pc /\ result' = "none"
    BY <1>4, AskedFacts DEF dump
  <2> QED BY <2>1, Forgotten DEF Waiting
<1>5. CASE mnt \/ umnt \/ list_exports
  <2>1. PICK proc \in MountProcs, from \in {"mnt", "mounter"},
             wait \in {"mnt_wait", "m_wait"} : MountCall(proc, from, wait)
    BY <1>5 DEF mnt, umnt, list_exports, MountProcs
  <2>2. /\ Asked(proc, {}) /\ proc # "DUMP"
        /\ pc \notin Waiting /\ pc # "dead"
    BY <2>1 DEF MountCall, MountProcs, Waiting
  <2>3. \/ pc' = pc /\ result' = "none" /\ mounterr' = 1
        \/ pc' \in Waiting \cup {"dead"} /\ result' = "none" /\ mounterr' = -1
    BY <2>1 DEF MountCall, Sent, Waiting
  <2> QED BY <2>2, <2>3, CallBegins
<1>6. CASE Body
  <2>1. PICK proc, fhs : proc # "DUMP" /\ Invoke(proc, fhs)
    BY <1>6, BodyInvokes
  <2>2. Asked(proc, fhs) /\ pc \notin Waiting /\ pc # "dead"
    BY <2>1 DEF Invoke, Waiting
  <2>3. \/ pc' = pc /\ result' = "RPC_ERROR" /\ mounterr' = -1
        \/ pc' \in Waiting \cup {"dead"} /\ result' = "none" /\ mounterr' = -1
    BY <2>1 DEF Invoke, Sent, Waiting
  <2> QED BY <2>1, <2>2, <2>3, CallBegins
<1>7. CASE Returns
  <2>1. /\ pc \in Waiting /\ pc' \notin Waiting /\ pc' # "dead"
        /\ asked' = asked /\ reply' = reply /\ said' = said
        /\ mounterr' = mounterr
        /\ result' \in {"ok", "SERVERFAULT", "RPC_ERROR"}
    BY <1>7 DEF Returns, Nfs3Error, Waiting
  <2>2. result = "none" /\ mounterr = -1
    BY <2>1 DEF IndInv, Quiet
  <2> QED BY <2>1, <2>2, CallReturned
<1>8. CASE MountReturns
  <2>1. /\ pc \in Waiting /\ asked' = asked /\ reply' = reply /\ said' = said
        /\ result' = result /\ pc \in {"mnt_wait", "m_wait"}
    BY <1>8 DEF MountReturns, Waiting
  <2>2. /\ pc' \in {"body", "teardown", "mounter"}
        /\ \E r : mounterr' = MountOutcome(r)
    BY <1>8 DEF MountReturns, Mounted
  <2>3. mounterr' # -1 /\ pc' \notin Waiting /\ pc' # "dead"
    BY <2>2 DEF MountOutcome, MountError, Waiting
  <2>4. result = "none" /\ mounterr = -1 /\ asked.proc \in MountProcs
    BY <2>1 DEF IndInv, Quiet, Reached
  <2> QED BY <2>1, <2>3, <2>4, CallReturned
<1>9. CASE Serve
  <2>1. /\ pc \in Waiting /\ pc' = pc /\ reply = NoReply /\ reply' = said'
        /\ asked' = asked /\ result' = result /\ mounterr' = mounterr
    BY <1>9 DEF Serve, outcome
  <2>2. SyncInv'
    BY <2>1 DEF SyncInv
  <2>3. said.rpc = "none"
    BY <2>1 DEF SyncInv, NoReply, Reply
  <2>4. Phase' = Phase /\ Came' = Came /\ Done = FALSE
    BY <2>1, <2>3 DEF Phase, Came, Done
  <2>5. CASE said'.rpc = "OK"
    <3>1. Done' = TRUE
      BY <2>1, <2>5 DEF Done
    <3> QED BY <2>2, <2>4, <3>1 DEF Sync!Next, Sync!Execute
  <2>6. CASE said'.rpc # "OK"
    <3>1. Done' = FALSE
      BY <2>6 DEF Done
    <3> QED BY <2>2, <2>4, <3>1, ZenonT(30) DEF Sync!vars
  <2> QED BY <2>5, <2>6
<1>10. CASE Restart \/ UNCHANGED vars
  <2>1. /\ asked' = asked /\ reply' = reply /\ said' = said /\ result' = result
        /\ mounterr' = mounterr /\ pc' = pc
    BY <1>10 DEF Restart, vars, outcome
  <2> QED BY <2>1, Aside
<1> QED
  BY <1>1, <1>2, <1>3, <1>4, <1>5, <1>6, <1>7, <1>8, <1>9, <1>10 DEF Next

\* NFS3TestClient and MountClient keep towards a test the promise of the RPC
\* client below them, for any number of tests and of restarts: a call that
\* returns an answer was carried out by the server, once, before it returned
\* (rpc_endpoint.hpp:262, mount_client.cpp:298).
THEOREM Refinement == Spec => CallsAreSync
<1>1. Init => SyncInv /\ Sync!Init
  <2> SUFFICES ASSUME Init PROVE SyncInv /\ Sync!Init
    OBVIOUS
  <2>1. SyncInv
    BY DEF Init, SyncInv, Waiting
  <2>2. said.rpc = "none"
    BY DEF Init, NoReply, Reply
  <2>3. Phase = "idle" /\ Came = "none" /\ Done = FALSE
    BY <2>2 DEF Init, Phase, Came, Done, Waiting
  <2> QED BY <2>1, <2>3 DEF Sync!Init
<1>2. IndInv /\ IndInv' /\ SyncInv /\ [Next]_vars => SyncInv' /\ [Sync!Next]_Sync!vars
  BY SyncNext
<1> QED BY <1>1, <1>2, Invariance, PTL DEF Spec, CallsAreSync, Sync!Spec

=============================================================================
