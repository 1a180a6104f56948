----------------------------- MODULE TestClient -----------------------------
(***************************************************************************)
(* The tests of the C++ suite and what they stand on: the gtest fixture    *)
(* NFS3TestContext, MountClient, RPCEndpoint and NFS3TestClient, in both   *)
(* builds ("native" over simple_rpc, "tirpc" over libtirpc), with a server *)
(* that may be restarted at any time.  The RPC client is used through what *)
(* SyncRpc promises: status OK means that the server carried this call     *)
(* out; any failure may come at any time.                                  *)
(*                                                                         *)
(* A file handle is the incarnation of the server that issued it; 0 is a   *)
(* handle that was decoded from something else.  Handles of an earlier     *)
(* incarnation are stale.                                                  *)
(***************************************************************************)
EXTENDS Integers

CONSTANTS
    Builds,         \* the builds considered
    MaxTests,       \* bound on the tests
    MaxEpoch        \* bound on the incarnations of the server

ASSUME TestAssumption ==
    /\ Builds \subseteq {"native", "tirpc"}
    /\ MaxTests \in Nat /\ MaxEpoch \in Nat

VARIABLES
    build, config,  \* the build; whether server and export are "set", "unset"
                    \* or unset although "required"
    port111,        \* what listens there: "portmap", "mountd" or "none"
    epoch,          \* the incarnation of the server
    conn, mconn,    \* incarnation the endpoint's and the mounter's connection
                    \* lead to; 0: not connected
    root_fh,        \* static; 0: has_root_fh is false
    held,           \* the handles the test body has got
    pc, tests,
    asked,          \* the call under way: procedure and handles
    reply,          \* its reply, once it is in the stream
    said,           \* history: what the server answered to it
    result, rpcerr, \* what NFS3TestClient returned, and the endpoint before it
    mounterr        \* what MountClient returned: 0 a value, -1 nothing yet,
                    \* -2 an exception

server == <<build, config, port111, epoch>>
links == <<conn, mconn>>
outcome == <<result, rpcerr, mounterr>>
vars == <<server, links, root_fh, held, pc, tests, asked, reply, said, outcome>>

NoCall == [proc |-> "none", fhs |-> {}]
Reply(rpc, body, stat, fh) == [rpc |-> rpc, body |-> body, stat |-> stat, fh |-> fh]
NoReply == Reply("none", "none", 0, 0)

MakesHandle == {"LOOKUP", "CREATE", "MKDIR", "SYMLINK", "MKNOD"}
MountProcs == {"MNT", "UMNT", "EXPORT"}

\* Results that RFC 1813 lays out otherwise than the C++ types (see NfsWire).
Foreign == {"CREATE", "MKDIR", "SYMLINK", "MKNOD", "READ", "WRITE", "COMMIT",
            "READDIRPLUS"}

Rejections == {"PROG_UNAVAIL", "PROG_MISMATCH", "RPC_MISMATCH",
               "PROC_UNAVAIL", "GARBAGE_ARGS", "AUTH_ERROR"}
MountStats == {0, 1, 2, 5, 13, 20, 63, 10004, 10006}

Init ==
    /\ build \in Builds
    /\ config \in {"set", "unset", "required"}
    /\ port111 \in {"portmap", "mountd", "none"}
    /\ epoch = 1
    /\ conn = 0 /\ mconn = 0
    /\ root_fh = 0
    /\ held = {}
    /\ pc = "idle" /\ tests = 0
    /\ asked = NoCall /\ reply = NoReply /\ said = NoReply
    /\ result = "none" /\ rpcerr = "none" /\ mounterr = -1

-----------------------------------------------------------------------------
(* The fixture. *)

\* SetUp() up to the endpoint: without a configuration the test is skipped, or
\* fails, and its body is not run.
SetUp ==
    /\ pc = "idle" /\ tests < MaxTests
    /\ tests' = tests + 1
    /\ pc' = IF config = "set" THEN "create" ELSE "teardown"
    /\ UNCHANGED <<server, links, root_fh, held, asked, reply, said, outcome>>

\* RPCEndpoint::create: an endpoint comes about whether or not it is connected.
\* libtirpc asks the portmapper for the port.
CanReach == build = "native" \/ port111 = "portmap"
create_remounts ==
    /\ pc = "create"
    /\ conn' \in {0} \cup (IF CanReach THEN {epoch} ELSE {})
    /\ pc' = "mount"
    /\ UNCHANGED <<server, mconn, root_fh, held, tests, asked, reply, said,
                   outcome>>
create ==
    /\ pc = "create"
    /\ conn' \in {0} \cup (IF CanReach THEN {epoch} ELSE {})
    /\ pc' = IF root_fh # 0 THEN "body" ELSE "mount"
    /\ UNCHANGED <<server, mconn, root_fh, held, tests, asked, reply, said,
                   outcome>>

\* MountClient's constructor, in SetUp() or in a test's body: the native build
\* connects to port 111 itself.
MountCanReach_direct == port111 # "none"
MountCanReach ==
    IF build = "native" THEN port111 # "none" ELSE port111 = "portmap"
MountClient ==
    /\ pc \in {"mount", "body"}
    /\ mconn' \in {0} \cup (IF MountCanReach THEN {epoch} ELSE {})
    /\ pc' = IF pc = "body" THEN "mounter"
             ELSE IF mconn' = 0 THEN "teardown" ELSE "mnt"
    /\ mounterr' = -1
    /\ UNCHANGED <<server, conn, root_fh, held, tests, asked, reply, said,
                   result, rpcerr>>

\* The end of SetUp(): the handle is kept for this and every later test.
Mounted(fh) ==
    /\ root_fh' = fh
    /\ pc' = "body"

\* TearDown(), also after a failed SetUp(): shutdown() and client_.reset().
TearDown ==
    /\ pc \in {"body", "teardown"}
    /\ pc' = "idle"
    /\ conn' = 0 /\ mconn' = 0
    /\ held' = {}
    /\ asked' = NoCall /\ reply' = NoReply /\ said' = NoReply
    /\ result' = "none" /\ rpcerr' = "none" /\ mounterr' = -1
    /\ UNCHANGED <<server, root_fh, tests>>

-----------------------------------------------------------------------------
(* Calls. *)

Asked(proc, fhs) ==
    /\ asked' = [proc |-> proc, fhs |-> fhs]
    /\ reply' = NoReply /\ said' = NoReply

\* EPIPE comes with SIGPIPE (see RpcClient).
Sent(c, wait) == pc' = wait \/ (c # epoch /\ build = "native" /\ pc' = "dead")

Waiting == {"wait", "mnt_wait", "m_wait"}
Link == IF pc = "wait" THEN conn ELSE mconn

\* The server answers what it is asked.
Answers ==
    IF asked.proc \in MountProcs
    THEN {Reply("OK", body, stat, epoch) :
             body \in {"whole", "foreign", "cut"}, stat \in MountStats}
    ELSE {Reply("OK", body, stat, epoch) :
             body \in {IF asked.proc \in Foreign THEN "foreign" ELSE "whole",
                       "cut", "empty"},
             stat \in IF asked.fhs \subseteq {epoch} THEN {0, 2} ELSE {70}}

\* Of a mount, exports with groups, or more than one, are laid out otherwise
\* (mount_client.cpp:257); an error has no body but its status.
Possible(r) ==
    /\ asked.proc \in MountProcs =>
        /\ build = "native" => port111 = "mountd"
        /\ r.body = "foreign" => asked.proc = "EXPORT"
        /\ asked.proc # "MNT" => r.stat = 0
    /\ asked.proc = "NULL" => r.stat = 0
    /\ r.stat # 0 => r.body # "foreign"

Serve ==
    /\ pc \in Waiting /\ reply = NoReply /\ Link = epoch
    /\ \E r \in Answers \cup {Reply(rpc, "none", 0, epoch) : rpc \in Rejections} :
        /\ r.rpc = "OK" => Possible(r)
        /\ reply' = r /\ said' = r
    /\ UNCHANGED <<server, links, root_fh, held, pc, tests, asked, outcome>>

Restart ==
    /\ epoch < MaxEpoch
    /\ epoch' = epoch + 1
    /\ UNCHANGED <<build, config, port111, links, root_fh, held, pc, tests, asked,
                   reply, said, outcome>>

\* What the RPC layer may return: the reply, or a failure of its own.
Local == {Reply(rpc, "none", 0, 0) :
             rpc \in IF build = "native" THEN {"RECV_ERR"}
                                         ELSE {"TIMEOUT", "CANTRECV"}}
Arrived == IF reply = NoReply THEN Local ELSE Local \cup {reply}

-----------------------------------------------------------------------------
(* MountClient. *)

MountCall(proc, from, wait) ==
    /\ pc = from
    /\ Asked(proc, {})
    /\ IF mconn = 0 THEN mounterr' = 1 /\ pc' = pc
                    ELSE mounterr' = -1 /\ Sent(mconn, wait)
    /\ result' = "none" /\ rpcerr' = "none"
    /\ UNCHANGED <<server, links, root_fh, held, tests>>

mnt == MountCall("MNT", "mnt", "mnt_wait") \/ MountCall("MNT", "mounter", "m_wait")
umnt == MountCall("UMNT", "mounter", "m_wait")
list_exports == MountCall("EXPORT", "mounter", "m_wait")

\* dump() asks nobody.
dump ==
    /\ pc = "mounter"
    /\ Asked("DUMP", {})
    /\ mounterr' = IF mconn = 0 THEN 1 ELSE 0
    /\ result' = "none" /\ rpcerr' = "none"
    /\ UNCHANGED <<server, links, root_fh, held, pc, tests>>

MountError_default_ok(stat) == IF stat \in {1, 2, 5, 13, 20, 63} THEN stat ELSE 0
MountError(stat) == IF stat \in {0, 1, 2, 5, 13, 20, 63} THEN stat ELSE 1

\* What becomes of a reply.  The native decoders throw, and nobody catches; a
\* filter of libtirpc fails the call.
MountOutcome(r) ==
    IF r.rpc # "OK" THEN 1
    ELSE IF asked.proc = "UMNT" THEN 0
    ELSE IF r.body = "whole" THEN MountError(r.stat)
    ELSE IF build = "native" THEN -2 ELSE 1

MountReturns ==
    /\ pc \in {"mnt_wait", "m_wait"}
    /\ \E r \in Arrived :
        LET err == MountOutcome(r)
        IN  /\ mounterr' = err
            /\ \/ /\ pc = "mnt_wait" /\ err = 0
                  /\ Mounted(r.fh)
                  /\ mconn' = 0
               \/ /\ (pc = "mnt_wait" /\ err # 0) \/ err = -2
                  /\ pc' = "teardown" /\ root_fh' = root_fh /\ mconn' = 0
               \/ /\ pc = "m_wait" /\ err # -2
                  /\ pc' = "mounter" /\ root_fh' = root_fh /\ mconn' = mconn
    /\ UNCHANGED <<server, conn, held, tests, asked, reply, said, result, rpcerr>>

\* The end of the life of a test body's mounter.
MountClientEnds ==
    /\ pc = "mounter"
    /\ pc' = "body" /\ mconn' = 0
    /\ UNCHANGED <<server, conn, root_fh, held, tests, asked, reply, said, outcome>>

-----------------------------------------------------------------------------
(* RPCEndpoint and NFS3TestClient. *)

\* The error of RPCEndpoint::call, call_with_xdr and, where void, call_void.
\* libtirpc says PROGVERSMISMATCH, which the code does not look for, when the
\* program has other versions, and VERSMISMATCH when RPC has.
RpcError_default_auth(void, rpc) ==
    IF rpc \in {"TIMEOUT", "PROG_UNAVAIL", "PROC_UNAVAIL", "PROG_MISMATCH"} THEN rpc
    ELSE "AUTH_ERROR"
RpcError(void, rpc) ==
    IF rpc \in {"TIMEOUT", "PROG_UNAVAIL", "PROC_UNAVAIL"} THEN rpc
    ELSE IF build = "tirpc"
         THEN IF rpc = "RPC_MISMATCH" THEN "PROG_MISMATCH" ELSE "UNKNOWN"
    ELSE IF rpc \in {"PROG_MISMATCH", "RPC_MISMATCH"} THEN "PROG_MISMATCH"
    ELSE IF rpc = "AUTH_ERROR" /\ ~void THEN rpc
    ELSE "CONNECTION_FAILED"
DecodeError == IF build = "tirpc" THEN "UNKNOWN" ELSE "DECODE_ERROR"

\* What the endpoint returns for a reply: errors, or a value whose status is
\* the server's (the first word of every result).
Endpoint(r) ==
    LET void == asked.proc = "NULL" IN
    IF r.rpc # "OK" THEN {[err |-> RpcError(void, r.rpc), stat |-> 0, fh |-> 0]}
    ELSE LET value(fh) == [err |-> "SUCCESS", stat |-> r.stat, fh |-> fh]
             failure == [err |-> DecodeError, stat |-> 0, fh |-> 0]
         IN  IF void \/ r.body = "whole" THEN {value(r.fh)}
             ELSE IF r.body = "foreign" THEN {value(0), failure}
             ELSE {failure}

\* Every NFS status but NFS3_OK is a SERVERFAULT.
Nfs3Error_status(v) == IF v.stat # 0 THEN "SERVERFAULT" ELSE "ok"
Nfs3Error(v) ==
    IF v.err # "SUCCESS" THEN "RPC_ERROR"
    ELSE IF v.stat # 0 THEN "SERVERFAULT" ELSE "ok"

Invoke(proc, fhs) ==
    /\ pc = "body"
    /\ Asked(proc, fhs)
    /\ mounterr' = -1
    /\ IF conn = 0
       THEN /\ rpcerr' = "CONNECTION_FAILED" /\ result' = "RPC_ERROR"
            /\ pc' = pc
       ELSE /\ rpcerr' = "none" /\ result' = "none"
            /\ Sent(conn, "wait")
    /\ UNCHANGED <<server, links, root_fh, held, tests>>

Returns_replies ==
    /\ pc = "wait" /\ reply # NoReply
    /\ \E v \in Endpoint(reply) :
        /\ rpcerr' = v.err /\ result' = Nfs3Error(v)
        /\ held' = IF asked.proc \in MakesHandle /\ Nfs3Error(v) = "ok"
                   THEN held \cup {v.fh} ELSE held
    /\ pc' = "body"
    /\ UNCHANGED <<server, links, root_fh, tests, asked, reply, said, mounterr>>
Returns_retries ==
    /\ pc = "wait"
    /\ IF reply # NoReply
       THEN /\ Asked(asked.proc, asked.fhs)
            /\ UNCHANGED <<pc, held, outcome>>
       ELSE /\ \E r \in Local : \E v \in Endpoint(r) :
                    rpcerr' = v.err /\ result' = Nfs3Error(v)
            /\ pc' = "body"
            /\ UNCHANGED <<held, asked, reply, said, mounterr>>
    /\ UNCHANGED <<server, links, root_fh, tests>>
Returns ==
    /\ pc = "wait"
    /\ \E r \in Arrived : \E v \in Endpoint(r) :
        /\ rpcerr' = v.err /\ result' = Nfs3Error(v)
        /\ held' = IF asked.proc \in MakesHandle /\ Nfs3Error(v) = "ok"
                   THEN held \cup {v.fh} ELSE held
    /\ pc' = "body"
    /\ UNCHANGED <<server, links, root_fh, tests, asked, reply, said, mounterr>>

\* A procedure with one handle, or two, of those the test has.
Handles == held \cup {root_fh}
On(proc) == \E fh \in Handles : Invoke(proc, {fh})
OnTwo(proc) == \E fh1, fh2 \in Handles : Invoke(proc, {fh1, fh2})

null == Invoke("NULL", {})
getattr == On("GETATTR")
setattr == On("SETATTR")
lookup == On("LOOKUP")
access == On("ACCESS")
readlink == On("READLINK")
read == On("READ")
write == On("WRITE")
create_file == On("CREATE")
mkdir == On("MKDIR")
symlink == On("SYMLINK")
mknod == On("MKNOD")
remove == On("REMOVE")
rmdir == On("RMDIR")
rename_op == OnTwo("RENAME")
link == OnTwo("LINK")
readdir == On("READDIR")
readdirplus == On("READDIRPLUS")
fsstat == On("FSSTAT")
fsinfo == On("FSINFO")
pathconf == On("PATHCONF")
commit == On("COMMIT")

Body ==
    \/ null \/ getattr \/ setattr \/ lookup \/ access \/ readlink \/ read
    \/ write \/ create_file \/ mkdir \/ symlink \/ mknod \/ remove \/ rmdir
    \/ rename_op \/ link \/ readdir \/ readdirplus \/ fsstat \/ fsinfo
    \/ pathconf \/ commit

Next ==
    \/ SetUp \/ create \/ MountClient \/ TearDown
    \/ mnt \/ umnt \/ list_exports \/ dump \/ MountReturns \/ MountClientEnds
    \/ Body \/ Returns
    \/ Serve \/ Restart

Spec == Init /\ [][Next]_vars

\* The fixture's code runs; a server that is up answers; a call whose reply has
\* come, or whose connection is gone, returns.
FairSpec ==
    /\ Spec
    /\ WF_vars(create) /\ WF_vars(pc = "mount" /\ MountClient)
    /\ WF_vars(pc = "mnt" /\ mnt) /\ WF_vars(pc = "teardown" /\ TearDown)
    /\ WF_vars(Serve)
    /\ WF_vars((reply # NoReply \/ Link # epoch) /\ (Returns \/ MountReturns))

-----------------------------------------------------------------------------
(* Properties. *)

\* A procedure's value, and SERVERFAULT, are the answer of the server to this
\* very call, given while all its handles were good or for an error; all other
\* failures are RPC_ERROR.  Whatever is lost, cut, stale, misread or restarted
\* between, no failure below NFS passes for an answer, although the endpoint
\* drops the causes and NFS3TestClient the statuses (nfs3_client.cpp:40).
VerdictIsServers ==
    /\ result = "ok" => said.rpc = "OK" /\ said.stat = 0 /\ asked.fhs \subseteq {said.fh}
    /\ result = "SERVERFAULT" => said.rpc = "OK" /\ said.stat # 0

\* The endpoint blames the server only for what the server said: the four
\* rejections it has names for (rpc_endpoint.hpp:275-282).  PROG_MISMATCH is
\* the exception: it may be RPC's version, and with libtirpc always is.
BlameIsServers ==
    /\ rpcerr \in {"PROG_UNAVAIL", "PROC_UNAVAIL", "AUTH_ERROR"} => said.rpc = rpcerr
    /\ rpcerr = "PROG_MISMATCH" =>
        said.rpc \in {"RPC_MISMATCH"} \cup
                     IF build = "native" THEN {"PROG_MISMATCH"} ELSE {}

\* The fixture has a root handle only from a MOUNT service, which the native
\* build looks for on port 111, the portmapper's (mount_client.cpp:289): where
\* a portmapper listens there, no test body ever runs.
RootFromMountd ==
    root_fh # 0 => port111 = IF build = "native" THEN "mountd" ELSE "portmap"

\* The fixture mounts once per process (test_context.hpp:38, 110): a root
\* handle that has become stale stays the root handle of every later test.
StaleStays ==
    [][root_fh # 0 /\ root_fh # epoch => root_fh' = root_fh]_vars

\* An error of MountClient other than 1 is the status the server gave, and a
\* value means that it gave 0.  1 is RPC_ERROR and PERM (mount_client.hpp:16,
\* 17) and also any status the code does not know.
MountErrorIsServers ==
    asked.proc \in MountProcs /\ mounterr \notin {-2, -1, 1} =>
        said.rpc = "OK" /\ (asked.proc = "UMNT" \/ said.stat = mounterr)

\* What the latest call of NFS3TestClient or MountClient came to, as its caller
\* sees it.  SERVERFAULT and a mount status are answers; dump() is no call.
Came ==
    IF asked.proc = "DUMP" \/ (result = "none" /\ mounterr = -1) THEN "none"
    ELSE IF result \in {"ok", "SERVERFAULT"} \/ mounterr \notin {-2, -1, 1} THEN "ok"
    ELSE "fail"

Phase == IF pc \in Waiting THEN "busy" ELSE IF pc = "dead" THEN pc ELSE "idle"

\* The server has carried out the call under way, or the latest if it has not
\* been forgotten.
Done == said.rpc = "OK" /\ (pc \in Waiting \/ Came # "none")

Sync == INSTANCE SyncRpc WITH phase <- Phase, done <- Done, outcome <- Came

\* The two clients pass on what the RPC client promises them: to a test a call
\* is one exchange, in which the server carries the request out at most once,
\* before the call returns, and surely if the call returns an answer.  Neither
\* client sends a request again, or keeps the answer to an earlier one, over
\* restarts, exceptions, reconnections and the fixture's own calls.
\* rpc_endpoint.hpp:262 call, mount_client.cpp:298 mnt.
CallsAreSync == Sync!Spec

\* A test does not get stuck: whatever the fixture or a call waits for, the
\* test gets to its body, to the next operation, or to its end, or SIGPIPE
\* ends the process.
TestProceeds ==
    pc \notin {"idle", "body", "mounter"} ~> pc \in {"idle", "body", "mounter", "dead"}

=============================================================================
