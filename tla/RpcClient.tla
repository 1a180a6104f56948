------------------------------ MODULE RpcClient ------------------------------
(***************************************************************************)
(* One RpcClient object (simple_rpc/src/rpc_client.cpp) over its           *)
(* TcpTransport (simple_rpc/src/rpc_transport.cpp), together with what it  *)
(* talks to: the kernel's side of the socket, the network and the server.  *)
(*                                                                         *)
(* The client is synchronous: call() and raw_call() write one record and   *)
(* read one record.  Between the two the thread is blocked in recv(), so a *)
(* call is two steps, and everything the server does falls between steps.  *)
(* A record the server sends beyond one per request stays in the stream    *)
(* and is what the next call reads.                                        *)
(***************************************************************************)
EXTENDS Integers, Sequences, FiniteSets

CONSTANTS
    XidSpace,      \* number of values of uint32_t xid_ (2^32 in the code)
    RawXids,       \* xids that callers of raw_call put in their messages
    Verdicts,      \* statuses the server's well-formed replies map to
    Fragments,     \* whether the server may split a reply into fragments
    MaxCalls,      \* bound: calls on one connection
    MaxRaws,       \* bound: raw calls on one connection
    MaxSurplus,    \* bound: records beyond one per request, per connection
    MaxConnects    \* bound: connection attempts

ReplyStatus == {"OK", "PROG_UNAVAIL", "PROG_MISMATCH", "PROC_UNAVAIL",
                "GARBAGE_ARGS", "AUTH_ERROR", "PROTO_ERR"}

\* A connection on which xid_ would come round again is out of scope: within
\* one connection every call has an xid of its own.
ASSUME ConstantsAssumption ==
    /\ XidSpace \in Nat /\ XidSpace >= 2
    /\ RawXids \subseteq 0..(XidSpace - 1)
    /\ Verdicts \subseteq ReplyStatus
    /\ Fragments \in BOOLEAN
    /\ MaxCalls \in Nat /\ MaxCalls <= XidSpace
    /\ MaxRaws \in Nat
    /\ MaxSurplus \in Nat
    /\ MaxConnects \in Nat

VARIABLES
    connected,   \* fd_ >= 0
    xid,         \* xid_, the xid of the next call
    pc,          \* "idle", "wait" (blocked in recv) or "dead" (killed)
    cur,         \* the request of the call in progress, or of the last one
    res,         \* what the last call returned, and the record it was read from
    peer,        \* the other end of the socket, as the kernel sees it
    pending,     \* requests the server has and may still answer
    executed,    \* requests the server has carried out
    inbox,       \* records sent by the server and not yet read
    surplus,     \* records sent beyond one per request
    ncalls,      \* calls made on this connection
    nraws,       \* raw calls made on this connection
    connects     \* connection attempts made

clientVars == <<connected, xid, pc, cur, res>>
serverVars == <<pending, executed, inbox, surplus>>
countVars  == <<ncalls, nraws, connects>>
vars == <<clientVars, peer, serverVars, countVars>>

Xids == 0..(XidSpace - 1)

\* The n-th call, or the n-th raw call, of the connection.
Requests == [raw : BOOLEAN, n : Nat, xid : Xids]
NoRequest == [raw |-> FALSE, n |-> 0, xid |-> 0]

\* What recv() takes for a message: a whole reply, the first fragment of one
\* (it starts with the RPC header) or the rest of one (it starts anywhere).
Records == [req : Requests, verdict : Verdicts,
            part : {"whole", "first", "rest"}]
NoRecord == [req |-> NoRequest, verdict |-> "none", part |-> "none"]

Statuses == ReplyStatus \cup {"CONN_ERR", "SEND_ERR", "RECV_ERR", "none"}
NoResult == [status |-> "none", from |-> NoRecord]

-----------------------------------------------------------------------------
(* The socket.                                                             *)
(*                                                                         *)
(* peer is "up"; "closed" once the server's FIN has arrived; "aborted"     *)
(* once its RST has arrived on an open connection (ECONNRESET is pending); *)
(* "reset" when nothing can be sent any more (EPIPE).                      *)

\* write_all() on a blocking socket: whether everything was written, and the
\* peer afterwards.  Data sent to a closed peer is accepted and answered by an
\* RST, which arrives before or after the next step.  EPIPE raises SIGPIPE,
\* which nothing in the repository ignores or handles.
write_all(p) ==
    {o \in {"ok", "err", "sigpipe"} \X {"up", "closed", "reset"} :
        <<p, o[1], o[2]>> \in {<<"up", "ok", "up">>,
                               <<"closed", "ok", "closed">>,
                               <<"closed", "ok", "reset">>,
                               <<"aborted", "err", "reset">>,
                               <<"reset", "sigpipe", "reset">>}}

\* send(): the record mark, then the message, in two writes.
send(p) ==
    UNION {IF mark[1] = "ok" THEN write_all(mark[2]) ELSE {mark} :
              mark \in write_all(p)}

\* read_all() with nothing left to read: it fails unless the peer is up, in
\* which case it blocks; a pending ECONNRESET is consumed.
read_all_ignores_eof(p) == p \notin {"up", "closed"}
read_all_fails(p) == p # "up"
AfterReadError(p) == IF p = "aborted" THEN "reset" ELSE p

\* The peer, the stream and the per-connection history of a socket just made,
\* or just closed.
FreshStream ==
    /\ peer' = "up"
    /\ pending' = {}
    /\ executed' = {}
    /\ inbox' = <<>>
    /\ surplus' = 0
    /\ ncalls' = 0
    /\ nraws' = 0
    /\ cur' = NoRequest
    /\ res' = NoResult

Init ==
    /\ connected = FALSE
    /\ xid = 1
    /\ pc = "idle"
    /\ cur = NoRequest
    /\ res = NoResult
    /\ peer = "up"
    /\ pending = {}
    /\ executed = {}
    /\ inbox = <<>>
    /\ surplus = 0
    /\ ncalls = 0
    /\ nraws = 0
    /\ connects = 0

-----------------------------------------------------------------------------
(* The client.                                                             *)

\* TcpTransport::connect closes the old socket first; socket(), the resolver,
\* ::connect, the poll for POLLOUT or SO_ERROR may each fail, and every
\* failure leaves the object disconnected.  The new socket is blocking again
\* when it returns true.
TransportConnect ==
    /\ connected' \in BOOLEAN
    /\ FreshStream

\* RpcClient::connect keeps xid_.
connect ==
    /\ pc = "idle"
    /\ connects < MaxConnects
    /\ connects' = connects + 1
    /\ TransportConnect
    /\ UNCHANGED <<xid, pc>>

\* RpcClient::disconnect starts the numbering again.
disconnect ==
    /\ pc = "idle"
    /\ connected' = FALSE
    /\ xid' = 1
    /\ FreshStream
    /\ UNCHANGED <<pc, connects>>

\* xid_++ on a uint32_t.
NextXid_unbounded(x) == x + 1
NextXid(x) == IF x = XidSpace - 1 THEN 0 ELSE x + 1

\* call() and raw_call() on a client that is not connected.
NotConnected ==
    /\ pc = "idle"
    /\ ~connected
    /\ cur' = NoRequest
    /\ res' = [status |-> "CONN_ERR", from |-> NoRecord]
    /\ UNCHANGED <<connected, xid, pc, peer, serverVars, countVars>>

\* Sending request r: it reaches the server only if the peer is up.  A failed
\* send() ends the call; the socket stays open.
SendRequest(r) ==
    \E o \in send(peer) :
        /\ peer' = o[2]
        /\ cur' = r
        /\ \/ /\ o[1] = "ok"
              /\ pc' = "wait"
              /\ res' = NoResult
           \/ /\ o[1] = "err"
              /\ pc' = "idle"
              /\ res' = [status |-> "SEND_ERR", from |-> NoRecord]
           \/ /\ o[1] = "sigpipe"
              /\ pc' = "dead"
              /\ res' = NoResult
        /\ pending' = IF o = <<"ok", "up">> THEN pending \cup {r} ELSE pending
        /\ UNCHANGED <<connected, executed, inbox, surplus, connects>>

\* call() up to recv(): the xid is used up whether or not the send succeeds.
call ==
    /\ pc = "idle"
    /\ connected
    /\ ncalls < MaxCalls
    /\ ncalls' = ncalls + 1
    /\ xid' = NextXid(xid)
    /\ SendRequest([raw |-> FALSE, n |-> ncalls + 1, xid |-> xid])
    /\ UNCHANGED nraws

\* raw_call() up to recv(): the message is the caller's, its xid included.
raw_call(x) ==
    /\ pc = "idle"
    /\ connected
    /\ nraws < MaxRaws
    /\ nraws' = nraws + 1
    /\ SendRequest([raw |-> TRUE, n |-> nraws + 1, xid |-> x])
    /\ UNCHANGED <<xid, ncalls>>

\* parse_reply(): the statuses it may return for record m when x is expected.
\* The rest of a split reply is body data, which may read as anything.
parse_reply_any_xid(m, x) == {m.verdict}
parse_reply(m, x) ==
    IF m.part = "rest" THEN ReplyStatus
    ELSE IF m.req.xid = x THEN {m.verdict} ELSE {"PROTO_ERR"}

\* recv() drops the last-fragment bit: one fragment is one message.  raw_call()
\* returns it as it is, call() parses it.
TakeMessage_peek == UNCHANGED inbox
TakeMessage_drain == inbox' = <<>>
TakeMessage == inbox' = Tail(inbox)

recv ==
    /\ pc = "wait"
    /\ inbox # <<>>
    /\ TakeMessage
    /\ pc' = "idle"
    /\ \E s \in IF cur.raw THEN {"OK"} ELSE parse_reply(Head(inbox), cur.xid) :
           res' = [status |-> s, from |-> Head(inbox)]
    /\ UNCHANGED <<connected, xid, cur, peer, pending, executed, surplus,
                   countVars>>

recv_fails ==
    /\ pc = "wait"
    /\ inbox = <<>>
    /\ read_all_fails(peer)
    /\ peer' = AfterReadError(peer)
    /\ pc' = "idle"
    /\ res' = [status |-> "RECV_ERR", from |-> NoRecord]
    /\ UNCHANGED <<connected, xid, cur, serverVars, countVars>>

-----------------------------------------------------------------------------
(* The server and the network.                                             *)

Reply(r, v, p) == [req |-> r, verdict |-> v, part |-> p]

\* The server carries out any request it has, in any order, and replies.
Answer ==
    /\ peer = "up"
    /\ \E r \in pending, v \in Verdicts :
        /\ inbox' = Append(inbox, Reply(r, v, "whole"))
        /\ pending' = pending \ {r}
        /\ executed' = executed \cup {r}
    /\ UNCHANGED <<clientVars, peer, surplus, countVars>>

\* It replies, and will reply to the same request again.
AnswerAgainLater ==
    /\ peer = "up"
    /\ surplus < MaxSurplus
    /\ \E r \in pending, v \in Verdicts :
        /\ inbox' = Append(inbox, Reply(r, v, "whole"))
        /\ executed' = executed \cup {r}
    /\ surplus' = surplus + 1
    /\ UNCHANGED <<clientVars, peer, pending, countVars>>

\* It sends the reply in two fragments, split in the body.
AnswerInFragments ==
    /\ Fragments
    /\ peer = "up"
    /\ surplus < MaxSurplus
    /\ \E r \in pending, v \in Verdicts :
        /\ inbox' = inbox \o <<Reply(r, v, "first"), Reply(r, v, "rest")>>
        /\ pending' = pending \ {r}
        /\ executed' = executed \cup {r}
    /\ surplus' = surplus + 1
    /\ UNCHANGED <<clientVars, peer, countVars>>

\* It closes the connection; the replies already sent arrive first.
PeerClose ==
    /\ connected
    /\ peer = "up"
    /\ peer' = "closed"
    /\ UNCHANGED <<clientVars, serverVars, countVars>>

\* It crashes or aborts: replies not yet delivered may be lost.
PeerAbort ==
    /\ connected
    /\ peer = "up"
    /\ peer' = "aborted"
    /\ \E k \in 0..Len(inbox) : inbox' = SubSeq(inbox, 1, k)
    /\ UNCHANGED <<clientVars, pending, executed, surplus, countVars>>

Client == connect \/ disconnect \/ NotConnected \/ call
            \/ (\E x \in RawXids : raw_call(x)) \/ recv \/ recv_fails
Server == Answer \/ AnswerAgainLater \/ AnswerInFragments
            \/ PeerClose \/ PeerAbort

Next == Client \/ Server
Spec == Init /\ [][Next]_vars

\* A thread blocked in read() runs when there is something to read.
ClientFairness == WF_vars(recv) /\ WF_vars(recv_fails)
\* A server that is up answers what it has been asked.
ServerFairness == WF_vars(Answer)

SilentServerSpec == Spec /\ ClientFairness
FairSpec == Spec /\ ClientFairness /\ ServerFairness

-----------------------------------------------------------------------------
(* Properties.                                                             *)

TypeOK ==
    /\ connected \in BOOLEAN
    /\ xid \in Xids
    /\ pc \in {"idle", "wait", "dead"}
    /\ cur \in Requests
    /\ res \in [status : Statuses, from : Records \cup {NoRecord}]
    /\ peer \in {"up", "closed", "aborted", "reset"}
    /\ pending \subseteq Requests
    /\ executed \subseteq Requests
    /\ inbox \in Seq(Records)
    /\ surplus \in 0..MaxSurplus
    /\ ncalls \in 0..MaxCalls
    /\ nraws \in 0..MaxRaws
    /\ connects \in 0..MaxConnects

\* The statuses by which call() says that a reply to it arrived.
Matched == ReplyStatus \ {"PROTO_ERR"}

\* Whatever stale, duplicated or unsolicited records precede it in the stream,
\* a call that returns a status of the server's returns the one the server
\* gave to this very call.  Two exceptions the code cannot exclude: a raw
\* request sent earlier with the xid this call got, and the continuation of a
\* fragmented reply.  rpc_client.cpp:60 call, rpc_protocol.hpp:137.
AcceptedReplyIsMine ==
    res.status \in Matched /\ ~cur.raw =>
        \/ res.from.req = cur /\ res.status = res.from.verdict /\ cur \in executed
        \/ res.from.part = "rest"
        \/ res.from.req.raw /\ res.from.req.xid = cur.xid

\* As long as the server has sent no record beyond one per request, mixing
\* call() and raw_call() never shifts the stream: each of them reads its own
\* reply, even after failed sends.  rpc_client.cpp:41 raw_call, :60 call.
InStep ==
    surplus = 0 /\ res.from # NoRecord => res.from.req = cur

\* While the server is up the stream is behind by exactly the surplus records,
\* so a blocked call always has a record coming, and no call removes or leaves
\* more than its own.  rpc_transport.cpp:112 recv.
BehindBySurplus ==
    connected /\ peer = "up" =>
        Cardinality(pending) + Len(inbox)
            = surplus + (IF pc = "wait" THEN 1 ELSE 0)

\* The success that call() has verified: the reply is a message of its own and
\* not that of an earlier raw request.
Outcome ==
    IF res.status = "none" THEN "none"
    ELSE IF /\ res.status \in Matched
            /\ ~cur.raw
            /\ res.from.part # "rest"
            /\ ~res.from.req.raw
         THEN "ok" ELSE "fail"

Sync == INSTANCE SyncRpc WITH
            phase   <- IF pc = "wait" THEN "busy" ELSE pc,
            done    <- cur \in executed,
            outcome <- Outcome

\* Seen from its caller the client is a SyncRpc: a verified success means that
\* the server carried out the request of this call, once, before the call
\* returned.  rpc_client.cpp:60 call.
ImplementsSyncRpc == Sync!Spec

\* Every call returns, if the server answers what it receives or goes away.
\* rpc_transport.cpp:151 read_all.
CallReturns == pc = "wait" ~> pc # "wait"

\* A call that reports success returns the whole reply.  rpc_transport.cpp:120.
AcceptedReplyIsWhole ==
    res.status = "OK" => res.from.part = "whole"

\* A lost connection is reported by a status: the process goes on.
\* rpc_transport.cpp:133.
ProcessSurvives == pc # "dead"

-----------------------------------------------------------------------------
(* The inductive invariant behind the safety properties.                   *)

\* Where xid_ stands relative to the xid of call r of this connection: it has
\* been incremented once by r and once by each later call, modulo XidSpace.
Numbered(r) ==
    LET k == ncalls - r.n + 1 IN
        xid = r.xid + k \/ xid = r.xid + k - XidSpace

\* A request made on this connection.
Made(r) ==
    /\ r.n >= 1
    /\ IF r.raw THEN r.n <= nraws ELSE r.n <= ncalls /\ Numbered(r)

\* What the server and the stream hold comes from this connection.
StreamInv ==
    /\ IsFiniteSet(pending)
    /\ \A r \in pending \cup executed : Made(r)
    /\ \A i \in 1..Len(inbox) : inbox[i].req \in executed

\* The request of a blocked call is the latest of its kind.
WaitInv ==
    pc = "wait" =>
        /\ connected
        /\ res = NoResult
        /\ Made(cur)
        /\ ~cur.raw => cur.n = ncalls

\* Without surplus records nothing but the current call's own request or reply
\* is on its way.
LockInv ==
    surplus = 0 =>
        /\ pc = "idle" => inbox = <<>> /\ (peer = "up" => pending = {})
        /\ pc = "wait" =>
              /\ Len(inbox) <= 1
              /\ \A i \in 1..Len(inbox) : inbox[i].req = cur
              /\ peer = "up" => pending \subseteq {cur}
              /\ peer = "up" /\ inbox # <<>> => pending = {}

IndInv ==
    /\ TypeOK
    /\ StreamInv
    /\ WaitInv
    /\ LockInv
    /\ AcceptedReplyIsMine
    /\ InStep
    /\ BehindBySurplus
=============================================================================
