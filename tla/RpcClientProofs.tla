--------------------------- MODULE RpcClientProofs ---------------------------
(* Proofs about RpcClient, for every value of its constants. *)
EXTENDS RpcClient, FiniteSetTheorems, SequenceTheorems, TLAPS

\* Leaves are first-order reasoning; the ones that need arithmetic or records cite SMT.
USE ZenonT(30)

\* send() ends in one of these ways; the message reaches the server only when
\* the peer is up.
LEMMA SendOutcomes ==
    ASSUME NEW p \in {"up", "closed", "aborted", "reset"}, NEW o \in send(p)
    PROVE  /\ o \in {"ok", "err", "sigpipe"} \X {"up", "closed", "reset"}
           /\ o = <<"ok", "up">> <=> p = "up"
           /\ o[2] = "up" <=> p = "up"
           /\ o[1] # "ok" => o[2] = "reset"
  <1>1. PICK m \in write_all(p) :
            o \in (IF m[1] = "ok" THEN write_all(m[2]) ELSE {m})
    BY DEF send
  <1>2. m \in {"ok", "err", "sigpipe"} \X {"up", "closed", "reset"}
    BY <1>1 DEF write_all
  <1> QED  BY <1>1, <1>2, SMTT(30) DEF write_all

\* Incrementing xid_, with its wrap, gives an xid.
LEMMA NextXidType ==
    ASSUME NEW x \in Xids
    PROVE  NextXid(x) \in Xids
  BY ConstantsAssumption, SMTT(30) DEF NextXid, Xids

\* xid_ starts at 1, which is an xid.
LEMMA FirstXidType == 1 \in Xids /\ FALSE \in BOOLEAN
  BY ConstantsAssumption, SMTT(30) DEF Xids

\* A reply to a request is a record.
LEMMA ReplyType ==
    ASSUME NEW r \in Requests, NEW v \in Verdicts,
           NEW p \in {"whole", "first", "rest"}
    PROVE  Reply(r, v, p) \in Records
  BY DEF Reply, Records

\* The values for nothing received and nothing asked have their types.
LEMMA NoneTypes ==
    /\ NoRequest \in Requests
    /\ NoResult \in [status : Statuses, from : Records \cup {NoRecord}]
  BY ConstantsAssumption, SMTT(30)
     DEF NoRequest, Requests, Xids, NoResult, Statuses

-----------------------------------------------------------------------------
(* Type correctness. *)

\* A client that was just constructed has the types.
LEMMA TypeInit == Init => TypeOK
  <1> SUFFICES ASSUME Init PROVE TypeOK
    OBVIOUS
  <1>1. /\ surplus \in 0..MaxSurplus
        /\ ncalls \in 0..MaxCalls
        /\ nraws \in 0..MaxRaws
        /\ connects \in 0..MaxConnects
    BY ConstantsAssumption, SMTT(30) DEF Init
  <1>2. connected \in BOOLEAN /\ xid \in Xids
    BY FirstXidType DEF Init
  <1>3. inbox \in Seq(Records)
    BY SMTT(30) DEF Init
  <1> QED  BY <1>1, <1>2, <1>3, NoneTypes DEF Init, TypeOK

\* TcpTransport::send keeps the types of what it changes.
LEMMA TypeSend ==
    ASSUME TypeOK, NEW r \in Requests, SendRequest(r)
    PROVE  /\ connected' \in BOOLEAN
           /\ pc' \in {"idle", "wait", "dead"}
           /\ cur' \in Requests
           /\ res' \in [status : Statuses, from : Records \cup {NoRecord}]
           /\ peer' \in {"up", "closed", "aborted", "reset"}
           /\ pending' \subseteq Requests
           /\ executed' \subseteq Requests
           /\ inbox' \in Seq(Records)
           /\ surplus' \in 0..MaxSurplus
           /\ connects' \in 0..MaxConnects
  <1>1. PICK o \in send(peer) :
          /\ peer' = o[2]
          /\ cur' = r
          /\ \/ o[1] = "ok" /\ pc' = "wait" /\ res' = NoResult
             \/ /\ o[1] = "err" /\ pc' = "idle"
                /\ res' = [status |-> "SEND_ERR", from |-> NoRecord]
             \/ o[1] = "sigpipe" /\ pc' = "dead" /\ res' = NoResult
          /\ pending' = IF o = <<"ok", "up">> THEN pending \cup {r} ELSE pending
          /\ UNCHANGED <<connected, executed, inbox, surplus, connects>>
    BY DEF SendRequest
  <1>2. o[2] \in {"up", "closed", "reset"}
    BY SendOutcomes DEF TypeOK
  <1>3. res' \in [status : Statuses, from : Records \cup {NoRecord}]
    BY <1>1, NoneTypes, SMTT(30) DEF Statuses
  <1> QED  BY <1>1, <1>2, <1>3 DEF TypeOK

\* A new connection has the types.
LEMMA TypeFresh ==
    ASSUME FreshStream
    PROVE  /\ cur' \in Requests
           /\ res' \in [status : Statuses, from : Records \cup {NoRecord}]
           /\ peer' \in {"up", "closed", "aborted", "reset"}
           /\ pending' \subseteq Requests
           /\ executed' \subseteq Requests
           /\ inbox' \in Seq(Records)
           /\ surplus' \in 0..MaxSurplus
           /\ ncalls' \in 0..MaxCalls
           /\ nraws' \in 0..MaxRaws
  BY ConstantsAssumption, NoneTypes, SMTT(30) DEF FreshStream

\* Every step of client and server keeps the types.
LEMMA TypeNext == TypeOK /\ [Next]_vars => TypeOK'
  <1> SUFFICES ASSUME TypeOK, [Next]_vars PROVE TypeOK'
    OBVIOUS
  <1>1. CASE connect
    BY <1>1, TypeFresh, ConstantsAssumption, SMTT(30) DEF TypeOK, connect, TransportConnect
  <1>2. CASE disconnect
    BY <1>2, TypeFresh, FirstXidType DEF TypeOK, disconnect
  <1>3. CASE NotConnected
    <2>1. res' \in [status : Statuses, from : Records \cup {NoRecord}]
      BY <1>3 DEF NotConnected, Statuses
    <2> QED
      BY <1>3, <2>1, NoneTypes DEF TypeOK, NotConnected, serverVars, countVars
  <1>4. CASE call
    <2>1. [raw |-> FALSE, n |-> ncalls + 1, xid |-> xid] \in Requests
      BY ConstantsAssumption, SMTT(30) DEF TypeOK, Requests
    <2>2. ncalls' \in 0..MaxCalls /\ nraws' \in 0..MaxRaws /\ xid' \in Xids
      BY <1>4, NextXidType, ConstantsAssumption, SMTT(30) DEF TypeOK, call
    <2>3. SendRequest([raw |-> FALSE, n |-> ncalls + 1, xid |-> xid])
      BY <1>4 DEF call
    <2> QED  BY <2>1, <2>2, <2>3, TypeSend DEF TypeOK
  <1>5. ASSUME NEW x \in RawXids, raw_call(x) PROVE TypeOK'
    <2>1. [raw |-> TRUE, n |-> nraws + 1, xid |-> x] \in Requests
      BY ConstantsAssumption, SMTT(30) DEF TypeOK, Requests, Xids
    <2>2. ncalls' \in 0..MaxCalls /\ nraws' \in 0..MaxRaws /\ xid' \in Xids
      BY <1>5, ConstantsAssumption, SMTT(30) DEF TypeOK, raw_call
    <2>3. SendRequest([raw |-> TRUE, n |-> nraws + 1, xid |-> x])
      BY <1>5 DEF raw_call
    <2> QED  BY <2>1, <2>2, <2>3, TypeSend DEF TypeOK
  <1>6. CASE recv
    <2>1. Head(inbox) \in Records /\ inbox' \in Seq(Records)
      BY <1>6, SMTT(30) DEF recv, TakeMessage, TypeOK
    <2>2. PICK s \in IF cur.raw THEN {"OK"} ELSE parse_reply(Head(inbox), cur.xid) :
              res' = [status |-> s, from |-> Head(inbox)]
      BY <1>6 DEF recv
    <2>3. s \in Statuses
      BY <2>1, <2>2, ConstantsAssumption
         DEF parse_reply, Statuses, ReplyStatus, Records
    <2>4. res' \in [status : Statuses, from : Records \cup {NoRecord}]
      BY <2>1, <2>2, <2>3
    <2> QED  BY <1>6, <2>1, <2>4 DEF recv, TypeOK, countVars
  <1>7. CASE recv_fails
    <2>1. res' \in [status : Statuses, from : Records \cup {NoRecord}]
      BY <1>7 DEF recv_fails, Statuses
    <2> QED
      BY <1>7, <2>1
         DEF recv_fails, TypeOK, AfterReadError, serverVars, countVars
  <1>8. CASE Answer \/ AnswerAgainLater
    <2>1. PICK r \in pending, v \in Verdicts :
              /\ inbox' = Append(inbox, Reply(r, v, "whole"))
              /\ executed' = executed \cup {r}
              /\ pending' \subseteq pending
      BY <1>8 DEF Answer, AnswerAgainLater
    <2>2. Reply(r, v, "whole") \in Records
      BY ReplyType DEF TypeOK
    <2>3. surplus' \in 0..MaxSurplus
      BY <1>8, ConstantsAssumption, SMTT(30) DEF Answer, AnswerAgainLater, TypeOK
    <2>4. UNCHANGED <<clientVars, peer, countVars>>
      BY <1>8 DEF Answer, AnswerAgainLater
    <2> QED  BY <2>1, <2>2, <2>3, <2>4, SMTT(30) DEF TypeOK, clientVars, countVars
  <1>9. CASE AnswerInFragments
    <2>1. PICK r \in pending, v \in Verdicts :
              /\ inbox' = inbox \o <<Reply(r, v, "first"), Reply(r, v, "rest")>>
              /\ executed' = executed \cup {r}
              /\ pending' = pending \ {r}
      BY <1>9 DEF AnswerInFragments
    <2>2. Reply(r, v, "first") \in Records /\ Reply(r, v, "rest") \in Records
      BY ReplyType DEF TypeOK
    <2>3. inbox' \in Seq(Records)
      BY <2>1, <2>2, SMTT(30) DEF TypeOK
    <2>4. surplus' \in 0..MaxSurplus
      BY <1>9, ConstantsAssumption, SMTT(30) DEF AnswerInFragments, TypeOK
    <2> QED
      BY <1>9, <2>1, <2>3, <2>4
         DEF AnswerInFragments, TypeOK, clientVars, countVars
  <1>10. CASE PeerClose
    BY <1>10 DEF PeerClose, TypeOK, clientVars, serverVars, countVars
  <1>11. CASE PeerAbort
    <2>1. inbox' \in Seq(Records)
      BY <1>11, SMTT(30) DEF PeerAbort, TypeOK
    <2> QED  BY <1>11, <2>1 DEF PeerAbort, TypeOK, clientVars, countVars
  <1>12. CASE UNCHANGED vars
    BY <1>12 DEF vars, TypeOK, clientVars, serverVars, countVars
  <1> QED
    BY <1>1, <1>2, <1>3, <1>4, <1>5, <1>6, <1>7, <1>8, <1>9, <1>10, <1>11,
       <1>12 DEF Next, Client, Server

\* The variables of the client always have the types of the fields of
\* RpcClient and TcpTransport they stand for (rpc_client.hpp:36).
THEOREM TypeCorrect == Spec => []TypeOK
  BY TypeInit, TypeNext, PTL DEF Spec

-----------------------------------------------------------------------------
(* The inductive invariant. *)

\* The parts of IndInv other than typing.
Parts == StreamInv /\ WaitInv /\ LockInv /\ AcceptedReplyIsMine /\ InStep
            /\ BehindBySurplus

\* The values for nothing received differ from every record.
LEMMA NoneFacts ==
    /\ NoResult.status = "none"
    /\ NoResult.from = NoRecord
    /\ "none" \notin Matched
    /\ "SEND_ERR" \notin Matched
    /\ "RECV_ERR" \notin Matched
    /\ "CONN_ERR" \notin Matched
  BY DEF NoResult, Matched, ReplyStatus

\* A client that was just constructed satisfies the inductive invariant.
LEMMA IndInit == Init => IndInv
  <1> SUFFICES ASSUME Init PROVE IndInv
    OBVIOUS
  <1>1. IsFiniteSet({}) /\ Cardinality({}) = 0
    BY FS_EmptySet
  <1>2. StreamInv /\ WaitInv /\ LockInv
    BY <1>1, SMTT(30) DEF Init, StreamInv, WaitInv, LockInv
  <1>3. AcceptedReplyIsMine /\ InStep
    BY NoneFacts DEF Init, AcceptedReplyIsMine, InStep
  <1>4. BehindBySurplus
    BY DEF Init, BehindBySurplus
  <1> QED  BY TypeInit, <1>2, <1>3, <1>4 DEF IndInv

\* On a new connection nothing is on its way.
LEMMA PartsFresh ==
    ASSUME FreshStream, pc' = "idle"
    PROVE  Parts'
  <1>1. IsFiniteSet({}) /\ Cardinality({}) = 0
    BY FS_EmptySet
  <1>2. StreamInv' /\ WaitInv' /\ LockInv'
    BY <1>1, SMTT(30) DEF FreshStream, StreamInv, WaitInv, LockInv
  <1>3. AcceptedReplyIsMine' /\ InStep'
    BY NoneFacts DEF FreshStream, AcceptedReplyIsMine, InStep
  <1>4. BehindBySurplus'
    BY <1>1 DEF FreshStream, BehindBySurplus
  <1> QED  BY <1>2, <1>3, <1>4 DEF Parts

\* A request that was sent has the number that xid_ says.
LEMMA PartsSend ==
    ASSUME IndInv, pc = "idle", connected,
           NEW r \in Requests, r \notin pending, SendRequest(r),
           \A q \in pending \cup executed : Made(q)',
           Made(r)',
           ~r.raw => r.n = ncalls'
    PROVE  Parts'
  <1>1. PICK o \in send(peer) :
          /\ peer' = o[2]
          /\ cur' = r
          /\ \/ o[1] = "ok" /\ pc' = "wait" /\ res' = NoResult
             \/ /\ o[1] = "err" /\ pc' = "idle"
                /\ res' = [status |-> "SEND_ERR", from |-> NoRecord]
             \/ o[1] = "sigpipe" /\ pc' = "dead" /\ res' = NoResult
          /\ pending' = IF o = <<"ok", "up">> THEN pending \cup {r} ELSE pending
          /\ UNCHANGED <<connected, executed, inbox, surplus, connects>>
    BY DEF SendRequest
  <1>2. /\ o = <<"ok", "up">> <=> peer = "up"
        /\ o[2] = "up" <=> peer = "up"
        /\ o[1] # "ok" => o[2] = "reset"
    BY SendOutcomes DEF IndInv, TypeOK
  <1>3. peer' = "up" <=> peer = "up"
    BY <1>1, <1>2
  <1>4. pending' = IF peer = "up" THEN pending \cup {r} ELSE pending
    BY <1>1, <1>2
  <1>5. peer = "up" => pc' = "wait"
    BY <1>1, <1>2
  <1>6. StreamInv'
    <2>1. IsFiniteSet(pending')
      BY <1>4, FS_AddElement DEF IndInv, StreamInv
    <2> QED  BY <2>1, <1>1, <1>4 DEF IndInv, StreamInv
  <1>7. WaitInv'
    BY <1>1 DEF WaitInv
  <1>8. LockInv'
    BY <1>1, <1>3, <1>4, SMTT(30) DEF IndInv, LockInv, TypeOK
  <1>9. AcceptedReplyIsMine' /\ InStep'
    BY <1>1, NoneFacts, SMTT(30) DEF AcceptedReplyIsMine, InStep
  <1>10. BehindBySurplus'
    <2> SUFFICES ASSUME peer = "up"
                 PROVE  Cardinality(pending') + Len(inbox') = surplus' + 1
      BY <1>3, <1>5 DEF BehindBySurplus
    <2>1. Cardinality(pending) + Len(inbox) = surplus
      BY SMTT(30) DEF IndInv, BehindBySurplus, TypeOK
    <2>2. Cardinality(pending') = Cardinality(pending) + 1
      BY <1>4, FS_AddElement DEF IndInv, StreamInv
    <2>3. Cardinality(pending) \in Nat /\ Len(inbox) \in Nat /\ surplus \in Nat
      BY FS_CardinalityType, LenProperties, ConstantsAssumption, SMTT(30)
         DEF IndInv, StreamInv, TypeOK
    <2> QED  BY <1>1, <2>1, <2>2, <2>3, SMTT(30)
  <1> QED  BY <1>6, <1>7, <1>8, <1>9, <1>10 DEF Parts

\* The numbering advances with xid_.
LEMMA NumberedStep ==
    ASSUME TypeOK, NEW q \in Requests, q.n \in 1..ncalls, Numbered(q),
           ncalls < MaxCalls, ncalls' = ncalls + 1, xid' = NextXid(xid)
    PROVE  Numbered(q)'
  <1>1. /\ XidSpace \in Nat /\ XidSpace >= 2 /\ MaxCalls <= XidSpace
        /\ MaxCalls \in Nat /\ ncalls \in 0..MaxCalls
        /\ q.n \in Nat /\ q.xid \in 0..(XidSpace - 1) /\ xid \in 0..(XidSpace - 1)
    BY ConstantsAssumption DEF TypeOK, Requests, Xids
  <1>2. xid = q.xid + (ncalls - q.n + 1) \/ xid = q.xid + (ncalls - q.n + 1) - XidSpace
    BY DEF Numbered
  <1>3. \/ xid' = q.xid + (ncalls' - q.n + 1)
        \/ xid' = q.xid + (ncalls' - q.n + 1) - XidSpace
    BY <1>1, <1>2, SMTT(30) DEF NextXid
  <1> QED  BY <1>3 DEF Numbered

\* Within a connection two calls never share an xid.
LEMMA NumberedUnique ==
    ASSUME TypeOK, NEW q \in Requests, NEW r \in Requests,
           q.n \in 1..ncalls, r.n \in 1..ncalls, Numbered(q), Numbered(r),
           q.xid = r.xid
    PROVE  q.n = r.n
  <1>1. /\ XidSpace \in Nat /\ XidSpace >= 2 /\ MaxCalls <= XidSpace
        /\ MaxCalls \in Nat /\ ncalls \in 0..MaxCalls
        /\ q.n \in Nat /\ r.n \in Nat /\ q.xid \in Int /\ xid \in Int
    BY ConstantsAssumption, SMTT(30) DEF TypeOK, Requests, Xids
  <1> QED  BY <1>1, SMTT(30) DEF Numbered

\* call preserves the parts of the invariant.
LEMMA PartsCall ==
    ASSUME IndInv, call
    PROVE  Parts'
  <1>0. PICK r \in Requests : r = [raw |-> FALSE, n |-> ncalls + 1, xid |-> xid]
    <2>1. [raw |-> FALSE, n |-> ncalls + 1, xid |-> xid] \in Requests
      BY ConstantsAssumption, SMTT(30) DEF IndInv, TypeOK, Requests
    <2> QED  BY <2>1
  <1>1. r.n = ncalls + 1 /\ r.raw = FALSE /\ r.xid = xid
    BY <1>0
  <1>2. r \notin pending
    <2>1. ~ (r.n <= ncalls)
      BY <1>1, ConstantsAssumption, SMTT(30) DEF IndInv, TypeOK
    <2> QED  BY <1>1, <2>1 DEF IndInv, StreamInv, Made
  <1>3. ASSUME NEW q \in pending \cup executed
        PROVE  Made(q)'
    <2>1. q \in Requests /\ Made(q)
      BY DEF IndInv, TypeOK, StreamInv
    <2>2. CASE q.raw
      BY <2>1, <2>2 DEF Made, call
    <2>3. CASE ~q.raw
      <3>1. q.n \in 1..ncalls /\ Numbered(q)
        BY <2>1, <2>3, SMTT(30) DEF Made, Requests, IndInv, TypeOK
      <3>2. Numbered(q)'
        BY <2>1, <3>1, NumberedStep DEF IndInv, call
      <3> QED
        BY <2>1, <2>3, <3>1, <3>2, ConstantsAssumption, SMTT(30)
           DEF Made, call, Requests, IndInv, TypeOK
    <2> QED  BY <2>2, <2>3
  <1>4. Made(r)'
    <2>1. xid' = xid + 1 \/ xid' = xid + 1 - XidSpace
      BY ConstantsAssumption, SMTT(30) DEF call, NextXid, IndInv, TypeOK, Xids
    <2>2. ncalls' = r.n /\ r.n \in Nat /\ r.n >= 1
      BY <1>1, ConstantsAssumption, SMTT(30) DEF call, IndInv, TypeOK
    <2>3. Numbered(r)'
      BY <1>1, <2>1, <2>2, SMTT(30) DEF Numbered
    <2> QED  BY <1>1, <2>2, <2>3, SMTT(30) DEF Made
  <1>5. pc = "idle" /\ connected /\ SendRequest(r) /\ r.n = ncalls'
    BY <1>0, <1>1 DEF call
  <1> QED  BY <1>1, <1>2, <1>3, <1>4, <1>5, PartsSend

\* raw_call preserves them.
LEMMA PartsRawCall ==
    ASSUME IndInv, NEW x \in RawXids, raw_call(x)
    PROVE  Parts'
  <1>0. PICK r \in Requests : r = [raw |-> TRUE, n |-> nraws + 1, xid |-> x]
    <2>1. [raw |-> TRUE, n |-> nraws + 1, xid |-> x] \in Requests
      BY ConstantsAssumption, SMTT(30) DEF IndInv, TypeOK, Requests, Xids
    <2> QED  BY <2>1
  <1>1. r.n = nraws + 1 /\ r.raw = TRUE
    BY <1>0
  <1>2. r \notin pending
    <2>1. ~ (r.n <= nraws)
      BY <1>1, ConstantsAssumption, SMTT(30) DEF IndInv, TypeOK
    <2> QED  BY <1>1, <2>1 DEF IndInv, StreamInv, Made
  <1>3. ASSUME NEW q \in pending \cup executed
        PROVE  Made(q)'
    <2>1. q \in Requests /\ Made(q)
      BY DEF IndInv, TypeOK, StreamInv
    <2> QED
      BY <2>1, ConstantsAssumption, SMTT(30)
         DEF Made, Numbered, raw_call, Requests, IndInv, TypeOK
  <1>4. Made(r)'
    BY <1>1, ConstantsAssumption, SMTT(30) DEF Made, raw_call, IndInv, TypeOK
  <1>5. pc = "idle" /\ connected /\ SendRequest(r)
    BY <1>0 DEF raw_call
  <1> QED  BY <1>1, <1>2, <1>3, <1>4, <1>5, PartsSend

\* A call on a client that is not connected preserves them.
LEMMA PartsNotConnected ==
    ASSUME IndInv, NotConnected
    PROVE  Parts'
  <1>1. /\ pc = "idle" /\ pc' = "idle"
        /\ cur' = NoRequest
        /\ res' = [status |-> "CONN_ERR", from |-> NoRecord]
        /\ UNCHANGED <<connected, xid, peer, pending, executed, inbox, surplus,
                       ncalls, nraws>>
    BY DEF NotConnected, serverVars, countVars
  <1>2. StreamInv' /\ WaitInv'
    BY <1>1 DEF IndInv, StreamInv, Made, Numbered, WaitInv
  <1>3. LockInv' /\ BehindBySurplus'
    BY <1>1 DEF IndInv, LockInv, BehindBySurplus
  <1>4. AcceptedReplyIsMine' /\ InStep'
    BY <1>1, NoneFacts DEF AcceptedReplyIsMine, InStep
  <1> QED  BY <1>2, <1>3, <1>4 DEF Parts

\* A record that is received preserves them.
LEMMA PartsRecv ==
    ASSUME IndInv, recv
    PROVE  Parts'
  <1> DEFINE m == Head(inbox)
  <1>1. /\ pc = "wait" /\ pc' = "idle"
        /\ inbox # <<>> /\ inbox' = Tail(inbox)
        /\ UNCHANGED <<connected, xid, cur, peer, pending, executed, surplus,
                       ncalls, nraws>>
    BY DEF recv, TakeMessage, countVars
  <1>2. PICK s \in IF cur.raw THEN {"OK"} ELSE parse_reply(m, cur.xid) :
            res' = [status |-> s, from |-> m]
    BY DEF recv
  <1>3. /\ inbox \in Seq(Records) /\ Len(inbox) \in Nat /\ Len(inbox) >= 1
        /\ m = inbox[1] /\ m \in Records
        /\ Len(inbox') = Len(inbox) - 1
        /\ \A i \in 1..Len(inbox') : inbox'[i] = inbox[i + 1]
    BY <1>1, HeadTailProperties, LenProperties, SMTT(30) DEF IndInv, TypeOK
  <1>4. m.req \in executed /\ m.req \in Requests /\ Made(m.req)
    BY <1>3, SMTT(30) DEF IndInv, StreamInv, Records
  <1>5. StreamInv'
    <2>1. \A i \in 1..Len(inbox') : inbox'[i].req \in executed
      BY <1>3, SMTT(30) DEF IndInv, StreamInv
    <2> QED  BY <1>1, <2>1 DEF IndInv, StreamInv, Made, Numbered
  <1>6. WaitInv'
    BY <1>1 DEF WaitInv
  <1>7. LockInv'
    <2> SUFFICES ASSUME surplus = 0
                 PROVE  inbox' = <<>> /\ (peer = "up" => pending = {})
      BY <1>1 DEF LockInv
    <2>1. Len(inbox) <= 1 /\ (peer = "up" => pending = {})
      BY <1>1 DEF IndInv, LockInv
    <2>2. Len(inbox') = 0 /\ inbox' \in Seq(Records)
      BY <1>1, <1>3, <2>1, SMTT(30)
    <2> QED  BY <2>1, <2>2, EmptySeq
  <1>8. AcceptedReplyIsMine'
    <2> SUFFICES ASSUME s \in Matched, ~cur.raw, m.part # "rest", ~m.req.raw
                 PROVE  m.req = cur /\ s = m.verdict /\ cur \in executed
      <3>1. (s \in Matched /\ ~cur.raw) =>
              \/ m.req = cur /\ s = m.verdict /\ cur \in executed
              \/ m.part = "rest"
              \/ m.req.raw /\ m.req.xid = cur.xid
        <4>1. CASE s \in Matched /\ ~cur.raw /\ m.part # "rest"
          <5>1. s \in parse_reply(m, cur.xid) /\ s # "PROTO_ERR"
            BY <1>2, <4>1 DEF Matched
          <5>2. m.req.xid = cur.xid
            BY <4>1, <5>1 DEF parse_reply
          <5> QED  BY <4>1, <5>2
        <4> QED  BY <4>1
      <3> QED  BY <1>1, <1>2, <3>1 DEF AcceptedReplyIsMine
    <2>1. s \in parse_reply(m, cur.xid) /\ s # "PROTO_ERR"
      BY <1>2 DEF Matched
    <2>2. m.req.xid = cur.xid /\ s = m.verdict
      BY <2>1 DEF parse_reply
    <2>3. cur \in Requests /\ Made(cur) /\ cur.n = ncalls
      BY <1>1 DEF IndInv, TypeOK, WaitInv
    <2>4. /\ m.req.n \in 1..ncalls /\ Numbered(m.req)
          /\ cur.n \in 1..ncalls /\ Numbered(cur)
      BY <1>4, <2>3, ConstantsAssumption, SMTT(30) DEF Made, Requests, IndInv, TypeOK
    <2>5. m.req.n = cur.n
      BY <1>4, <2>2, <2>3, <2>4, NumberedUnique DEF IndInv
    <2>6. m.req = cur
      <3>1. m.req.raw = cur.raw
        BY <1>4, <2>3 DEF Requests
      <3> QED  BY <1>4, <2>2, <2>3, <2>5, <3>1, SMTT(30) DEF Requests
    <2> QED  BY <1>4, <2>2, <2>6
  <1>9. InStep'
    <2>1. surplus = 0 => m.req = cur
      BY <1>1, <1>3, SMTT(30) DEF IndInv, LockInv
    <2> QED  BY <1>1, <1>2, <2>1 DEF InStep
  <1>10. BehindBySurplus'
    <2>1. Cardinality(pending) \in Nat /\ surplus \in Nat
      BY FS_CardinalityType, ConstantsAssumption, SMTT(30) DEF IndInv, StreamInv, TypeOK
    <2> QED  BY <1>1, <1>3, <2>1, SMTT(30) DEF IndInv, BehindBySurplus
  <1> QED  BY <1>5, <1>6, <1>7, <1>8, <1>9, <1>10 DEF Parts

\* A receive that fails preserves them.
LEMMA PartsRecvFails ==
    ASSUME IndInv, recv_fails
    PROVE  Parts'
  <1>1. /\ pc = "wait" /\ pc' = "idle" /\ inbox = <<>>
        /\ peer # "up" /\ peer' # "up"
        /\ res' = [status |-> "RECV_ERR", from |-> NoRecord]
        /\ UNCHANGED <<connected, xid, cur, pending, executed, inbox, surplus,
                       ncalls, nraws>>
    BY DEF recv_fails, read_all_fails, AfterReadError, serverVars, countVars
  <1>2. StreamInv' /\ WaitInv'
    BY <1>1 DEF IndInv, StreamInv, Made, Numbered, WaitInv
  <1>3. LockInv' /\ BehindBySurplus'
    BY <1>1 DEF LockInv, BehindBySurplus
  <1>4. AcceptedReplyIsMine' /\ InStep'
    BY <1>1, NoneFacts DEF AcceptedReplyIsMine, InStep
  <1> QED  BY <1>2, <1>3, <1>4 DEF Parts

\* What all three ways of answering request r leave intact.
LEMMA PartsReply ==
    ASSUME IndInv, NEW r \in pending,
           executed' = executed \cup {r},
           pending' \subseteq pending,
           \A i \in 1..Len(inbox') : inbox'[i].req \in executed',
           surplus' = surplus \/ surplus' # 0,
           UNCHANGED <<clientVars, peer, countVars>>
    PROVE  StreamInv' /\ WaitInv' /\ AcceptedReplyIsMine' /\ InStep'
  <1> USE DEF clientVars, countVars
  <1>1. IsFiniteSet(pending')
    BY FS_Subset DEF IndInv, StreamInv
  <1>2. StreamInv'
    BY <1>1 DEF IndInv, StreamInv, Made, Numbered
  <1>3. WaitInv'
    BY DEF IndInv, WaitInv, Made, Numbered
  <1>4. AcceptedReplyIsMine' /\ InStep'
    BY DEF IndInv, AcceptedReplyIsMine, InStep
  <1> QED  BY <1>2, <1>3, <1>4

\* An answer of the server preserves them.
LEMMA PartsAnswer ==
    ASSUME IndInv, Answer \/ AnswerAgainLater
    PROVE  Parts'
  <1>1. PICK r \in pending, v \in Verdicts :
            /\ inbox' = Append(inbox, Reply(r, v, "whole"))
            /\ executed' = executed \cup {r}
            /\ \/ pending' = pending \ {r} /\ surplus' = surplus
               \/ pending' = pending /\ surplus' = surplus + 1
    BY DEF Answer, AnswerAgainLater
  <1>2. peer = "up" /\ UNCHANGED <<clientVars, peer, countVars>>
    BY DEF Answer, AnswerAgainLater
  <1>3. Reply(r, v, "whole") \in Records /\ Reply(r, v, "whole").req = r
    BY ReplyType DEF IndInv, TypeOK, Reply
  <1>4. /\ inbox \in Seq(Records) /\ Len(inbox) \in Nat
        /\ Len(inbox') = Len(inbox) + 1
        /\ \A i \in 1..Len(inbox) : inbox'[i] = inbox[i]
        /\ inbox'[Len(inbox) + 1].req = r
    BY <1>1, <1>3, AppendProperties, LenProperties, SMTT(30) DEF IndInv, TypeOK
  <1>5. \A i \in 1..Len(inbox') : inbox'[i].req \in executed'
    <2> TAKE i \in 1..Len(inbox')
    <2>1. CASE i = Len(inbox) + 1
      BY <1>1, <1>4, <2>1
    <2>2. CASE i \in 1..Len(inbox)
      BY <1>1, <1>4, <2>2 DEF IndInv, StreamInv
    <2> QED  BY <1>4, <2>1, <2>2, SMTT(30)
  <1>6. /\ Cardinality(pending) \in Nat /\ surplus \in Nat /\ IsFiniteSet(pending)
        /\ Cardinality(pending \ {r}) = Cardinality(pending) - 1
    BY FS_CardinalityType, FS_RemoveElement, ConstantsAssumption, SMTT(30)
       DEF IndInv, StreamInv, TypeOK
  <1>7. StreamInv' /\ WaitInv' /\ AcceptedReplyIsMine' /\ InStep'
    <2>1. pending' \subseteq pending /\ (surplus' = surplus \/ surplus' # 0)
      BY <1>1, <1>6, SMTT(30)
    <2> QED  BY <1>1, <1>2, <1>5, <2>1, PartsReply
  <1>8. LockInv'
    <2> SUFFICES ASSUME surplus' = 0
                 PROVE  /\ pc' = "idle" => inbox' = <<>> /\ pending' = {}
                        /\ pc' = "wait" =>
                              /\ Len(inbox') <= 1
                              /\ \A i \in 1..Len(inbox') : inbox'[i].req = cur'
                              /\ pending' = {}
      BY DEF LockInv
    <2>1. surplus = 0 /\ pending' = pending \ {r} /\ pc' = pc /\ cur' = cur
      BY <1>1, <1>2, <1>6, SMTT(30) DEF clientVars
    <2>2. pc # "idle"
      BY <1>2, <2>1 DEF IndInv, LockInv
    <2>3. pc = "wait" => r = cur /\ inbox = <<>> /\ pending = {cur}
      BY <1>2, <2>1 DEF IndInv, LockInv
    <2> QED  BY <1>4, <2>1, <2>2, <2>3, SMTT(30)
  <1>9. BehindBySurplus'
    <2> DEFINE w == IF pc = "wait" THEN 1 ELSE 0
    <2> SUFFICES ASSUME connected
                 PROVE  Cardinality(pending') + Len(inbox') = surplus' + w
      BY <1>2 DEF BehindBySurplus, clientVars
    <2>1. Cardinality(pending) + Len(inbox) = surplus + w /\ w \in Nat
      BY <1>2 DEF IndInv, BehindBySurplus
    <2> HIDE DEF w
    <2>2. Cardinality(pending') + Len(inbox')
             = Cardinality(pending) + Len(inbox) + (surplus' - surplus)
      <3>1. CASE pending' = pending \ {r} /\ surplus' = surplus
        BY <1>4, <1>6, <3>1, SMTT(30)
      <3>2. CASE pending' = pending /\ surplus' = surplus + 1
        BY <1>4, <1>6, <3>2, SMTT(30)
      <3> QED  BY <1>1, <3>1, <3>2
    <2>3. surplus' \in Nat
      BY <1>1, <1>2, <1>6, SMTT(30)
    <2> QED  BY <1>4, <1>6, <2>1, <2>2, <2>3, SMTT(30)
  <1> QED  BY <1>7, <1>8, <1>9 DEF Parts

\* An answer in two fragments preserves them.
LEMMA PartsAnswerInFragments ==
    ASSUME IndInv, AnswerInFragments
    PROVE  Parts'
  <1>1. PICK r \in pending, v \in Verdicts :
            /\ inbox' = inbox \o <<Reply(r, v, "first"), Reply(r, v, "rest")>>
            /\ executed' = executed \cup {r}
            /\ pending' = pending \ {r}
    BY DEF AnswerInFragments
  <1>2. /\ peer = "up" /\ surplus' = surplus + 1
        /\ UNCHANGED <<clientVars, peer, countVars>>
    BY DEF AnswerInFragments
  <1>3. /\ Reply(r, v, "first") \in Records /\ Reply(r, v, "first").req = r
        /\ Reply(r, v, "rest") \in Records /\ Reply(r, v, "rest").req = r
    BY ReplyType DEF IndInv, TypeOK, Reply
  <1>4. /\ inbox \in Seq(Records) /\ Len(inbox) \in Nat
        /\ Len(inbox') = Len(inbox) + 2
        /\ \A i \in 1..Len(inbox) : inbox'[i] = inbox[i]
        /\ inbox'[Len(inbox) + 1].req = r
        /\ inbox'[Len(inbox) + 2].req = r
    <2>1. inbox \in Seq(Records)
      BY DEF IndInv, TypeOK
    <2> QED  BY <1>1, <1>3, <2>1, ConcatProperties, LenProperties, SMTT(30)
  <1>5. \A i \in 1..Len(inbox') : inbox'[i].req \in executed'
    <2> TAKE i \in 1..Len(inbox')
    <2>1. CASE i \in {Len(inbox) + 1, Len(inbox) + 2}
      BY <1>1, <1>4, <2>1
    <2>2. CASE i \in 1..Len(inbox)
      BY <1>1, <1>4, <2>2 DEF IndInv, StreamInv
    <2> QED  BY <1>4, <2>1, <2>2, SMTT(30)
  <1>6. /\ Cardinality(pending) \in Nat /\ surplus \in Nat
        /\ Cardinality(pending \ {r}) = Cardinality(pending) - 1
    BY FS_CardinalityType, FS_RemoveElement, ConstantsAssumption, SMTT(30)
       DEF IndInv, StreamInv, TypeOK
  <1>7. surplus' # 0
    BY <1>2, <1>6, SMTT(30)
  <1>8. StreamInv' /\ WaitInv' /\ AcceptedReplyIsMine' /\ InStep'
    BY <1>1, <1>2, <1>5, <1>7, PartsReply
  <1>9. LockInv'
    BY <1>7 DEF LockInv
  <1>10. BehindBySurplus'
    <2> DEFINE w == IF pc = "wait" THEN 1 ELSE 0
    <2> SUFFICES ASSUME connected
                 PROVE  Cardinality(pending') + Len(inbox') = surplus' + w
      BY <1>2 DEF BehindBySurplus, clientVars
    <2>1. Cardinality(pending) + Len(inbox) = surplus + w /\ w \in Nat
      BY <1>2 DEF IndInv, BehindBySurplus
    <2> HIDE DEF w
    <2>2. Cardinality(pending') + Len(inbox')
             = Cardinality(pending) + Len(inbox) + (surplus' - surplus)
      BY <1>1, <1>2, <1>4, <1>6, SMTT(30)
    <2>3. surplus' \in Nat
      BY <1>1, <1>2, <1>6, SMTT(30)
    <2> QED  BY <1>4, <1>6, <2>1, <2>2, <2>3, SMTT(30)
  <1> QED  BY <1>8, <1>9, <1>10 DEF Parts

\* A close or an abort by the server preserves them.
LEMMA PartsPeer ==
    ASSUME IndInv, PeerClose \/ PeerAbort
    PROVE  Parts'
  <1> USE DEF clientVars, serverVars, countVars
  <1>1. /\ peer' # "up"
        /\ UNCHANGED <<clientVars, pending, executed, surplus, countVars>>
    BY DEF PeerClose, PeerAbort
  <1>2. PICK k \in 0..Len(inbox) : inbox' = SubSeq(inbox, 1, k)
    <2>1. CASE PeerClose
      <3>1. inbox' = inbox /\ inbox = SubSeq(inbox, 1, Len(inbox))
        BY <2>1, SMTT(30) DEF PeerClose, IndInv, TypeOK
      <3>2. Len(inbox) \in 0..Len(inbox)
        BY LenProperties, SMTT(30) DEF IndInv, TypeOK
      <3> QED  BY <3>1, <3>2
    <2> QED  BY <2>1 DEF PeerAbort
  <1>3. /\ inbox \in Seq(Records) /\ Len(inbox) \in Nat
        /\ Len(inbox') = k
        /\ \A i \in 1..k : inbox'[i] = inbox[i]
    <2>1. inbox \in Seq(Records)
      BY DEF IndInv, TypeOK
    <2> QED  BY <1>2, <2>1, LenProperties, SMTT(30)
  <1>4. StreamInv'
    BY <1>1, <1>3, SMTT(30) DEF IndInv, StreamInv, Made, Numbered
  <1>5. WaitInv' /\ AcceptedReplyIsMine' /\ InStep' /\ BehindBySurplus'
    BY <1>1 DEF IndInv, WaitInv, Made, Numbered, AcceptedReplyIsMine, InStep,
                BehindBySurplus
  <1>6. LockInv'
    <2>1. inbox = <<>> => inbox' = <<>>
      BY <1>2, <1>3, SMTT(30)
    <2> QED  BY <1>1, <1>3, <2>1, SMTT(30) DEF IndInv, LockInv
  <1> QED  BY <1>4, <1>5, <1>6 DEF Parts

\* Every step preserves the inductive invariant.
LEMMA IndNext == IndInv /\ [Next]_vars => IndInv'
  <1> SUFFICES ASSUME IndInv, [Next]_vars PROVE IndInv'
    OBVIOUS
  <1>1. TypeOK'
    BY TypeNext DEF IndInv
  <1>2. ASSUME connect \/ disconnect PROVE Parts'
    BY <1>2, PartsFresh DEF connect, TransportConnect, disconnect
  <1>3. ASSUME UNCHANGED vars PROVE Parts'
    BY <1>3 DEF vars, clientVars, serverVars, countVars, IndInv, Parts,
                StreamInv, WaitInv, LockInv, Made, Numbered,
                AcceptedReplyIsMine, InStep, BehindBySurplus
  <1>4. Parts'
    BY <1>2, <1>3, PartsCall, PartsRawCall, PartsNotConnected, PartsRecv,
       PartsRecvFails, PartsAnswer, PartsAnswerInFragments, PartsPeer
       DEF Next, Client, Server
  <1> QED  BY <1>1, <1>4 DEF IndInv, Parts

\* So it always holds.
LEMMA Invariance == Spec => []IndInv
  BY IndInit, IndNext, PTL DEF Spec

\* A status of the server's that call() returns was given to this very call,
\* whatever was left in the stream (rpc_client.cpp:60, rpc_protocol.hpp:137);
\* the exceptions are those the definition names.
THEOREM AcceptedReplies == Spec => []AcceptedReplyIsMine
  <1>1. IndInv => AcceptedReplyIsMine
    BY DEF IndInv
  <1> QED  BY Invariance, <1>1, PTL

\* Until the server sends a surplus record, every call() and raw_call() reads
\* its own reply (rpc_client.cpp:41 and :60).
THEOREM Lockstep == Spec => []InStep
  <1>1. IndInv => InStep
    BY DEF IndInv
  <1> QED  BY Invariance, <1>1, PTL

\* While the server is up the stream is behind by exactly its surplus records
\* (rpc_transport.cpp:112).
THEOREM StreamAccounting == Spec => []BehindBySurplus
  <1>1. IndInv => BehindBySurplus
    BY DEF IndInv
  <1> QED  BY Invariance, <1>1, PTL

-----------------------------------------------------------------------------
(* Refinement: every step of the client is a step of SyncRpc or leaves its  *)
(* variables unchanged.                                                     *)

\* Sending a request that was not carried out is a step of SyncRpc.
LEMMA SyncSend ==
    ASSUME pc = "idle", NEW r \in Requests, r \notin executed, SendRequest(r)
    PROVE  Sync!Next
  <1>1. cur' = r /\ executed' = executed
    BY DEF SendRequest
  <1>2. (cur \in executed)' = FALSE
    BY <1>1, SMTT(30)
  <1>3. CASE pc' = "wait" /\ res' = NoResult
    <2>1. Outcome' = "none"
      BY <1>3, NoneFacts DEF Outcome
    <2> QED  BY <1>2, <1>3, <2>1 DEF Sync!Next, Sync!Begin
  <1>4. CASE pc' = "idle" /\ res' = [status |-> "SEND_ERR", from |-> NoRecord]
    <2>1. Outcome' = "fail"
      BY <1>4, NoneFacts DEF Outcome
    <2> QED  BY <1>2, <1>4, <2>1 DEF Sync!Next, Sync!Refuse
  <1>5. CASE pc' = "dead" /\ res' = NoResult
    <2>1. Outcome' = "none"
      BY <1>5, NoneFacts DEF Outcome
    <2> QED  BY <1>2, <1>5, <2>1 DEF Sync!Next, Sync!Die
  <1> QED  BY <1>3, <1>4, <1>5 DEF SendRequest

\* Every step of the client is a step of SyncRpc or a stutter.
LEMMA SyncNext == IndInv /\ IndInv' /\ [Next]_vars => [Sync!Next]_Sync!vars
  <1> SUFFICES ASSUME IndInv, IndInv', [Next]_vars
               PROVE  [Sync!Next]_Sync!vars
    OBVIOUS
  <1>1. CASE connect \/ disconnect
    <2>1. pc = "idle" /\ pc' = "idle" /\ FreshStream
      BY <1>1 DEF connect, TransportConnect, disconnect
    <2>2. Outcome' = "none" /\ (cur \in executed)' = FALSE
      BY <2>1, NoneFacts, SMTT(30) DEF FreshStream, Outcome
    <2> QED  BY <2>1, <2>2 DEF Sync!Next, Sync!Forget
  <1>2. CASE NotConnected
    <2>1. /\ pc = "idle" /\ pc' = "idle" /\ cur' = NoRequest
          /\ executed' = executed
          /\ res' = [status |-> "CONN_ERR", from |-> NoRecord]
      BY <1>2 DEF NotConnected, serverVars
    <2>2. NoRequest \notin executed
      <3>1. NoRequest.n = 0
        BY DEF NoRequest
      <3>2. \A r \in executed : r.n >= 1
        BY DEF IndInv, StreamInv, Made
      <3> QED  BY <3>1, <3>2, SMTT(30)
    <2>3. Outcome' = "fail" /\ (cur \in executed)' = FALSE
      BY <2>1, <2>2, NoneFacts, SMTT(30) DEF Outcome
    <2> QED  BY <2>1, <2>3 DEF Sync!Next, Sync!Refuse
  <1>3. CASE call
    <2>1. PICK r \in Requests : r = [raw |-> FALSE, n |-> ncalls + 1, xid |-> xid]
      <3>1. ncalls + 1 \in Nat /\ xid \in Xids
        BY ConstantsAssumption, SMTT(30) DEF IndInv, TypeOK
      <3>2. [raw |-> FALSE, n |-> ncalls + 1, xid |-> xid] \in Requests
        BY <3>1 DEF Requests
      <3> QED  BY <3>2
    <2>2. ~r.raw /\ ~(r.n <= ncalls)
      <3>1. ncalls \in Nat
        BY ConstantsAssumption, SMTT(30) DEF IndInv, TypeOK
      <3> QED  BY <2>1, <3>1, SMTT(30)
    <2>3. r \notin executed
      BY <2>2 DEF IndInv, StreamInv, Made
    <2> QED  BY <1>3, <2>1, <2>3, SyncSend DEF call
  <1>4. ASSUME NEW x \in RawXids, raw_call(x) PROVE Sync!Next
    <2>1. PICK r \in Requests : r = [raw |-> TRUE, n |-> nraws + 1, xid |-> x]
      <3>1. nraws + 1 \in Nat /\ x \in Xids
        BY ConstantsAssumption, SMTT(30) DEF IndInv, TypeOK, Xids
      <3>2. [raw |-> TRUE, n |-> nraws + 1, xid |-> x] \in Requests
        BY <3>1 DEF Requests
      <3> QED  BY <3>2
    <2>2. r.raw /\ ~(r.n <= nraws)
      <3>1. nraws \in Nat
        BY ConstantsAssumption, SMTT(30) DEF IndInv, TypeOK
      <3> QED  BY <2>1, <3>1, SMTT(30)
    <2>3. r \notin executed
      BY <2>2 DEF IndInv, StreamInv, Made
    <2> QED  BY <1>4, <2>1, <2>3, SyncSend DEF raw_call
  <1>5. CASE recv \/ recv_fails
    <2>1. /\ pc = "wait" /\ pc' = "idle"
          /\ (cur \in executed)' = (cur \in executed)
      BY <1>5 DEF recv, recv_fails, serverVars
    <2>2. CASE Outcome' = "ok"
      <3>1. cur' \in executed'
        BY <2>2 DEF Outcome, IndInv, AcceptedReplyIsMine
      <3> QED  BY <2>1, <2>2, <3>1 DEF Sync!Next, Sync!Succeed
    <2>3. CASE Outcome' = "fail"
      BY <2>1, <2>3 DEF Sync!Next, Sync!Fail
    <2>4. res'.status # "none"
      <3>1. CASE recv_fails
        BY <3>1 DEF recv_fails
      <3>2. CASE recv
        <4>1. PICK s \in IF cur.raw THEN {"OK"}
                         ELSE parse_reply(Head(inbox), cur.xid) :
                  res' = [status |-> s, from |-> Head(inbox)]
          BY <3>2 DEF recv
        <4>2. Head(inbox) \in Records
          <5>1. inbox \in Seq(Records)
            BY DEF IndInv, TypeOK
          <5>2. inbox # <<>>
            BY <3>2 DEF recv
          <5> QED  BY <5>1, <5>2, SMTT(30)
        <4>3. s \in ReplyStatus
          BY <4>1, <4>2, ConstantsAssumption
             DEF parse_reply, Records, ReplyStatus
        <4> QED  BY <4>1, <4>3 DEF ReplyStatus
      <3> QED  BY <1>5, <3>1, <3>2
    <2> QED  BY <2>2, <2>3, <2>4 DEF Outcome
  <1>6. CASE Answer \/ AnswerAgainLater \/ AnswerInFragments
    <2>1. executed \subseteq executed' /\ UNCHANGED <<pc, cur, res>>
      BY <1>6 DEF Answer, AnswerAgainLater, AnswerInFragments, clientVars
    <2>2. Outcome' = Outcome
      BY <2>1 DEF Outcome
    <2>3. CASE cur \in executed
      BY <2>1, <2>2, <2>3 DEF Sync!vars
    <2>4. CASE cur \notin executed /\ cur \in executed'
      BY <2>1, <2>2, <2>4 DEF Sync!Next, Sync!Execute
    <2>5. CASE cur \notin executed /\ cur \notin executed'
      BY <2>1, <2>2, <2>5, SMTT(30) DEF Sync!vars
    <2> QED  BY <2>3, <2>4, <2>5
  <1>7. CASE PeerClose \/ PeerAbort \/ UNCHANGED vars
    <2>1. UNCHANGED <<pc, cur, res, executed>>
      BY <1>7 DEF PeerClose, PeerAbort, vars, clientVars, serverVars
    <2> QED  BY <2>1 DEF Sync!vars, Outcome
  <1> QED
    BY <1>1, <1>2, <1>3, <1>4, <1>5, <1>6, <1>7 DEF Next, Client, Server

\* Whatever the stream and the server do, the client keeps the promise SyncRpc
\* states: a verified success means that the request of this very call was
\* carried out, before the call returned (rpc_client.cpp:60).
THEOREM Refinement == Spec => ImplementsSyncRpc
  <1>1. Init => Sync!Init
    <2> SUFFICES ASSUME Init PROVE Sync!Init
      OBVIOUS
    <2>1. Outcome = "none" /\ (cur \in executed) = FALSE
      BY NoneFacts, SMTT(30) DEF Init, Outcome
    <2> QED  BY <2>1 DEF Init, Sync!Init
  <1> QED
    BY <1>1, SyncNext, Invariance, PTL DEF Spec, ImplementsSyncRpc, Sync!Spec
=============================================================================
