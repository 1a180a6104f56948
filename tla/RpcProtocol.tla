----------------------------- MODULE RpcProtocol -----------------------------
(***************************************************************************)
(* The message formats of simple_rpc/include/nfstest/rpc_protocol.hpp: the *)
(* call that build_call() writes and the reply that parse_reply() reads,   *)
(* over sequences of 32-bit words.  The other side is RFC 5531 as a server *)
(* implements it: it decodes the call and encodes the reply, which may     *)
(* reach the client cut short when the server sends it in fragments.       *)
(***************************************************************************)
EXTENDS Integers, Sequences

CONSTANTS
    WordMod,     \* number of values of a uint32_t (2^32 in the code)
    Xids,        \* xids of calls and replies
    ArgWords,    \* XDR arguments, as sequences of words
    Flavors,     \* flavours of reply verifiers
    VerfBytes,   \* lengths of reply verifiers
    Stats,       \* accept_stat and reject_stat values of replies
    Bodies       \* results, as sequences of words

Word == 0 .. WordMod - 1

ASSUME ProtocolAssumption ==
    /\ WordMod \in Nat /\ WordMod > 64
    /\ Xids \subseteq Word /\ Flavors \subseteq Word /\ Stats \subseteq Word
    /\ ArgWords \subseteq Seq(Word) /\ Bodies \subseteq Seq(Word)
    /\ \A n \in VerfBytes : n \in Nat /\ n + 3 < WordMod

VARIABLES
    phase,    \* "start", "called", "served", "parsed"
    req,      \* what the caller of build_call asked for
    wire,     \* the message on its way
    rep,      \* the reply the server chose to give
    cut,      \* words of it that reach the client in the first fragment
    out       \* what parse_reply returned

vars == <<phase, req, wire, rep, cut, out>>

CALL == 0
REPLY == 1
RPCVERS == 2
AUTH_NONE == 0
AUTH_SYS == 1

-----------------------------------------------------------------------------
(* build_call and what it uses.                                            *)

write_auth_none == <<AUTH_NONE, 0>>

\* Bytes written for a host name of n bytes by the loop over groups of four:
\* the bytes of the group, then its zeros.
HostBytes_no_zeros(n) == n
HostBytes(n) ==
    LET InGroup(i) == IF n - i < 4 THEN n - i ELSE 4
        Zeros(i) == IF n - i < 4 THEN 4 - (n - i) ELSE 0
        bytes[i \in 0 .. n + 3] ==
            IF i < n THEN InGroup(i) + Zeros(i) + bytes[i + 4] ELSE 0
    IN  bytes[0]

\* "localhost"; the words of the name itself are not told apart.
HostLen == 9

\* The length word is patched in after the credential has been written.
write_auth_sys_cred(stamp, uid, gid, gids) ==
    LET name == [i \in 1..(HostBytes(HostLen) \div 4) |-> 0]
        cred == <<stamp, HostLen>> \o name \o <<uid, gid, Len(gids)>> \o gids
    IN  <<AUTH_SYS, 4 * Len(cred)>> \o cred

build_call(xid, prog, vers, proc, args) ==
    <<xid, CALL, RPCVERS, prog, vers, proc>>
        \o write_auth_sys_cred(0, 0, 0, <<>>) \o write_auth_none \o args

-----------------------------------------------------------------------------
(* parse_reply.                                                            *)

Result(s, b) == [status |-> s, body |-> b]
ProtoErr == {Result("PROTO_ERR", <<>>)}

\* Byte offsets are multiples of four: every length is rounded up first.
read_uint32_be(d, offset) == d[offset \div 4 + 1]
Size(d) == 4 * Len(d)
From(d, offset) == SubSeq(d, offset \div 4 + 1, Len(d))

\* ((n + 3) / 4) * 4 on a uint32_t.
RoundUp_down(n) == (n \div 4) * 4
RoundUp(n) == (((n + 3) % WordMod) \div 4) * 4

AcceptStatus == <<"PROG_UNAVAIL", "PROG_MISMATCH", "PROC_UNAVAIL",
                  "GARBAGE_ARGS">>

\* Reading accept_stat when the message ends just before it is undefined: the
\* bytes behind the buffer may be any, and a zero makes body_len wrap, which
\* ends in an exception.
Undefined ==
    {Result(s, <<>>) :
        s \in {"PROTO_ERR", "THROW"} \cup {AcceptStatus[i] : i \in 1 .. 4}}

\* The arguments: the message, the verifier's flavour, and the offset of what
\* follows accept_stat.
Success(d, flavor, offset) ==
    IF flavor # AUTH_SYS THEN {Result("OK", From(d, offset))}
    ELSE IF offset + 4 > Size(d) THEN ProtoErr
    ELSE LET past == offset + 4 + RoundUp(read_uint32_be(d, offset))
         IN  IF past > Size(d) THEN ProtoErr ELSE {Result("OK", From(d, past))}

Accepted(d) ==
    LET flavor == read_uint32_be(d, 12)
        offset == 20 + RoundUp(read_uint32_be(d, 16))
        accept_stat == read_uint32_be(d, offset)
    IN  IF offset > Size(d) THEN ProtoErr
        ELSE IF offset + 4 > Size(d) THEN Undefined
        ELSE IF accept_stat = 0 THEN Success(d, flavor, offset + 4)
        ELSE IF accept_stat \in DOMAIN AcceptStatus
             THEN {Result(AcceptStatus[accept_stat], <<>>)}
        ELSE ProtoErr

Denied(d) ==
    LET reject_stat == read_uint32_be(d, 12)
    IN  IF reject_stat = 0 THEN {Result("PROG_MISMATCH", <<>>)}
        ELSE IF reject_stat = 1 THEN {Result("AUTH_ERROR", <<>>)}
        ELSE ProtoErr

parse_reply_unchecked(d, expected_xid) ==
    IF Size(d) < 20 THEN ProtoErr
    ELSE IF read_uint32_be(d, 8) = 0 THEN Accepted(d) ELSE Denied(d)

\* The set of results parse_reply may have: one, where it is defined.
parse_reply(d, expected_xid) ==
    IF Size(d) < 20 THEN ProtoErr
    ELSE IF read_uint32_be(d, 0) # expected_xid THEN ProtoErr
    ELSE IF read_uint32_be(d, 4) # REPLY THEN ProtoErr
    ELSE IF read_uint32_be(d, 8) = 0 THEN Accepted(d)
    ELSE IF read_uint32_be(d, 8) = 1 THEN Denied(d)
    ELSE ProtoErr

-----------------------------------------------------------------------------
(* The server's side, after RFC 5531.                                      *)

Padded(n) == n + ((4 - (n % 4)) % 4)

Replies ==
    [xid : Xids, stat : {0}, flavor : Flavors, verf : VerfBytes,
     astat : Stats, body : Bodies]
    \cup
    [xid : Xids, stat : {1}, rstat : {0, 1}, body : Bodies \ {<<>>}]

\* The words before the results.
Header(r) ==
    IF r.stat = 0
    THEN <<r.xid, REPLY, 0, r.flavor, r.verf>>
            \o [i \in 1..(Padded(r.verf) \div 4) |-> 3] \o <<r.astat>>
    ELSE <<r.xid, REPLY, 1, r.rstat>>
EncodeReply(r) == Header(r) \o r.body

DecodeCall(m) ==
    LET credWords == Padded(m[8]) \div 4
        verf == 9 + credWords
        verfWords == Padded(m[verf + 1]) \div 4
    IN  [xid |-> m[1], prog |-> m[4], vers |-> m[5], proc |-> m[6],
         args |-> SubSeq(m, verf + 2 + verfWords, Len(m))]

\* The AUTH_SYS credential of call m (RFC 5531, 9.2) ends where its length
\* says it does.
CredentialExact(m) ==
    LET name == Padded(m[10]) \div 4
        gids == m[13 + name]
    IN  m[7] = AUTH_SYS /\ m[8] = 4 * (5 + name + gids)

-----------------------------------------------------------------------------
NoReply == [xid |-> 0, stat |-> 2]
NoOut == Result("none", <<>>)

Init ==
    /\ phase = "start"
    /\ req \in [xid : Xids, prog : {3, 5}, vers : {3}, proc : {0, 1},
                args : ArgWords]
    /\ wire = <<>>
    /\ rep = NoReply
    /\ cut = 0
    /\ out = NoOut

Call ==
    /\ phase = "start"
    /\ phase' = "called"
    /\ wire' = build_call(req.xid, req.prog, req.vers, req.proc, req.args)
    /\ UNCHANGED <<req, rep, cut, out>>

Serve ==
    /\ phase = "called"
    /\ phase' = "served"
    /\ rep' \in Replies
    /\ cut' \in 0..Len(EncodeReply(rep'))
    /\ wire' = SubSeq(EncodeReply(rep'), 1, cut')
    /\ UNCHANGED <<req, out>>

Parse ==
    /\ phase = "served"
    /\ phase' = "parsed"
    /\ out' \in parse_reply(wire, req.xid)
    /\ UNCHANGED <<req, wire, rep, cut>>

Next == Call \/ Serve \/ Parse
Spec == Init /\ [][Next]_vars

-----------------------------------------------------------------------------
\* The call that build_call writes (rpc_protocol.hpp:108) is one a server
\* decodes to what the caller asked for: the credential's patched length and
\* the host name's padding agree with what was written.
CallDecodes ==
    phase = "called" => DecodeCall(wire) = req /\ CredentialExact(wire)

Whole == cut = Len(EncodeReply(rep))

\* What RFC 5531 has the client conclude from a reply.
Meaning(r) ==
    IF r.stat = 1
    THEN Result(IF r.rstat = 0 THEN "PROG_MISMATCH" ELSE "AUTH_ERROR", <<>>)
    ELSE IF r.astat = 0 THEN Result("OK", r.body)
    ELSE IF r.astat \in 1..4 THEN Result(AcceptStatus[r.astat], <<>>)
    ELSE Result("PROTO_ERR", <<>>)

\* A success whose verifier has flavour AUTH_SYS, which no server sends (RFC
\* 5531 answers AUTH_SYS with AUTH_NONE or AUTH_SHORT), loses the start of its
\* results: parse_reply skips a second verifier (rpc_protocol.hpp:173).
TakesSecondVerifier(r) == r.stat = 0 /\ r.astat = 0 /\ r.flavor = AUTH_SYS

\* Every complete reply to the call is given its meaning, whatever the length
\* of its verifier, and a reply to another xid never is: parse_reply is exact
\* (rpc_protocol.hpp:130).
ReplyParsed ==
    phase = "parsed" /\ Whole /\ ~TakesSecondVerifier(rep) =>
        out = IF rep.xid = req.xid THEN Meaning(rep)
              ELSE Result("PROTO_ERR", <<>>)

\* A reply cut inside its header is never taken for a success, and one cut in
\* its results only for a success with fewer results.  Undefined is the cut
\* just before accept_stat (rpc_protocol.hpp:133 and :158).
CutReplyNotInvented ==
    phase = "parsed" /\ ~Whole /\ ~TakesSecondVerifier(rep)
      /\ cut # Len(Header(rep)) - 1 /\ out.status = "OK" =>
        /\ rep.xid = req.xid
        /\ cut >= Len(Header(rep))
        /\ rep.stat = 0 /\ rep.astat = 0
        /\ \E n \in 0 .. Len(rep.body) : out.body = SubSeq(rep.body, 1, n)
=============================================================================
