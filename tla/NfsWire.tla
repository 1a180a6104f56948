------------------------------ MODULE NfsWire ------------------------------
(***************************************************************************)
(* A call of each NFSv3 procedure, from the client's argument structure to *)
(* its result structure, with each of the repository's three codings: the  *)
(* native C++ one, the libtirpc filters and the C one.  The server either  *)
(* follows RFC 1813 or is the client's twin: it uses the client's own      *)
(* coding, which is how the unit tests exercise the coders.  A reply may   *)
(* be cut, as the client hands on the first fragment of a reply.           *)
(***************************************************************************)
EXTENDS XdrWire

CONSTANTS
    Codings,        \* the codings checked: "native", "tirpc", "c"
    Args(_),        \* the types of the arguments in a coding, by procedure,
    Results(_)      \* and of the results: those of NfsCodings

ASSUME CodingsAssumption == Codings \subseteq {"native", "tirpc", "c"}

VARIABLES
    coding,     \* the client's coding
    server,     \* "rfc" or "twin"
    proc,       \* the procedure
    phase,      \* what has been done
    sent,       \* the structure that was packed last
    wire,       \* its words
    cut,        \* whether wire is a proper prefix of them
    got         \* what the other side unpacked: a set of outcomes

vars == <<coding, server, proc, phase, sent, wire, cut, got>>

Procs == DOMAIN Args("rfc")

ServerCoding == IF server = "rfc" THEN "rfc" ELSE coding
Mode(c) == IF c = "c" THEN "keep" ELSE "fail"

\* The caller of WRITE sets count to the length of its data.
Requests ==
    {c \in Args(coding)[proc].codes[1] :
        proc = "WRITE" => c.v.count = <<4 * Len(c.v.data)>>}

Init ==
    /\ coding \in Codings
    /\ server \in {"rfc", "twin"}
    /\ proc \in Procs
    /\ phase = "idle"
    /\ sent = NoFields
    /\ wire = <<>>
    /\ cut = FALSE
    /\ got = {}

\* The client packs its arguments.
Call ==
    /\ phase = "idle"
    /\ \E c \in Requests :
        /\ sent' = c.v
        /\ wire' = c.words
    /\ phase' = "called"
    /\ UNCHANGED <<coding, server, proc, cut, got>>

\* The server unpacks them.
Serve ==
    /\ phase = "called"
    /\ got' = Args(ServerCoding)[proc].reads[Mode(ServerCoding)][wire]
    /\ phase' = "served"
    /\ UNCHANGED <<coding, server, proc, sent, wire, cut>>

\* The server carries the procedure out; what it was asked is forgotten.
Execute ==
    /\ phase = "served"
    /\ phase' = "executed"
    /\ sent' = NoFields
    /\ wire' = <<>>
    /\ got' = {}
    /\ UNCHANGED <<coding, server, proc, cut>>

\* It packs a result.
Reply ==
    /\ phase = "executed"
    /\ \E c \in Results(ServerCoding)[proc].codes[1] :
        /\ sent' = c.v
        /\ wire' = c.words
    /\ phase' = "replied"
    /\ UNCHANGED <<coding, server, proc, cut, got>>

\* Only the first words of the result reach the client's decoder.
CutShort ==
    /\ phase = "replied"
    /\ ~cut
    /\ \E n \in 0 .. Len(wire) - 1 : wire' = SubSeq(wire, 1, n)
    /\ cut' = TRUE
    /\ UNCHANGED <<coding, server, proc, phase, sent, got>>

\* The client unpacks the result.
Receive ==
    /\ phase = "replied"
    /\ got' = Results(coding)[proc].reads[Mode(coding)][wire]
    /\ phase' = "received"
    /\ UNCHANGED <<coding, server, proc, sent, wire, cut>>

Next == Call \/ Serve \/ Execute \/ Reply \/ CutShort \/ Receive

Spec == Init /\ [][Next]_vars

-----------------------------------------------------------------------------
(* How far a call has got.                                                   *)

Requested == ~cut /\ \E c \in Requests : sent = c.v /\ wire = c.words

Whole(c) == ~cut /\ wire = c.words
Begun(c) == cut /\ \E n \in 0 .. Len(c.words) - 1 : wire = SubSeq(c.words, 1, n)
Answered ==
    \E c \in Results(ServerCoding)[proc].codes[1] :
        sent = c.v /\ (Whole(c) \/ Begun(c))

\* The words on the wire are those of a structure of this procedure, or the
\* first of them, and what was unpacked was read from them.  This is the
\* inductive invariant of NfsWireProofs.
Progress ==
    /\ coding \in Codings /\ server \in {"rfc", "twin"} /\ proc \in Procs
    /\ phase \in {"idle", "called", "served", "executed", "replied", "received"}
    /\ phase \in {"idle", "executed"} => ~cut
    /\ phase \in {"called", "served"} => Requested
    /\ phase = "served" =>
        got = Args(ServerCoding)[proc].reads[Mode(ServerCoding)][wire]
    /\ phase \in {"replied", "received"} => Answered
    /\ phase = "received" =>
        got = Results(coding)[proc].reads[Mode(coding)][wire]

-----------------------------------------------------------------------------
(* What the codings do, and where they part. *)

SattrField ==
    [SETATTR |-> "new_attributes", CREATE |-> "how_attributes",
     MKDIR |-> "attributes", SYMLINK |-> "symlink_attributes",
     MKNOD |-> "what_attributes"]
HasSattr(p) == p \in DOMAIN SattrField

\* The fields the reader has are fields of the writer, with the same values.
Agree(g, s) == \A f \in DOMAIN g : f \in DOMAIN s /\ g[f] = s[f]

ArgsMeant == \E g \in got : got = {g} /\ Agree(g.v, sent)

Arms == {"resok", "resfail"}
ResultMeant ==
    \E g \in got :
        /\ got = {g}
        /\ g.v.status = sent.status
        /\ \A arm \in DOMAIN g.v \cap Arms :
            arm \in DOMAIN sent /\ Agree(g.v[arm], sent[arm])

\* The arguments that RFC 1813 lays out otherwise.
DeviceNode == proc = "MKNOD" /\ sent.what_type = <<4>>
Guarded == proc = "SETATTR" /\ sent.guard # <<>>
Exclusive == proc = "CREATE" /\ sent.how_mode = <<2>>
SetsTime ==
    LET a == sent[SattrField[proc]] IN a.atime # <<>> \/ a.mtime # <<>>
ForeignArgs ==
    CASE coding = "c" -> DeviceNode \/ Guarded
      [] coding = "tirpc" -> \/ DeviceNode \/ Guarded \/ Exclusive
                             \/ HasSattr(proc) /\ SetsTime
      [] coding = "native" -> HasSattr(proc)

\* The results that RFC 1813 lays out otherwise, and those libtirpc's filters
\* lose.
NonemptyList == sent.resok.reply.entries # <<>>
NewObjectProcs == {"CREATE", "MKDIR", "SYMLINK", "MKNOD"}
ForeignResult ==
    /\ sent.status = <<0>>
    /\ CASE coding = "c" -> proc = "COMMIT"
         [] coding = "native" ->
                \/ proc \in NewObjectProcs \cup {"READ", "WRITE", "COMMIT"}
                \/ proc = "READDIRPLUS" /\ NonemptyList
         [] coding = "tirpc" ->
                \/ proc \in NewObjectProcs \cup {"READ", "WRITE", "COMMIT"}
                \/ proc \in {"READDIR", "READDIRPLUS"} /\ NonemptyList

-----------------------------------------------------------------------------
(* Properties. *)

\* A server that follows RFC 1813 reads from a request what the caller put
\* into it, exactly when the request is not one of ForeignArgs: the C coding
\* (nfs3_xdr.c) but for guards and device nodes; libtirpc's filters but also
\* for times and exclusive CREATE; the native coding (nfs3_types.hpp) for the
\* procedures without attributes to set.
ArgsUnderstood ==
    phase = "served" /\ server = "rfc" => (ArgsMeant <=> ~ForeignArgs)

\* The client reads from a result of such a server what the server put into
\* it, field by field, exactly when the result is not one of ForeignResult:
\* errors always; of the results in C all but COMMIT's (nfs3_xdr.c:1121); in
\* C++ not those with a new handle, with data, or a verifier.
ResultUnderstood ==
    phase = "received" /\ server = "rfc" /\ ~cut
        => (ResultMeant <=> ~ForeignResult)

\* Unpacking gives back what the same coding packed, all of it and nothing
\* more (what the unit tests of the coders ask for some types), except that
\* libtirpc's filters drop the data of a decoded WRITE and the entries of a
\* decoded listing (nfs3_xdr.cpp:590, 239).
RoundTrip ==
    server = "twin" /\ ~cut =>
        /\ phase = "served" =>
            \/ got = {Got(sent, <<>>)}
            \/ coding = "tirpc" /\ proc = "WRITE"
               /\ got = {Got([sent EXCEPT !.data = <<>>], <<>>)}
        /\ phase = "received" =>
            \/ got = {Got(sent, <<>>)}
            \/ coding = "tirpc" /\ proc \in {"READDIR", "READDIRPLUS"}
               /\ got = {Got([sent EXCEPT !.resok.reply.entries = <<>>], <<>>)}

\* No cut result is taken for a result in C++: wherever it is cut, some read
\* finds too few bytes, XdrBuffer throws (xdr_codec.cpp:14) or the filter
\* returns FALSE, and the endpoint reports a decoding error.
CutResultRejected ==
    phase = "received" /\ server = "twin" /\ cut /\ coding # "c" => got = {}

\* The C unpackers do not report a short result (nfs3_xdr.c:52): they return a
\* structure whose later fields are zero or undefined.  But the status, once
\* its word has come, is the server's, whatever is missing behind it: an error
\* does not become a success, nor a success an error.
CutKeepsStatus ==
    phase = "received" /\ coding = "c" /\ wire # <<>>
        => got # {} /\ \A g \in got : g.v.status = sent.status

\* For a violation: the arguments and results of every procedure have the
\* types of RFC 1813, as the C++ suite's checklist says.
TypesPerRfc1813 ==
    server = "rfc" /\ ~cut =>
        /\ phase = "served" => ArgsMeant
        /\ phase = "received" => ResultMeant

=============================================================================
