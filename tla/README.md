# Verification of nfstest

nfstest is an NFSv3 test suite. It has a small ONC RPC client of its own
(`simple_rpc`), a C++ test library and its gtest suites (`nfs3_rpc_tests`), and
a C test library and its suites (`nfs3_rpc_tests_c`). Every test stands on the
RPC client: a verdict about a server is worth as much as the client's matching
of replies to calls. The project starts there and follows a verdict upwards:
the codings, the endpoint, the mounter and the fixture, and the C helpers with
what they leave on a server.

## The system

| part | state | operations |
|---|---|---|
| TCP transport, `simple_rpc/src/rpc_transport.cpp` | `fd_` | connect, disconnect, send, recv (record marking), move, destroy |
| message format, `simple_rpc/include/nfstest/rpc_protocol.hpp` | none | `build_call`, `parse_reply` |
| RPC client, `simple_rpc/src/rpc_client.cpp` | transport, `xid_` | connect, disconnect, call, raw_call, move, destroy |
| C API, same file | heap handle, response buffer | connect, disconnect, call, raw_call |
| `RPCEndpoint`, `nfs3_rpc_tests/src/rpc_endpoint.cpp` and its header | `impl_` (a client, or a libtirpc `CLIENT`) | create, call, call_void, shutdown, move |
| `NFS3TestClient`, `nfs3_client.cpp` | endpoint | the 22 procedures |
| `MountClient`, `mount_client.cpp` | client on port 111 | mnt, umnt, list_exports, dump |
| XDR buffer, C++ `xdr_codec.cpp`, C `xdr_codec.c` | bytes, read position (C: capacity) | pack and unpack of each primitive |
| NFSv3 types, three codings: `nfs3_types.hpp`, `nfs3_xdr.cpp` (libtirpc), `nfs3_xdr.c` | none | pack and unpack of each type |
| C type memory, `nfs3_types.c` | owned strings, lists | init, set, destroy |
| C server test helpers, `tests/nfs3_server_test.c` | root handle; files on the server | mount, create, look up, write, remove |
| C test framework, `tests/test_framework.h` | three counters | run, assert, skip, pass, summary |
| gtest fixture, `test_context.hpp` | static root handle, client | SetUp, TearDown |

A test calls a helper or `NFS3TestClient`; that calls the endpoint, which packs
the arguments with an XDR buffer, has the RPC client make the call and unpacks
the result. Nothing in the repository runs concurrently with the client, but
the server does, and so does the network: what makes the code hard is what
arrives in the stream between two steps of a synchronous caller.

What makes each part correct:

* transport: a record is written or read whole or the call fails; descriptors
  have one owner and none leaks; a timeout ends a call;
* message format: a server decodes what was asked; a reply gets its meaning;
* client: a status of the server's goes to the call it was given to; a surplus
  record does harm only as an error; calls return;
* C API and endpoints: one owner per client; a response is freed once;
* endpoint and `NFS3TestClient`: every failure below is an error above, and
  two different failures stay apart where a test relies on it;
* XDR buffers: alignment, no read behind the end, what is packed is unpacked;
* codings: the three agree on the wire, and with RFC 1813;
* helpers and fixture: what a test makes is removed, also when a reply is lost;
* framework: each test is counted once.

## Modules

| module | models |
|---|---|
| `RpcClient` | one client, its transport, its stream and the server |
| `SyncRpc` | what the client promises its caller, and the C++ clients over it to a test |
| `RpcClientProofs` | the theorems about `RpcClient` |
| `RpcProtocol`, `MCRpcProtocol` | `build_call` and `parse_reply`, against RFC 5531 |
| `RpcProtocolProofs` | the theorems about `RpcProtocol` |
| `Handles`, `MCHandles` | who owns descriptors and clients |
| `HandlesProofs` | the theorems about `Handles` |
| `XdrBuffer` | the C++ and the C buffer as state machines |
| `XdrBufferProofs` | the theorems about `XdrBuffer` |
| `XdrWire` | types: the values packed, and how they are unpacked |
| `NfsTypesCpp`, `NfsXdrTirpc`, `NfsXdrC` | the layouts of the three codings |
| `Rfc1813` | those of a server (external) |
| `NfsCodings` | the four together, by coding and procedure |
| `NfsWire`, `MCNfsWire` | a call of each procedure with each coding |
| `NfsWireProofs` | the theorems about `XdrWire` and `NfsWire` |
| `TestClient` | fixture, `MountClient`, `RPCEndpoint` and `NFS3TestClient` over a server |
| `TestClientProofs` | the theorems about `TestClient` |
| `ServerTests`, `MCServerTests` | C test programs with their helpers and counters, over a server |
| `ServerTestsProofs` | the theorems about `ServerTests` |
| `CTypes` | who owns the memory of the C types |
| `CTypesProofs` | the theorems about `CTypes` |

### RpcClient

`connected` is `fd_ >= 0`, `xid` is `xid_`. A call is two steps: `call` (or
`raw_call`) is the code up to `recv()`; `recv` and `recv_fails` are the rest.
Between them `pc` is `"wait"` and the thread is blocked. `peer` is the state of
the socket the kernel shows: `"up"`; `"closed"` after the server's FIN;
`"aborted"` after its RST, with ECONNRESET pending; `"reset"` when writing gives
EPIPE. `send` composes the two writes of `TcpTransport::send`, so the RST may
arrive between them. EPIPE comes with SIGPIPE, which nothing in the repository
ignores or handles; `pc` is then `"dead"`.

The server holds requests in `pending` and replies in any order (`Answer`), more
than once (`AnswerAgainLater`) or in two fragments (`AnswerInFragments`); it
closes or aborts. `inbox` holds the records not yet read. `surplus` counts the
records beyond one per request and `executed` the requests carried out; both
are history and no guard of the client reads them.

A request is identified by its kind and its place among the requests of its
kind on the connection; its xid is data. That is what lets the properties ask
whether the xid identifies the request. Record bodies are reduced to the status
`parse_reply` derives (`RpcProtocol` is about how) and to which part of a reply
the record is.

### RpcProtocol

Messages are sequences of 32-bit words; the caller's request, the server's
decoding, the server's reply, its first fragment and the client's parsing are
successive steps. `parse_reply` is a set of results, because reading
`accept_stat` behind the end of a cut message is undefined; elsewhere the set
has one element. `WordMod` stands for 2^32.

### Handles

Clients are local objects, C handles or the `impl_` of endpoints. `open` is the
process's descriptor table; a descriptor that was closed may be given out
again. `sent` is the largest xid sent on each connection. The numbering stops at
`MaxXid` and does not wrap: `XidFresh`, and its theorem, are about code that
makes fewer than 2^32 calls on a client. The wrap is in `RpcClient`.

### XdrBuffer

`size`, `pos` and `cap` are the buffer's members; contents are reduced to where
each packed value starts, its kind and its length. A writer appends, a reader
takes off, and `astray` says that the two did not agree on kinds or that the
bytes came from the network. Growth by doubling, with a `realloc` that may fail
(`oom`), is in the C buffer's packing.

### NfsWire

Messages are words. A type is a record of two functions: `codes` gives the
values sampled of it, each with the words it is packed as, and `reads` what
unpacking makes of a message. `XdrWire` has the primitive types and the
constructors (options, lists, structures); a module per coding has one
definition per type of its source, built from them. These modules take the types
of `XdrWire` as constants; `NfsCodings` collects their layouts, and `NfsWire` is
given them as its constants `Args` and `Results`. Unpacking gives a set of
outcomes: none where the code throws or returns FALSE, several where it reads
into a local that nobody initialised. The values are parameters: `Ints`, `Texts`
and `Data` are any words and contents, `MaxList` any length; with `Spread` 0 a
word is any of `Ints`, wherever it stands. A server is
either of RFC 1813 or the client's twin, which is what the unit tests exercise.
Lengths are multiples of four here; padding is the matter of `XdrBuffer`.

### TestClient

A file handle is the incarnation of the server that issued it, so that
`Restart` makes every handle stale; 0 is a handle decoded from something else.
A call is two steps, `Invoke` and `Returns` (`MountCall` and `MountReturns`);
between them `pc` is one of `Waiting`, and the server may answer, reject or
restart. `Arrived` is what `SyncRpc` lets the RPC layer return: the reply or a
failure of its own. `build` chooses between the native code and the code over
libtirpc, `port111` what listens on the port that `MountClient` connects to.
Which results are laid out otherwise (`Foreign`) is what `NfsWire` found. `said`
is history: what the server answered to this call.

### ServerTests

Programs repeat the test of `test_nfs3_io_c.c:171`. The file's name is `file`,
process id and second; a handle is the incarnation of a name in the export.
`pc` is the helper a program is in; `Serve` carries its request out, and
`rpc_call_bytes` then returns the reply or fails, in which case a request not
yet carried out may become one of the `orphans` and be carried out at any later
time. `Proceed` is what a test does with a result, with its `goto cleanup`.
Process ids may coincide: programs may run on two hosts. One step stands for
the seven READs that must succeed and one for the two that must not. Both names
of a test are made in the same second; a second that ends between the two is
left out.

### CTypes

A struct is the sequence of its owning members; `own` are their pointers, `heap`
the blocks allocated. A step is one call of set or destroy, or one member of an
unpacking. A local that a failed read leaves unassigned holds any block, NULL or
a wild value. `fault` records that something was freed that was not allocated.

## Runs

| run | result |
|---|---|
| `client` | six properties hold; 32302 states |
| `silent_server` | `CallReturns` fails when the server need not answer |
| `fragmented_reply` | `AcceptedReplyIsWhole` fails |
| `broken_pipe` | `ProcessSurvives` fails |
| `protocol` | three properties hold |
| `handles` | five properties hold |
| `wire` | five properties hold, for 21 procedures and three codings |
| `cpp_interop` | `TypesPerRfc1813` fails in the C++ codings |
| `xdr_buffer` | three properties hold |
| `test_client` | seven properties hold; 181538 states |
| `server_tests` | four properties hold; 602917 states |
| `c_types` | two properties hold; 265674 states |

`client` has three calls and a raw call per connection, xids modulo three, two
connection attempts and one surplus record per connection. That is enough for
the counter to wrap within a connection, for a stale reply to survive the wrap,
for a raw request to carry a colliding xid, for a reconnect with `xid_` kept and
one with it reset, and for a failure at every step. What it cannot show, a
larger xid space or more calls, is proved. It establishes that

* `AcceptedReplyIsMine`: a status of the server's goes to the call it was given
  to. The definition names the two exceptions: a raw request that used the same
  xid, and the continuation of a fragmented reply;
* `InStep`: without surplus records no call reads another's reply;
* `BehindBySurplus`: while the server is up, requests held plus records in the
  stream are the surplus plus the blocked call. A surplus record is never made
  up for: every later call reads the reply of an earlier one, and fails, until
  the client reconnects;
* `ImplementsSyncRpc`: a verified success means that the request of this call
  was carried out, before the call returned. A failure means nothing: the
  request may have been carried out, and may still be;
* `CallReturns`, under weak fairness of `recv` and `recv_fails` (a thread
  blocked in `read()` runs when there is something to read, or an error) and of
  `Answer` (a server that is up answers what it has: the assumption the C
  suite's robustness tests state, "server should either respond or drop
  connection - never hang").

The three violations are disagreements with the repository's documents.
`connect()` makes the socket blocking again, so the `poll()` with `timeout_ms`
in `read_all` is never reached and a silent server blocks the caller: the
fairness of `Answer` is all that makes calls return. `recv()` drops the
last-fragment bit. Writing to a connection the server has closed ends the
process. `PROJECT.json` quotes the documents.

`protocol` enumerates calls with up to two words of arguments, and replies with
every status, verifiers of 0 to 5 bytes (every alignment) and up to two words of
results, cut at every word. Left out of its properties, and said there: a
success with a verifier of flavour AUTH_SYS, which servers do not send and whose
results `parse_reply` shortens, and the message that ends just before
`accept_stat`.

`handles` has three clients, two endpoints, two descriptors and three
connections: enough for a move over a connected client, a descriptor number
reused while a moved-from client is alive, and a failed connect at the limit of
descriptors. Clients, endpoints and descriptors are interchangeable.

`wire` gives each scalar a value of its own (`Spread` is 1 and a word is the
number of its place), so that a field read from another's place shows, each enumeration all its values, directory lists up to two entries,
has every optional part present and absent, and cuts results at every word. It
says exactly, with `<=>`, which arguments and results a server of RFC 1813 and
the client understand alike. The C coding gets all but guarded SETATTR, device
nodes and the result of COMMIT right; the C++ codings lay out attributes to set
and the results with a new handle, data or a verifier in ways of their own. The
round trips hold, which is why unit tests do not see it: `cpp_interop` is the
violation, and `PROJECT.json` quotes the checklist it contradicts. A cut result
is rejected in C++ (`CutResultRejected`); in C it is returned with the server's
status and undefined fields (`CutKeepsStatus`).

`xdr_buffer` has lengths of every alignment and lengths that lie, a minimal
capacity of four bytes so that growth happens at once, and failing allocations.
`InStep` says that padding to the size of the buffer, which the writer does, and
skipping by the length of the value, which the reader does, agree.

`test_client` has two tests, so that the second finds the root handle of the
first, and one restart, at any moment. All 22 procedures are in it, each with
every handle the test could have. It shows that

* `VerdictIsServers`: a value or a `SERVERFAULT` is the server's answer to this
  very call, whatever happens below;
* `BlameIsServers`: the endpoint names a rejection only if the server gave it.
  `PROG_MISMATCH` is the exception, since the code looks for libtirpc's
  `RPC_VERSMISMATCH` and not for `RPC_PROGVERSMISMATCH`;
* `RootFromMountd`: the native build talks MOUNT to port 111; where the
  portmapper is there no test body runs;
* `MountErrorIsServers`: 1 is both `RPC_ERROR` and `PERM`, and all other errors
  are the server's;
* `StaleStays`: a root handle that a restart made stale is never replaced;
* `CallsAreSync`: `NFS3TestClient` and `MountClient` keep towards a test the
  promise of the RPC client, that a call is one exchange, carried out by the
  server at most once and surely if an answer is returned. The refinement
  mapping is `Phase`, `Done` and `Came`; a status of the server's is an answer,
  a value without a call (`dump`) is not one, and TearDown and a new mounter
  forget the latest call;
* `TestProceeds`, under fairness of the fixture's own steps, of `Serve` (as in
  `client`) and of the return of a call whose reply has come or whose connection
  is gone. A test body need not make another call, nor end.

`server_tests` has two programs, two process ids, which may be equal, two
seconds, three tests and one lost call. That is enough for two tests of one
program in one second, for two hosts with one process id, for a request carried
out after the test that made it, and for a death at any call. A second lost call
would take the run past its time; the proofs cover any number. It shows that

* `LeftoverExplained`: what is left in the export was named in a call that
  failed, or its maker died. The cleanup of the tests is complete up to lost
  replies, even where two tests share names;
* `FailureExplained`: a test fails only for a failed call of its own or for
  names that it shares;
* `CountedOnce`: the counters add up, with one exception, which the definition
  states: a test whose mount fails is counted by the assertion in `mount_root`,
  which ends the helper and not the test, and again by its own end;
* `PassIsReal`: a pass means that the server did everything; only the refusal
  to read a directory may be a call that failed.

`c_types` has six blocks and two entries: enough for RENAME's four members and
for two entries with name and handle. `NoLeak` holds also for cut messages,
`FreedOnce` only without them: the unpackers look at no return value.

Deadlock is not checked: a program may stop calling, and the bounds stop it.

Bounds are constants: `MaxCalls`, `MaxRaws`, `MaxSurplus` (per connection),
`MaxConnects`, `MaxConns`, `MaxXid`, `MaxList`, `MaxSize`, `MaxCapacity`,
`MaxDoublings`, `MaxTests`, `MaxEpoch`, `MaxClock`, `MaxLost`, `MaxEntries`.

## Proofs

`RpcClientProofs` proves, for every value of the constants that satisfies
`ConstantsAssumption`:

* `TypeCorrect`, `AcceptedReplies`, `Lockstep`, `StreamAccounting`: the four
  invariants of the run `client`;
* `Refinement`: `Spec` implies `Sync!Spec`.

The assumption that matters is `MaxCalls <= XidSpace`: at most 2^32 calls on a
connection. It is needed, since one more call has the xid of the first.

`AcceptedReplyIsMine` is not inductive: that two calls have different xids is a
fact about the counter, not about the calls. `Numbered(r)` relates them: `xid_`
has been incremented once by `r` and once by each later call, so it is `r.xid`
plus that number, less `XidSpace` after a wrap. Two calls with the same xid
then differ in their numbers by a multiple of `XidSpace`, which is less than
`XidSpace`. `StreamInv` says it of every request the server or the stream
holds, `WaitInv` of the blocked call. `LockInv` is the strengthening for
`InStep`: without surplus, nothing but the current request or its reply is on
its way. `IndInv` is their conjunction; `IndInit`, `IndNext` and `Invariance`
are the three facts, with one lemma per action.

`HandlesProofs` proves the five invariants of the run `handles` for any sets of
clients, endpoints and descriptors and any bounds, from `HandlesAssumption` (-1
is no descriptor, the empty pointer no client). None of `SingleOwner`,
`OpenIsHeld` and `XidFresh` is inductive: they speak of live clients, and a
client constructed where a dead one was must not come by what the dead one held
(`DeadInv`); closing a descriptor must not close another client's (`HoldInv`,
over all clients); a new connection must be one on which nothing was sent
(`ConnInv`). `EndpointInv` adds that an endpoint that does not exist owns
nothing. Every operation closes, moves or makes a descriptor, so the lemmas
`CloseStep`, `MoveStep` and `ConnectStep` carry the argument, and `ClientStep`
and `EndpointStep` apply them action by action.

`RpcProtocolProofs` proves the three invariants of `protocol` for all xids,
flavours, statuses, arguments, results and verifier lengths, and words of any
size above 64, from `ProtocolAssumption` (what is sent are words, and a
verifier's length does not wrap when it is rounded up). The inductive invariant
only says that the message under way is what `build_call` or the server wrote,
cut at `cut` (`Exchange`). The argument is in the lemmas about layouts. The loop
over the host name writes whole words (`HostBytesValue`), so the credential has
the length patched into it (`Credential`) and every word of a call has its place
(`CallLayout`); rounding up as `parse_reply` does it is the padding of RFC 5531
(`RoundUpIsPadded`), so `accept_stat` is where the parser looks
(`AcceptedLayout`, `DeniedLayout`); and a prefix of a message has the message's
words (`Cut`, `CutOfCut`), so a parser that sees a success in a prefix sees the
server's (`DeniedParsed`, `AcceptedParsed`). The loop in `HostBytes` is a
recursive function, and the proof first shows that such a function exists.

`XdrBufferProofs` proves the three invariants of `xdr_buffer` for any lengths,
capacities and received bytes. `Tiled` is the strengthening: packed values lie
one behind the other from 0 to `size`, at multiples of four. That a reader in
step ends at the start of another value needs it, and that padding by size and
by length agree needs the alignment.

`TestClientProofs` proves the four invariants of `test_client`, `StaleStays` and
`CallsAreSync` for both builds and any number of tests and restarts. `Carried`
and `Honest` tie the reply in the stream to what the server said of the call
under way, `Quiet` keeps results of an earlier call away from it, `Reached` says
where a mounter's connection leads, and `Unmounted` that the fixture mounts only
while it has no root handle. The refinement needs besides that the reply is what the
server said, that only one of the two clients has returned something since the
last call, and that `dump` is never under way (`SyncInv`). Each step then begins,
refuses or ends a call, carries it out, forgets it or leaves it alone
(`CallBegins`, `CallReturned`, `Forgotten`, `Aside`); that an answer was carried
out is what `VerdictIsServers` and `MountErrorIsServers` say.

`ServerTestsProofs` proves the four invariants of `server_tests` for any number
of programs, process ids, seconds, tests and lost calls. Its inductive invariant
has a part for each question. `Cleaning`: each name in the export was in a lost
call, or some program is at a place from which it will remove it (`Cleans`).
`Used`: two tests under way with the same process id and second are counted as
two, and a pair never used has no names in the export. `Fine`: a test that
shares its names with nobody and has lost no call finds on the server what it
put there (`Smooth`), so none of its checks fails. `Mine`: what one program
knows of itself, from which `CountedOnce` and `PassIsReal` follow.

`CTypesProofs` proves `NoLeak` and `FreedOnce` for any blocks and lists of any
length. While no message was cut, every pointer owns a block that no other
pointer owns (`Sound`); an unpacker assigns without freeing only where nothing
is held (`Fresh`), because results are destroyed first.

`NfsWireProofs` proves `RoundTrip`, `CutResultRejected` and `CutKeepsStatus` for
all words, names, handles and data and for lists of any length, in the three
codings (the hypothesis `Layouts` of the theorems gives the constants `Args` and
`Results` the values they have in the run). The calls themselves are simple:
`Progress` is the inductive invariant, since the properties speak of what was
packed and of what was unpacked, and only the wire connects the two. The
argument is about types.
`Understands(u, t)` says that `u` reads what `t` packs, whatever follows it, and
takes no part of it for the whole; `Total(t)` that a reader that goes on, as the
C unpackers do, comes to some outcome whatever the words are; `Good(t)` that `t`
reads back what it packs and is total. Each primitive type is good, and each
constructor gives a good type from good ones (`Primitives`, `Composites`,
`StructGood`). Two of these are inductions over data, over the fields of a
structure (`StructRead`, `StructTotal`) and the elements of a list (`ListRead`,
`ListTotal`). The library's induction rules take a predicate, which the provers
cannot instantiate; the lemma `Induction` takes a set of numbers in its place,
and follows from the existence of a least element. A list needs a measure, too:
every element takes its flag from the message, so a reader of `w` is done after
`Most(w)` elements.

The layouts of the 21 procedures then are good because they are built so
(`CppArgs`, `CppRes`, `TirpcArgs`, `TirpcRes`, `CArgs`, `CRes`). What libtirpc's
filters drop is the exception: `Forgets(t, u, p)` says that `t` reads what it
packed as if the value had been packed without what `p` leads to, and is carried
from the dropped list through the three structures around it (`StructForgets`,
`ListingForgets`, `TirpcWrite`). For the status, `Result(t)` says that the first
word of what `t` packs, and of whatever `t` reads, is the status; so a C client
finds the server's in any part that has a first word (`ResultFinds`). TLC has
checked `Progress` on the instance of `wire`; it is no invariant of that run,
which it would make twenty times as long.

Only model-checked: `CallReturns` and `TestProceeds` (liveness under fairness),
and `ArgsUnderstood` and `ResultUnderstood` of `NfsWire`. These two say with
`<=>` which structures are misread by the other side, and whether a misreading
shows depends on the values: a field read from another's place is right by
accident when both hold the same word. They hold for values that are all
different, as in the run, and not for all values.

## Not modelled

* Test cases: straight-line assertions, read as statements of what the code
  should do. `ServerTests` has one of them for the helpers and the counters.
* `nfs3_lookup_name` and `nfs3_read_data`: they change nothing on the server.
* `map_status` and the response buffer of the C API: a renaming, and a block
  that passes to the caller.
* `RPCEndpoint::call` over libtirpc: in that build `NFS3TestClient` uses
  `call_with_xdr` and `call_void`.
* Reading the configuration from the environment and the command line: only its
  outcome (`config`).
* The libtirpc library, scripts and build files, examples.
