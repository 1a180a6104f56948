-------------------------- MODULE ServerTestsProofs --------------------------
(***************************************************************************)
(* The four invariants of ServerTests for any number of programs, tests,   *)
(* process ids and lost calls: the inductive invariant, its type part,     *)
(* what each step changes, and then part by part that each step keeps it.  *)
(***************************************************************************)
EXTENDS ServerTests, TLAPS

\* Leaves are first-order reasoning; the ones that need arithmetic or records cite SMT.
USE ZenonT(30)

-----------------------------------------------------------------------------
(* The inductive invariant. *)

Requests == [call : Calls, name : Names, root : BOOLEAN, fh : Nat]
Answered == {"none", "OK", "STALE", "ISDIR", "BADHANDLE", "EXIST", "NOENT"}

ServerTypes ==
    /\ clock \in 0 .. MaxClock /\ pid \in [Procs -> Pids]
    /\ export \in [Names -> Nat] /\ born \in [Names -> Nat]
    /\ orphans \subseteq Requests
    /\ uses \in [Pids \X (0 .. MaxClock) -> Nat]

ProgramTypes ==
    /\ pc \in [Procs -> Calls \cup {"idle", "dead"}]
    /\ reply \in [Procs -> [stat : Answered, fh : Nat]]
    /\ second \in [Procs -> 0 .. MaxClock] /\ fh \in [Procs -> Nat]
    /\ root \in [Procs -> BOOLEAN] /\ created \in [Procs -> SUBSET {"file", "dir"}]
    /\ failed \in [Procs -> BOOLEAN] /\ troubled \in [Procs -> BOOLEAN]
    /\ done \in [Procs -> SUBSET Calls] /\ passed \in [Procs -> SUBSET Calls]

CounterTypes ==
    /\ tally \in [Procs -> [passed : Nat, failed : Nat, skipped : Nat]]
    /\ ended \in [Procs -> Nat] /\ unmounted \in [Procs -> Nat]

Types == ServerTypes /\ ProgramTypes /\ CounterTypes

\* Where a program is says what it has made and what has been done for it.
Reached(p) ==
    /\ reply[p] # None => pc[p] \in Calls
    /\ reply[p].stat = "OK" => pc[p] \in done[p] /\ pc[p] # "badread"
    /\ reply[p] # None /\ pc[p] = "badread" => "badread" \in done[p]
    /\ pc[p] = "create" /\ reply[p].stat = "OK" => root[p]
    /\ pc[p] \in {"write", "mkdir", "read", "badread", "rmdir", "remove"} =>
        root[p] /\ "file" \in created[p]
    /\ pc[p] \in {"read", "badread", "rmdir"} => "dir" \in created[p]
    /\ failed[p] => pc[p] \in {"rmdir", "remove", "idle", "dead"}

\* A test on its way to passing has got this far.
Past(p) ==
    /\ pc[p] \in {"write", "mkdir", "read", "badread"} => "create" \in done[p]
    /\ pc[p] \in {"mkdir", "read", "badread"} => "write" \in done[p]
    /\ pc[p] \in {"read", "badread"} => "mkdir" \in done[p]
    /\ pc[p] = "badread" => "read" \in done[p]
    /\ pc[p] \in {"rmdir", "remove"} /\ ~failed[p] =>
        /\ {"create", "write", "mkdir", "read"} \subseteq done[p]
        /\ "badread" \in done[p] \/ troubled[p]

\* CountedOnce and PassIsReal, of one program.
Total(p) == tally[p].passed + tally[p].failed + tally[p].skipped

Counted(p) ==
    Total(p) = ended[p] + unmounted[p] + IF failed[p] /\ pc[p] # "idle" THEN 1 ELSE 0
Real(p) == {"create", "write", "mkdir", "read", "badread"} \subseteq passed[p]
Mine(p) == Reached(p) /\ Past(p) /\ Counted(p) /\ Real(p)

\* Program p will remove n, or died before it could.
Cleans(p, n) ==
    /\ n = unique_name(n[1], p)
    /\ \/ pc[p] = "dead"
       \/ n[1] = "file" /\ (\/ pc[p] = "create" /\ reply[p].stat = "OK"
                            \/ pc[p] \in {"write", "mkdir", "read", "badread", "rmdir"}
                            \/ pc[p] = "remove" /\ reply[p] = None)
       \/ n[1] = "dir" /\ (\/ pc[p] = "mkdir" /\ reply[p].stat = "OK"
                           \/ pc[p] \in {"read", "badread"}
                           \/ pc[p] = "rmdir" /\ reply[p] = None)

Cleaning ==
    /\ \A n \in Names : export[n] # 0 => n \in lossy \/ \E p \in Procs : Cleans(p, n)
    /\ \A r \in orphans : r.name \in lossy

\* A test's names belong to its key; uses counts the tests that had a key.
Key(p) == <<pid[p], second[p]>>
KeyOf(n) == <<n[2], n[3]>>

Used ==
    /\ \A p \in Procs : pc[p] # "idle" => uses[Key(p)] > 0
    /\ \A p, q \in Procs :
        p # q /\ pc[p] # "idle" /\ pc[q] # "idle" /\ Key(p) = Key(q) => uses[Key(p)] > 1
    /\ \A n \in Names : uses[KeyOf(n)] = 0 => export[n] = 0
    /\ \A r \in orphans : uses[KeyOf(r.name)] > 0

\* What a test finds that shares its names with nobody and has lost no call.
Alone(p) == pc[p] \in Calls /\ ~troubled[p] /\ ~Shared(p)
Smooth(p) ==
    LET file == unique_name("file", p)  dir == unique_name("dir", p) IN
    /\ \A r \in orphans : KeyOf(r.name) # Key(p)
    /\ pc[p] \in {"getport", "mnt", "create", "write", "mkdir", "read"} =>
        reply[p] = None \/ reply[p].stat = "OK"
    /\ pc[p] = "create" => root[p]
    /\ pc[p] \in {"getport", "mnt", "create", "write"} => export[dir] = 0
    /\ pc[p] = "mkdir" /\ reply[p] = None => export[dir] = 0
    /\ pc[p] = "create" /\ reply[p] # None => reply[p].fh = export[file] /\ export[file] # 0
    /\ pc[p] \in {"write", "mkdir", "read"} => fh[p] = export[file] /\ export[file] # 0

Fine(p) == (Alone(p) => Smooth(p)) /\ (failed[p] => troubled[p] \/ Shared(p))

IndInv ==
    /\ Types /\ Cleaning /\ Used
    /\ \A p \in Procs : Mine(p) /\ Fine(p)

-----------------------------------------------------------------------------
(* What the steps change. *)

\* A name made by unique_name is one of Names.
LEMMA NameFacts ==
    ASSUME ServerTypes, ProgramTypes, NEW p \in Procs
    PROVE  /\ \A k \in {"file", "dir"} :
                /\ unique_name(k, p) \in Names /\ KeyOf(unique_name(k, p)) = Key(p)
                /\ unique_name(k, p)[1] = k
           /\ unique_name("file", p) # unique_name("dir", p)
           /\ Key(p) \in Pids \X (0 .. MaxClock)
           /\ \A n \in Names : KeyOf(n) \in Pids \X (0 .. MaxClock)
BY DEF ServerTypes, ProgramTypes, unique_name, Names, Key, KeyOf

\* What a program in a call asks of the server is a request.
LEMMA RequestFacts ==
    ASSUME ServerTypes, ProgramTypes, NEW p \in Procs, pc[p] \in Calls
    PROVE  /\ Request(p) \in Requests /\ KeyOf(Request(p).name) = Key(p)
           /\ Request(p).call = pc[p] /\ Request(p).root = root[p] /\ Request(p).fh = fh[p]
           /\ Request(p).name = unique_name(Kind(pc[p]), p)
           /\ Kind(pc[p]) \in {"file", "dir"}
<1>1. Kind(pc[p]) \in {"file", "dir"}
  BY DEF Kind
<1>2. unique_name(Kind(pc[p]), p) \in Names /\ KeyOf(unique_name(Kind(pc[p]), p)) = Key(p)
  BY <1>1, NameFacts
<1>3. root[p] \in BOOLEAN /\ fh[p] \in Nat
  BY DEF ProgramTypes
<1> QED BY <1>1, <1>2, <1>3 DEF Request, Requests

\* When the server says NFS3_OK.
LEMMA StatusFacts ==
    ASSUME NEW r
    PROVE  /\ Status(r) \in Answered \ {"none"}
           /\ r.call = "badread" => Status(r) # "OK"
           /\ r.call \in {"create", "mkdir", "rmdir", "remove"} /\ ~r.root => Status(r) # "OK"
           /\ r.call \in {"getport", "mnt"} => Status(r) = "OK"
           /\ r.call \in {"write", "read"} /\ r.fh # 0 /\ export[r.name] = r.fh =>
                Status(r) = "OK"
           /\ r.call = "create" /\ r.root => Status(r) = "OK"
           /\ r.call = "mkdir" /\ r.root /\ export[r.name] = 0 => Status(r) = "OK"
           /\ r.call \in {"rmdir", "remove"} /\ r.root /\ export[r.name] # 0 =>
                Status(r) = "OK"
BY DEF Status, Answered

\* The server changes one name at most.
LEMMA CarryOutFacts ==
    ASSUME ServerTypes, NEW r \in Requests, CarryOut(r)
    PROVE  /\ export' \in [Names -> Nat] /\ born' \in [Names -> Nat]
           /\ \A n \in Names : n # r.name => export'[n] = export[n]
           /\ r.call \in {"create", "mkdir"} =>
                export'[r.name] # 0 \/ (Status(r) # "OK" /\ export' = export)
           /\ r.call \in {"create", "mkdir"} /\ export[r.name] # 0 => export' = export
           /\ r.call \in {"rmdir", "remove"} /\ r.root => export'[r.name] = 0
           /\ r.call \notin {"create", "mkdir"} /\ export'[r.name] # 0 => export' = export
           /\ r.call \notin {"create", "mkdir", "rmdir", "remove"} => export' = export
<1>1. r.name \in Names /\ r.call \in Calls
  BY DEF Requests
<1>2. CASE Status(r) # "OK"
  <2>1. export' = export /\ born' = born
    BY <1>2 DEF CarryOut
  <2>2. r.call \in {"rmdir", "remove"} /\ r.root => export[r.name] = 0
    BY <1>2, StatusFacts
  <2> QED BY <1>2, <2>1, <2>2 DEF ServerTypes
<1>3. CASE Status(r) = "OK" /\ r.call \in {"create", "mkdir"} /\ export[r.name] = 0
  <2>1. /\ born' = [born EXCEPT ![r.name] = @ + 1]
        /\ export' = [export EXCEPT ![r.name] = born[r.name] + 1]
    BY <1>3 DEF CarryOut
  <2>2. born[r.name] \in Nat
    BY <1>1 DEF ServerTypes
  <2> QED BY <1>1, <1>3, <2>1, <2>2, SMTT(30) DEF ServerTypes
<1>4. CASE Status(r) = "OK" /\ r.call \in {"rmdir", "remove"}
  <2>1. export' = [export EXCEPT ![r.name] = 0] /\ born' = born
    BY <1>4 DEF CarryOut
  <2> QED BY <1>1, <1>4, <2>1 DEF ServerTypes
<1>5. CASE /\ Status(r) = "OK" /\ r.call \notin {"rmdir", "remove"}
           /\ ~(r.call \in {"create", "mkdir"} /\ export[r.name] = 0)
  <2>1. export' = export /\ born' = born
    BY <1>5 DEF CarryOut
  <2> QED BY <1>5, <2>1 DEF ServerTypes
<1> QED BY <1>2, <1>3, <1>4, <1>5

\* What a helper's call does: its reply is read, or it is lost.
Received(p, stat) ==
    /\ stat = reply[p].stat /\ reply[p] # None
    /\ UNCHANGED <<orphans, lossy, troubled>>
Given_up(p, stat) ==
    /\ stat = "RPC"
    /\ orphans' \in {orphans, orphans \cup {Request(p)}}
    /\ lossy' = lossy \cup {Request(p).name}
    /\ troubled' = [troubled EXCEPT ![p] = TRUE]

\* rpc_call_bytes either hands on the server's reply or gives up.
LEMMA CallFacts ==
    ASSUME NEW p \in Procs, NEW stat \in Stats, rpc_call_bytes(p, stat)
    PROVE  /\ reply' = [reply EXCEPT ![p] = None]
           /\ Received(p, stat) \/ Given_up(p, stat)
BY DEF rpc_call_bytes, Received, Given_up

\* The steps of the test between mounting and the end, as a table: the call, what
\* comes next, what is then reported as made, whether the test fails.
Row(p, stat, next, made, fails) ==
    \/ /\ pc[p] = "create" /\ next = "write" /\ fails = (stat # "OK")
       /\ made = IF stat = "OK" THEN {"file"} ELSE {}
       /\ fh' = [fh EXCEPT ![p] = IF stat = "OK" THEN reply[p].fh ELSE @]
    \/ /\ pc[p] = "write" /\ next = "mkdir" /\ fails = (stat # "OK")
       /\ made = created[p] /\ fh' = fh
    \/ /\ pc[p] = "mkdir" /\ next = "read" /\ fails = (stat # "OK")
       /\ made = IF stat = "OK" THEN {"file", "dir"} ELSE {"file"}
       /\ fh' = fh
    \/ /\ pc[p] = "read" /\ next = "badread" /\ fails = (stat # "OK")
       /\ made = created[p] /\ fh' = fh
    \/ /\ pc[p] = "badread" /\ next = "rmdir" /\ fails = (stat = "OK")
       /\ made = created[p] /\ fh' = fh
    \/ /\ pc[p] = "rmdir" /\ next = "remove" /\ fails = FALSE
       /\ made = created[p] /\ fh' = fh
    \/ /\ pc[p] = "remove" /\ next = "idle" /\ fails = FALSE
       /\ made = created[p] /\ fh' = fh

HelperCall(p) ==
    \/ create_test_file(p) \/ write_data(p) \/ create_test_dir(p) \/ read_data(p)
    \/ read_dir(p) \/ rmdir_test_dir(p) \/ remove_test_file(p)

HelperStep(p, stat, next, made, fails) ==
    /\ rpc_call_bytes(p, stat) /\ Row(p, stat, next, made, fails)
    /\ Proceed(p, next, made, fails)
    /\ UNCHANGED <<clock, pid, export, born, second, root, unmounted, uses, done>>

\* Each helper of nfs3_server_test.c is a HelperStep.
LEMMA HelperSteps ==
    ASSUME ProgramTypes, NEW p \in Procs, HelperCall(p)
    PROVE  \E stat \in Stats, next \in Calls \cup {"idle"},
              made \in SUBSET {"file", "dir"}, fails \in BOOLEAN :
                HelperStep(p, stat, next, made, fails)
<1>0. created[p] \in SUBSET {"file", "dir"}
  BY DEF ProgramTypes
<1>1. CASE create_test_file(p)
  <2>1. PICK stat \in Stats :
          /\ Helper(p, "create", stat)
          /\ Proceed(p, "write", IF stat = "OK" THEN {"file"} ELSE {}, stat # "OK")
          /\ fh' = [fh EXCEPT ![p] = IF stat = "OK" THEN reply[p].fh ELSE @]
    BY <1>1 DEF create_test_file
  <2>2. HelperStep(p, stat, "write", IF stat = "OK" THEN {"file"} ELSE {}, stat # "OK")
    BY <2>1 DEF HelperStep, Row, Helper
  <2>3. "write" \in Calls
    BY DEF Calls
  <2> QED BY <2>2, <2>3
<1>2. CASE write_data(p)
  <2>1. PICK stat \in Stats :
          /\ Helper(p, "write", stat)
          /\ Proceed(p, "mkdir", created[p], stat # "OK") /\ fh' = fh
    BY <1>2 DEF write_data
  <2>2. HelperStep(p, stat, "mkdir", created[p], stat # "OK") /\ "mkdir" \in Calls
    BY <2>1 DEF HelperStep, Row, Helper, Calls
  <2> QED BY <1>0, <2>2
<1>3. CASE create_test_dir(p)
  <2>1. PICK stat \in Stats :
          /\ Helper(p, "mkdir", stat)
          /\ Proceed(p, "read", IF stat = "OK" THEN {"file", "dir"} ELSE {"file"},
                     stat # "OK")
          /\ fh' = fh
    BY <1>3 DEF create_test_dir
  <2>2. /\ HelperStep(p, stat, "read", IF stat = "OK" THEN {"file", "dir"} ELSE {"file"},
                      stat # "OK")
        /\ "read" \in Calls
    BY <2>1 DEF HelperStep, Row, Helper, Calls
  <2> QED BY <2>2
<1>4. CASE read_data(p)
  <2>1. PICK stat \in Stats :
          /\ Helper(p, "read", stat)
          /\ Proceed(p, "badread", created[p], stat # "OK") /\ fh' = fh
    BY <1>4 DEF read_data
  <2>2. HelperStep(p, stat, "badread", created[p], stat # "OK") /\ "badread" \in Calls
    BY <2>1 DEF HelperStep, Row, Helper, Calls
  <2> QED BY <1>0, <2>2
<1>5. CASE read_dir(p)
  <2>1. PICK stat \in Stats :
          /\ Helper(p, "badread", stat)
          /\ Proceed(p, "rmdir", created[p], stat = "OK") /\ fh' = fh
    BY <1>5 DEF read_dir
  <2>2. HelperStep(p, stat, "rmdir", created[p], stat = "OK") /\ "rmdir" \in Calls
    BY <2>1 DEF HelperStep, Row, Helper, Calls
  <2> QED BY <1>0, <2>2
<1>6. CASE rmdir_test_dir(p)
  <2>1. PICK stat \in Stats :
          Helper(p, "rmdir", stat) /\ Proceed(p, "remove", created[p], FALSE) /\ fh' = fh
    BY <1>6 DEF rmdir_test_dir
  <2>2. HelperStep(p, stat, "remove", created[p], FALSE) /\ "remove" \in Calls
    BY <2>1 DEF HelperStep, Row, Helper, Calls
  <2> QED BY <1>0, <2>2
<1>7. CASE remove_test_file(p)
  <2>1. PICK stat \in Stats :
          Helper(p, "remove", stat) /\ Proceed(p, "idle", created[p], FALSE) /\ fh' = fh
    BY <1>7 DEF remove_test_file
  <2>2. HelperStep(p, stat, "idle", created[p], FALSE)
    BY <2>1 DEF HelperStep, Row, Helper
  <2> QED BY <1>0, <2>2
<1> QED BY <1>1, <1>2, <1>3, <1>4, <1>5, <1>6, <1>7 DEF HelperCall

\* A step of one program leaves the others' variables alone.
Others(p) ==
    \A q \in Procs \ {p} :
        /\ pc'[q] = pc[q] /\ reply'[q] = reply[q] /\ second'[q] = second[q]
        /\ root'[q] = root[q] /\ created'[q] = created[q] /\ fh'[q] = fh[q]
        /\ failed'[q] = failed[q] /\ troubled'[q] = troubled[q] /\ done'[q] = done[q]
        /\ tally'[q] = tally[q] /\ ended'[q] = ended[q]
        /\ unmounted'[q] = unmounted[q] /\ passed'[q] = passed[q]

HelperEffect(p, stat, next, made, fails) ==
    /\ pc[p] \in Calls /\ (Received(p, stat) \/ Given_up(p, stat))
    /\ pc'[p] = IF fails THEN Cleanup(made, fails) ELSE next
    /\ pc'[p] \in Calls \cup {"idle"}
    /\ reply'[p] = None /\ created'[p] = made
    /\ failed'[p] <=> (failed[p] \/ fails)
    /\ second'[p] = second[p] /\ root'[p] = root[p] /\ done'[p] = done[p]
    /\ unmounted'[p] = unmounted[p]
    /\ Others(p)

\* What a HelperStep does to the program that takes it and to others.
LEMMA HelperFacts ==
    ASSUME Types, NEW p \in Procs, NEW stat \in Stats, NEW next \in Calls \cup {"idle"},
           NEW made \in SUBSET {"file", "dir"}, NEW fails \in BOOLEAN,
           HelperStep(p, stat, next, made, fails)
    PROVE  HelperEffect(p, stat, next, made, fails)
<1> USE DEF Types, ProgramTypes, CounterTypes
<1>1. reply' = [reply EXCEPT ![p] = None] /\ (Received(p, stat) \/ Given_up(p, stat))
  BY CallFacts DEF HelperStep
<1>2. /\ pc' = [pc EXCEPT ![p] = IF fails THEN Cleanup(made, fails) ELSE next]
      /\ created' = [created EXCEPT ![p] = made]
      /\ failed' = [failed EXCEPT ![p] = @ \/ fails]
      /\ \A q \in Procs \ {p} :
            tally'[q] = tally[q] /\ ended'[q] = ended[q] /\ passed'[q] = passed[q]
  BY DEF HelperStep, Proceed
<1>3. UNCHANGED <<second, root, unmounted, done>>
  BY DEF HelperStep
<1>4. pc[p] \in Calls
  BY DEF HelperStep, Row, Calls
<1>5. \A q \in Procs \ {p} : fh'[q] = fh[q]
  BY DEF HelperStep, Row
<1>6. \A q \in Procs \ {p} : troubled'[q] = troubled[q]
  BY <1>1 DEF Received, Given_up
<1>7. Cleanup(made, fails) \in Calls \cup {"idle"}
  BY DEF Cleanup, Calls
<1>8. failed'[p] <=> (failed[p] \/ fails)
  BY <1>2
<1>9. \A q \in Procs \ {p} : failed'[q] = failed[q]
  BY <1>2
<1> QED BY <1>1, <1>2, <1>3, <1>4, <1>5, <1>6, <1>7, <1>8, <1>9 DEF Others, HelperEffect

-----------------------------------------------------------------------------
(* Types. *)

\* rpc_call_bytes keeps the types of what it changes.
LEMMA CallTypes ==
    ASSUME ServerTypes, ProgramTypes, NEW p \in Procs, pc[p] \in Calls, NEW stat \in Stats,
           rpc_call_bytes(p, stat)
    PROVE  /\ reply' \in [Procs -> [stat : Answered, fh : Nat]]
           /\ orphans' \subseteq Requests
           /\ troubled' \in [Procs -> BOOLEAN]
<1>1. None \in [stat : Answered, fh : Nat]
  BY DEF None, Answered
<1>2. reply' \in [Procs -> [stat : Answered, fh : Nat]]
  BY <1>1, CallFacts DEF ProgramTypes
<1>3. CASE Received(p, stat)
  BY <1>2, <1>3 DEF Received, ServerTypes, ProgramTypes
<1>4. CASE Given_up(p, stat)
  <2>1. Request(p) \in Requests
    BY RequestFacts
  <2> QED BY <1>2, <1>4, <2>1 DEF Given_up, ServerTypes, ProgramTypes
<1> QED BY <1>3, <1>4, CallFacts

\* The initial state has the types.
LEMMA TypesInit == Init => Types
<1> SUFFICES ASSUME Init PROVE Types
  OBVIOUS
<1>1. ServerTypes
  BY ServerTestsAssumption, SMTT(30) DEF Init, ServerTypes
<1>2. None \in [stat : Answered, fh : Nat]
  BY DEF None, Answered
<1>3. ProgramTypes
  BY <1>2, ServerTestsAssumption, SMTT(30) DEF Init, ProgramTypes
<1>4. CounterTypes
  BY DEF Init, CounterTypes
<1> QED BY <1>1, <1>3, <1>4 DEF Types

\* RUN_TEST keeps the types.
LEMMA RunTypes ==
    ASSUME Types, NEW p \in Procs, RUN_TEST(p) PROVE Types'
<1> USE DEF Types
<1>1. ServerTypes'
  <2>1. UNCHANGED server
    BY DEF RUN_TEST
  <2>2. CASE config = "set"
    <3>1. uses' = [uses EXCEPT ![<<pid[p], clock>>] = @ + 1]
      BY <2>2 DEF RUN_TEST
    <3>2. <<pid[p], clock>> \in Pids \X (0 .. MaxClock)
      BY DEF ServerTypes
    <3>3. uses' \in [Pids \X (0 .. MaxClock) -> Nat]
      BY <3>1, <3>2, SMTT(30) DEF ServerTypes
    <3> QED BY <2>1, <3>3 DEF server, ServerTypes
  <2>3. CASE config # "set"
    <3>1. uses' = uses
      BY <2>3 DEF RUN_TEST
    <3> QED BY <2>1, <3>1 DEF server, ServerTypes
  <2> QED BY <2>2, <2>3
<1>2. ProgramTypes'
  <2>1. pc' \in [Procs -> Calls \cup {"idle", "dead"}] /\ second' \in [Procs -> 0 .. MaxClock]
    <3>1. CASE config = "set"
      BY <3>1 DEF RUN_TEST, ProgramTypes, ServerTypes, Calls
    <3>2. CASE config # "set"
      BY <3>2 DEF RUN_TEST, ProgramTypes
    <3> QED BY <3>1, <3>2
  <2>2. UNCHANGED <<reply, passed>> /\ fh' \in [Procs -> Nat] /\ root' \in [Procs -> BOOLEAN]
    BY DEF RUN_TEST, ProgramTypes
  <2>3. created' \in [Procs -> SUBSET {"file", "dir"}] /\ done' \in [Procs -> SUBSET Calls]
    BY DEF RUN_TEST, ProgramTypes
  <2>4. failed' \in [Procs -> BOOLEAN] /\ troubled' \in [Procs -> BOOLEAN]
    BY DEF RUN_TEST, ProgramTypes
  <2> QED BY <2>1, <2>2, <2>3, <2>4 DEF ProgramTypes
<1>3. CounterTypes'
  BY SMTT(30) DEF RUN_TEST, CounterTypes
<1> QED BY <1>1, <1>2, <1>3

\* nfs3_mount_root keeps the types.
LEMMA MountTypes ==
    ASSUME Types, NEW p \in Procs, mount_root(p) PROVE Types'
<1> USE DEF Types
<1>1. PICK stat \in Stats :
        /\ pc[p] \in {"getport", "mnt"} /\ rpc_call_bytes(p, stat)
        /\ IF stat = "OK" /\ pc[p] = "getport"
           THEN /\ pc' = [pc EXCEPT ![p] = "mnt"]
                /\ UNCHANGED <<root, tally, unmounted>>
           ELSE /\ pc' = [pc EXCEPT ![p] = "create"]
                /\ root' = [root EXCEPT ![p] = stat = "OK"]
                /\ IF stat = "OK" THEN UNCHANGED <<tally, unmounted>>
                   ELSE /\ tally' = [tally EXCEPT ![p].failed = @ + 1]
                        /\ unmounted' = [unmounted EXCEPT ![p] = @ + 1]
        /\ UNCHANGED <<clock, pid, export, born, second, created, fh, failed,
                       ended, uses, done, passed>>
  BY DEF mount_root
<1>2. pc[p] \in Calls
  BY <1>1 DEF Calls
<1>3. ServerTypes'
  BY <1>1, <1>2, CallTypes DEF ServerTypes
<1>4. pc' \in [Procs -> Calls \cup {"idle", "dead"}] /\ root' \in [Procs -> BOOLEAN]
  BY <1>1 DEF ProgramTypes, Calls
<1>5. ProgramTypes'
  BY <1>1, <1>2, <1>4, CallTypes DEF ProgramTypes
<1>6. CounterTypes'
  <2>1. CASE UNCHANGED <<tally, unmounted>>
    BY <1>1, <2>1 DEF CounterTypes
  <2>2. CASE /\ tally' = [tally EXCEPT ![p].failed = @ + 1]
             /\ unmounted' = [unmounted EXCEPT ![p] = @ + 1]
    <3>1. unmounted' \in [Procs -> Nat] /\ ended' \in [Procs -> Nat]
      BY <1>1, <2>2, SMTT(30) DEF CounterTypes
    <3>2. tally' \in [Procs -> [passed : Nat, failed : Nat, skipped : Nat]]
      BY <2>2, SMTT(30) DEF CounterTypes
    <3> QED BY <3>1, <3>2 DEF CounterTypes
  <2> QED BY <1>1, <2>1, <2>2
<1> QED BY <1>3, <1>5, <1>6

\* The helpers keep the types.
LEMMA HelperTypes ==
    ASSUME Types, NEW p \in Procs, NEW stat \in Stats, NEW next \in Calls \cup {"idle"},
           NEW made \in SUBSET {"file", "dir"}, NEW fails \in BOOLEAN,
           HelperStep(p, stat, next, made, fails)
    PROVE  Types'
<1>0. pc[p] \in Calls /\ pc'[p] \in Calls \cup {"idle"}
  <2>1. HelperEffect(p, stat, next, made, fails)
    BY HelperFacts
  <2> QED BY <2>1 DEF HelperEffect
<1> USE DEF Types
<1>1. pc[p] \in Calls
  BY <1>0
<1>2. ServerTypes'
  BY <1>1, CallTypes DEF HelperStep, ServerTypes
<1>3. pc' \in [Procs -> Calls \cup {"idle", "dead"}]
  <2>1. pc' = [pc EXCEPT ![p] = pc'[p]]
    BY DEF HelperStep, Proceed, ProgramTypes
  <2> QED BY <1>0, <2>1 DEF ProgramTypes
<1>4. failed' \in [Procs -> BOOLEAN] /\ created' \in [Procs -> SUBSET {"file", "dir"}]
  BY DEF HelperStep, Proceed, ProgramTypes
<1>5. fh' \in [Procs -> Nat]
  BY DEF HelperStep, Row, ProgramTypes
<1>6. passed' \in [Procs -> SUBSET Calls]
  <2>1. "badread" \in Calls
    BY DEF Calls
  <2> QED BY <2>1 DEF HelperStep, Proceed, ProgramTypes
<1>7. ProgramTypes'
  BY <1>1, <1>3, <1>4, <1>5, <1>6, CallTypes DEF HelperStep, ProgramTypes
<1>8. CounterTypes'
  <2>1. ended' \in [Procs -> Nat] /\ unmounted' \in [Procs -> Nat]
    BY SMTT(30) DEF HelperStep, Proceed, CounterTypes
  <2>2. PICK pass \in {0, 1} :
          tally' = [tally EXCEPT ![p].failed = @ + IF fails THEN 1 ELSE 0,
                                 ![p].passed = @ + pass]
    <3> DEFINE step == IF fails THEN Cleanup(made, fails) ELSE next
               pass == IF step = "idle" THEN TEST_PASS(p, fails) ELSE 0
    <3>1. pass \in {0, 1}
      BY DEF TEST_PASS
    <3>2. tally' = [tally EXCEPT ![p].failed = @ + IF fails THEN 1 ELSE 0,
                                 ![p].passed = @ + pass]
      BY DEF HelperStep, Proceed
    <3> QED BY <3>1, <3>2
  <2> DEFINE T == [passed : Nat, failed : Nat, skipped : Nat]
             t == [tally EXCEPT ![p].failed = @ + IF fails THEN 1 ELSE 0]
  <2>3. t \in [Procs -> T]
    BY SMTT(30) DEF CounterTypes
  <2>4. tally' = [t EXCEPT ![p].passed = @ + pass]
    BY <2>2 DEF CounterTypes
  <2> HIDE DEF t
  <2>5. tally' \in [Procs -> T]
    BY <2>3, <2>4, SMTT(30)
  <2> QED BY <2>1, <2>5 DEF CounterTypes
<1> QED BY <1>2, <1>7, <1>8

\* The server's answers keep the types.
LEMMA ServeTypes ==
    ASSUME Types, NEW p \in Procs, Serve(p) PROVE Types'
<1> USE DEF Types
<1>1. /\ pc[p] \in Calls /\ reply[p] = None /\ CarryOut(Request(p))
      /\ reply' = [reply EXCEPT ![p] = [stat |-> Status(Request(p)),
                                        fh |-> export'[Request(p).name]]]
      /\ done' = [done EXCEPT ![p] = IF Status(Request(p)) = "OK" \/ pc[p] = "badread"
                                     THEN @ \cup {pc[p]} ELSE @]
      /\ UNCHANGED <<clock, pid, orphans, pc, locals, tally, ended, unmounted, uses,
                     troubled, passed>>
  BY DEF Serve
<1>2. export' \in [Names -> Nat] /\ born' \in [Names -> Nat] /\ Request(p).name \in Names
  BY <1>1, CarryOutFacts, RequestFacts DEF Requests
<1>3. ServerTypes'
  BY <1>1, <1>2 DEF ServerTypes
<1>4. reply' \in [Procs -> [stat : Answered, fh : Nat]]
  <2>1. [stat |-> Status(Request(p)), fh |-> export'[Request(p).name]]
            \in [stat : Answered, fh : Nat]
    BY <1>2, StatusFacts
  <2>2. reply \in [Procs -> [stat : Answered, fh : Nat]]
    BY DEF ProgramTypes
  <2> QED BY <1>1, <2>1, <2>2
<1>5. ProgramTypes'
  BY <1>1, <1>4 DEF ProgramTypes, locals
<1>6. CounterTypes'
  BY <1>1 DEF CounterTypes
<1> QED BY <1>3, <1>5, <1>6

\* A late request, a death and the clock keep the types.
LEMMA OtherTypes ==
    ASSUME Types, \/ \E p \in Procs : Dies(p)
                  \/ \E r \in orphans : ServeLate(r)
                  \/ Tick
                  \/ UNCHANGED vars
    PROVE  Types'
<1> USE DEF Types
<1>1. ASSUME NEW p \in Procs, Dies(p) PROVE Types'
  BY <1>1 DEF Dies, server, locals, history, ServerTypes, ProgramTypes, CounterTypes
<1>2. ASSUME NEW r \in orphans, ServeLate(r) PROVE Types'
  <2>1. r \in Requests /\ CarryOut(r)
    BY <1>2 DEF ServerTypes, ServeLate
  <2>2. export' \in [Names -> Nat] /\ born' \in [Names -> Nat]
    BY <2>1, CarryOutFacts
  <2> QED BY <1>2, <2>2
       DEF ServeLate, locals, history, ServerTypes, ProgramTypes, CounterTypes
<1>3. CASE Tick
  BY <1>3, ServerTestsAssumption, SMTT(30)
  DEF Tick, locals, history, ServerTypes, ProgramTypes, CounterTypes
<1>4. CASE UNCHANGED vars
  BY <1>4 DEF vars, server, locals, history, ServerTypes, ProgramTypes, CounterTypes
<1> QED BY <1>1, <1>2, <1>3, <1>4

-----------------------------------------------------------------------------
(* The other steps, program by program. *)

RunStep(p) ==
    /\ pc[p] = "idle" /\ reply'[p] = reply[p]
    /\ \/ /\ pc'[p] = "getport" /\ second'[p] = clock
          /\ uses' = [uses EXCEPT ![<<pid[p], clock>>] = @ + 1]
          /\ tally'[p] = tally[p] /\ ended'[p] = ended[p]
       \/ /\ pc'[p] = "idle" /\ second'[p] = second[p] /\ uses' = uses
          /\ Total(p)' = Total(p) + 1 /\ ended'[p] = ended[p] + 1
    /\ ~root'[p] /\ created'[p] = {} /\ ~failed'[p] /\ ~troubled'[p] /\ done'[p] = {}
    /\ unmounted'[p] = unmounted[p] /\ passed'[p] = passed[p]
    /\ Others(p) /\ UNCHANGED <<pid, export, orphans, lossy>>

\* RUN_TEST is a RunStep.
LEMMA RunFacts ==
    ASSUME Types, NEW p \in Procs, RUN_TEST(p) PROVE RunStep(p)
<1> USE DEF Types
<1>1. Others(p)
  BY DEF RUN_TEST, Others, ProgramTypes, CounterTypes
<1>2. /\ pc[p] = "idle" /\ reply'[p] = reply[p]
      /\ ~root'[p] /\ created'[p] = {} /\ ~failed'[p] /\ ~troubled'[p] /\ done'[p] = {}
      /\ unmounted'[p] = unmounted[p] /\ passed'[p] = passed[p]
      /\ UNCHANGED <<pid, export, orphans, lossy>>
  BY DEF RUN_TEST, ProgramTypes, server
<1>3. CASE config = "set"
  <2>1. /\ pc'[p] = "getport" /\ second'[p] = clock
        /\ uses' = [uses EXCEPT ![<<pid[p], clock>>] = @ + 1]
        /\ tally'[p] = tally[p] /\ ended'[p] = ended[p]
    BY <1>3 DEF RUN_TEST, ProgramTypes
  <2> QED BY <1>1, <1>2, <2>1 DEF RunStep
<1>4. CASE config # "set"
  <2>1. /\ pc'[p] = "idle" /\ second'[p] = second[p] /\ uses' = uses
        /\ ended'[p] = ended[p] + 1
    BY <1>2, <1>4 DEF RUN_TEST, CounterTypes
  <2>2. /\ tally[p].passed \in Nat /\ tally[p].failed \in Nat /\ tally[p].skipped \in Nat
    BY DEF CounterTypes
  <2>3. \/ tally' = [tally EXCEPT ![p].failed = @ + 1]
        \/ tally' = [tally EXCEPT ![p].skipped = @ + 1]
    BY <1>4 DEF RUN_TEST
  <2>4. Total(p)' = Total(p) + 1
    <3>1. CASE tally' = [tally EXCEPT ![p].failed = @ + 1]
      BY <2>2, <3>1, SMTT(30) DEF Total, CounterTypes
    <3>2. CASE tally' = [tally EXCEPT ![p].skipped = @ + 1]
      BY <2>2, <3>2, SMTT(30) DEF Total, CounterTypes
    <3> QED BY <2>3, <3>1, <3>2
  <2> QED BY <1>1, <1>2, <2>1, <2>4 DEF RunStep
<1> QED BY <1>3, <1>4

MountStep(p, stat) ==
    /\ pc[p] \in {"getport", "mnt"} /\ pc'[p] \in {"mnt", "create"}
    /\ (Received(p, stat) \/ Given_up(p, stat)) /\ reply'[p] = None
    /\ stat = "OK" /\ pc'[p] = "create" => root'[p]
    /\ pc'[p] = "mnt" => stat = "OK"
    /\ Total(p)' - Total(p) = unmounted'[p] - unmounted[p]
    /\ second'[p] = second[p] /\ created'[p] = created[p] /\ failed'[p] = failed[p]
    /\ done'[p] = done[p] /\ ended'[p] = ended[p] /\ passed'[p] = passed[p]
    /\ Others(p) /\ UNCHANGED <<pid, export, uses>>

\* nfs3_mount_root is a MountStep.
LEMMA MountFacts ==
    ASSUME Types, NEW p \in Procs, mount_root(p) PROVE \E stat \in Stats : MountStep(p, stat)
<1> USE DEF Types
<1>1. PICK stat \in Stats :
        /\ pc[p] \in {"getport", "mnt"} /\ rpc_call_bytes(p, stat)
        /\ IF stat = "OK" /\ pc[p] = "getport"
           THEN /\ pc' = [pc EXCEPT ![p] = "mnt"]
                /\ UNCHANGED <<root, tally, unmounted>>
           ELSE /\ pc' = [pc EXCEPT ![p] = "create"]
                /\ root' = [root EXCEPT ![p] = stat = "OK"]
                /\ IF stat = "OK" THEN UNCHANGED <<tally, unmounted>>
                   ELSE /\ tally' = [tally EXCEPT ![p].failed = @ + 1]
                        /\ unmounted' = [unmounted EXCEPT ![p] = @ + 1]
        /\ UNCHANGED <<clock, pid, export, born, second, created, fh, failed,
                       ended, uses, done, passed>>
  BY DEF mount_root
<1>2. /\ reply' = [reply EXCEPT ![p] = None]
      /\ Received(p, stat) \/ Given_up(p, stat)
  BY <1>1, CallFacts
<1>3. \A q \in Procs \ {p} : troubled'[q] = troubled[q]
  BY <1>2 DEF Received, Given_up, ProgramTypes
<1>4. \A q \in Procs \ {p} :
        /\ pc'[q] = pc[q] /\ reply'[q] = reply[q] /\ root'[q] = root[q]
        /\ tally'[q] = tally[q] /\ unmounted'[q] = unmounted[q]
  BY <1>1, <1>2, SMTT(30) DEF ProgramTypes, CounterTypes
<1>5. Others(p)
  BY <1>1, <1>3, <1>4 DEF Others
<1>6. /\ tally[p].passed \in Nat /\ tally[p].failed \in Nat /\ tally[p].skipped \in Nat
      /\ unmounted[p] \in Nat
  BY DEF CounterTypes
<1>7. Total(p)' - Total(p) = unmounted'[p] - unmounted[p]
  <2>1. CASE UNCHANGED <<tally, unmounted>>
    BY <1>6, <2>1, SMTT(30) DEF Total
  <2>2. CASE /\ tally' = [tally EXCEPT ![p].failed = @ + 1]
             /\ unmounted' = [unmounted EXCEPT ![p] = @ + 1]
    BY <1>6, <2>2, SMTT(30) DEF Total, CounterTypes
  <2> QED BY <1>1, <2>1, <2>2
<1>8. pc'[p] \in {"mnt", "create"} /\ reply'[p] = None /\ (pc'[p] = "mnt" => stat = "OK")
  BY <1>1, <1>2 DEF ProgramTypes
<1>9. stat = "OK" /\ pc'[p] = "create" => root'[p]
  BY <1>1 DEF ProgramTypes
<1> QED BY <1>1, <1>2, <1>5, <1>7, <1>8, <1>9 DEF MountStep

ServeStep(p) ==
    /\ pc[p] \in Calls /\ reply[p] = None /\ CarryOut(Request(p))
    /\ reply'[p].stat = Status(Request(p)) /\ reply'[p] # None
    /\ reply'[p].fh = export'[Request(p).name]
    /\ done[p] \subseteq done'[p]
    /\ Status(Request(p)) = "OK" \/ pc[p] = "badread" => pc[p] \in done'[p]
    /\ pc'[p] = pc[p] /\ second'[p] = second[p] /\ root'[p] = root[p]
    /\ created'[p] = created[p] /\ fh'[p] = fh[p] /\ failed'[p] = failed[p]
    /\ troubled'[p] = troubled[p] /\ tally'[p] = tally[p] /\ ended'[p] = ended[p]
    /\ unmounted'[p] = unmounted[p] /\ passed'[p] = passed[p]
    /\ Others(p) /\ UNCHANGED <<pid, orphans, uses, lossy>>

\* An answer of the server is a ServeStep.
LEMMA ServeFacts ==
    ASSUME Types, NEW p \in Procs, Serve(p) PROVE ServeStep(p)
<1> USE DEF Types
<1>1. /\ pc[p] \in Calls /\ reply[p] = None /\ CarryOut(Request(p))
      /\ reply' = [reply EXCEPT ![p] = [stat |-> Status(Request(p)),
                                        fh |-> export'[Request(p).name]]]
      /\ done' = [done EXCEPT ![p] = IF Status(Request(p)) = "OK" \/ pc[p] = "badread"
                                     THEN @ \cup {pc[p]} ELSE @]
      /\ UNCHANGED <<clock, pid, orphans, pc, locals, tally, ended, unmounted, uses,
                     lossy, troubled, passed>>
  BY DEF Serve
<1>2. /\ reply'[p].stat = Status(Request(p)) /\ reply'[p].fh = export'[Request(p).name]
      /\ \A q \in Procs \ {p} : reply'[q] = reply[q] /\ done'[q] = done[q]
      /\ done[p] \subseteq done'[p]
      /\ Status(Request(p)) = "OK" \/ pc[p] = "badread" => pc[p] \in done'[p]
  BY <1>1 DEF ProgramTypes
<1>3. reply'[p] # None
  <2>1. None.stat = "none"
    BY DEF None
  <2>2. Status(Request(p)) # "none"
    BY StatusFacts
  <2> QED BY <1>2, <2>1, <2>2
<1>4. Others(p)
  BY <1>1, <1>2 DEF Others, locals
<1> QED BY <1>1, <1>2, <1>3, <1>4 DEF ServeStep, locals

DieStep(p) ==
    /\ pc[p] \in Calls /\ pc'[p] = "dead" /\ reply[p] = None
    /\ \A q \in Procs \ {p} : pc'[q] = pc[q]
    /\ UNCHANGED <<server, reply, locals, tally, history>>

\* A death by SIGPIPE is a DieStep.
LEMMA DieFacts ==
    ASSUME Types, NEW p \in Procs, Dies(p) PROVE DieStep(p)
BY DEF Types, ProgramTypes, Dies, DieStep

-----------------------------------------------------------------------------
(* One program: where it is, what is counted, what a pass means. *)

\* What is said of one program alone is kept by the others' steps.
LEMMA OthersMine ==
    ASSUME NEW p \in Procs, Others(p), NEW q \in Procs \ {p}, Mine(q) PROVE Mine(q)'
BY SMTT(30) DEF Others, Mine, Reached, Past, Counted, Total, Real

\* RUN_TEST keeps Mine: a test that begins has done nothing yet.
LEMMA RunMine ==
    ASSUME Types, NEW p \in Procs, RunStep(p), Mine(p) PROVE Mine(p)'
<1>1. reply[p] = None /\ None.stat = "none"
  BY DEF RunStep, Mine, Reached, Calls, None
<1>2. Reached(p)'
  BY <1>1 DEF RunStep, Reached
<1>3. Past(p)'
  BY DEF RunStep, Past
<1>4. Counted(p)'
  <2>1. Total(p) = ended[p] + unmounted[p] /\ ended[p] \in Nat /\ unmounted[p] \in Nat
    BY SMTT(30) DEF RunStep, Mine, Counted, Types, CounterTypes
  <2>2. CASE tally'[p] = tally[p] /\ ended'[p] = ended[p]
    <3>1. Total(p)' = Total(p)
      BY <2>2 DEF Total
    <3> QED BY <2>1, <2>2, <3>1, SMTT(30) DEF RunStep, Counted
  <2>3. CASE Total(p)' = Total(p) + 1 /\ ended'[p] = ended[p] + 1
    BY <2>1, <2>3, SMTT(30) DEF RunStep, Counted
  <2> QED BY <2>2, <2>3 DEF RunStep
<1>5. Real(p)'
  BY DEF RunStep, Mine, Real
<1> QED BY <1>2, <1>3, <1>4, <1>5 DEF Mine

\* nfs3_mount_root keeps Mine: a failed mount is counted in both places.
LEMMA MountMine ==
    ASSUME Types, Types', NEW p \in Procs, NEW stat \in Stats, MountStep(p, stat), Mine(p)
    PROVE  Mine(p)'
<1>1. reply'[p] = None /\ None.stat = "none" /\ None.stat # "OK"
  BY DEF MountStep, None
<1>2. ~failed[p] /\ ~failed'[p]
  BY DEF MountStep, Mine, Reached
<1>3. Reached(p)'
  BY <1>1, <1>2 DEF MountStep, Reached
<1>4. Past(p)'
  BY DEF MountStep, Past
<1>5. Counted(p)'
  <2>1. Total(p) = ended[p] + unmounted[p]
    BY <1>2, SMTT(30) DEF Mine, Counted, Types, CounterTypes
  <2>2. /\ ended[p] \in Nat /\ unmounted[p] \in Nat /\ unmounted'[p] \in Nat
        /\ Total(p)' \in Nat /\ Total(p) \in Nat
    BY SMTT(30) DEF Types, CounterTypes, Total
  <2> QED BY <1>2, <2>1, <2>2, SMTT(30) DEF MountStep, Counted
<1>6. Real(p)'
  BY DEF MountStep, Mine, Real
<1> QED BY <1>3, <1>4, <1>5, <1>6 DEF Mine

\* An answer keeps Mine: the server has done what it says.
LEMMA ServeMine ==
    ASSUME Types, NEW p \in Procs, ServeStep(p), Mine(p) PROVE Mine(p)'
<1>0. Request(p).call = pc[p] /\ Request(p).root = root[p]
  BY DEF Request
<1>1. pc[p] = "badread" => Status(Request(p)) # "OK"
  BY <1>0, StatusFacts
<1>2. pc[p] = "create" /\ Status(Request(p)) = "OK" => root[p]
  BY <1>0, StatusFacts
<1>3. Reached(p)'
  BY <1>1, <1>2 DEF ServeStep, Mine, Reached
<1>4. Past(p)'
  BY DEF ServeStep, Mine, Past
<1>5. Counted(p)' /\ Real(p)'
  BY DEF ServeStep, Mine, Counted, Total, Real
<1> QED BY <1>3, <1>4, <1>5 DEF Mine

\* A death keeps Mine.
LEMMA DieMine ==
    ASSUME Types, NEW p \in Procs, DieStep(p), NEW q \in Procs, Mine(q) PROVE Mine(q)'
<1>1. UNCHANGED <<reply, root, created, failed, troubled, done, tally, ended, unmounted,
                  passed>>
  BY DEF DieStep, locals, history
<1>2. CASE q # p
  <2>1. pc'[q] = pc[q]
    BY <1>2 DEF DieStep
  <2> QED BY <1>1, <2>1 DEF Mine, Reached, Past, Counted, Total, Real
<1>3. CASE q = p
  <2>1. pc[q] \in Calls /\ pc[q] # "idle" /\ pc'[q] = "dead" /\ reply[q] = None
    BY <1>3 DEF DieStep, Calls
  <2>2. None.stat # "OK"
    BY DEF None
  <2>3. Reached(q)' /\ Past(q)'
    <3>1. reply'[q] = None /\ pc'[q] \notin Calls
      BY <1>1, <2>1 DEF Calls
    <3>2. Reached(q)'
      BY <2>1, <2>2, <3>1 DEF Reached
    <3> QED BY <2>1, <3>2 DEF Past
  <2>4. Counted(q)' /\ Real(q)'
    BY <1>1, <2>1 DEF Mine, Counted, Total, Real
  <2> QED BY <2>3, <2>4 DEF Mine
<1> QED BY <1>2, <1>3

\* The steps between mounting and the end.
LEMMA HelperMine ==
    ASSUME Types, Types', NEW p \in Procs, NEW stat \in Stats,
           NEW next \in Calls \cup {"idle"}, NEW made \in SUBSET {"file", "dir"},
           NEW fails \in BOOLEAN, HelperStep(p, stat, next, made, fails), Mine(p)
    PROVE  Mine(p)'
<1>0. HelperEffect(p, stat, next, made, fails)
  BY HelperFacts
<1>1. /\ pc[p] \in Calls /\ pc'[p] = IF fails THEN Cleanup(made, fails) ELSE next
      /\ reply'[p] = None /\ created'[p] = made
      /\ failed'[p] <=> (failed[p] \/ fails)
      /\ root'[p] = root[p] /\ done'[p] = done[p] /\ unmounted'[p] = unmounted[p]
      /\ Received(p, stat) \/ Given_up(p, stat)
  BY <1>0 DEF HelperEffect
<1>2. Row(p, stat, next, made, fails)
  BY DEF HelperStep
<1>3. None.stat # "OK"
  BY DEF None
<1>4. stat = "OK" => reply[p].stat = "OK" /\ reply[p] # None
  BY <1>1 DEF Received, Given_up
<1>5. Cleanup(made, fails) \in {"rmdir", "remove", "idle"}
  BY DEF Cleanup
<1>6. ~fails /\ pc[p] # "rmdir" /\ pc[p] # "remove" => ~failed[p]
  BY <1>1 DEF Mine, Reached, Calls
<1>7. fails => ~failed[p]
  BY <1>2 DEF Row, Mine, Reached
<1>8. Reached(p)'
  <2>1. failed'[p] => pc'[p] \in {"rmdir", "remove", "idle"}
    BY <1>1, <1>2, <1>5 DEF Row, Mine, Reached
  <2>2. /\ pc'[p] \in {"write", "mkdir", "read", "badread", "rmdir", "remove"} =>
            root'[p] /\ "file" \in created'[p]
        /\ pc'[p] \in {"read", "badread", "rmdir"} => "dir" \in created'[p]
    BY <1>1, <1>2, <1>4 DEF Row, Cleanup, Mine, Reached
  <2>3. pc'[p] # "create"
    BY <1>1, <1>2, <1>5 DEF Row
  <2> QED BY <1>1, <1>3, <2>1, <2>2, <2>3 DEF Reached
<1>9. "badread" \in done[p] \/ troubled'[p] \/ pc[p] # "badread"
  <2>1. CASE Received(p, stat)
    BY <2>1 DEF Received, Mine, Reached
  <2>2. CASE Given_up(p, stat)
    BY <2>2 DEF Given_up, Types, ProgramTypes
  <2> QED BY <1>1, <2>1, <2>2
<1>10. troubled[p] => troubled'[p]
  <2>1. CASE Received(p, stat)
    BY <2>1 DEF Received
  <2>2. CASE Given_up(p, stat)
    BY <2>2 DEF Given_up, Types, ProgramTypes
  <2> QED BY <1>1, <2>1, <2>2
<1>11. Past(p)'
  <2>1. CASE fails
    BY <1>1, <1>5, <2>1 DEF Past
  <2>2. CASE ~fails
    <3>1. pc'[p] = next /\ (failed'[p] <=> failed[p])
      BY <1>1, <2>2
    <3>2. pc[p] \in {"create", "write", "mkdir", "read"} => stat = "OK"
      BY <1>2, <2>2 DEF Row
    <3>3. pc[p] \in {"create", "write", "mkdir", "read"} => pc[p] \in done[p]
      BY <1>4, <3>2 DEF Mine, Reached
    <3> QED BY <1>1, <1>2, <1>9, <1>10, <3>1, <3>3 DEF Row, Mine, Past
  <2> QED BY <2>1, <2>2
<1> DEFINE ends == pc'[p] = "idle"
           pass == IF ends THEN TEST_PASS(p, fails) ELSE 0
<1>12. /\ tally' = [tally EXCEPT ![p].failed = @ + IF fails THEN 1 ELSE 0,
                                 ![p].passed = @ + pass]
       /\ ended' = [ended EXCEPT ![p] = @ + IF ends THEN 1 ELSE 0]
       /\ passed' = [passed EXCEPT ![p] =
                        IF pass = 0 THEN @
                        ELSE done[p] \cup IF troubled'[p] THEN {"badread"} ELSE {}]
  BY <1>1 DEF HelperStep, Proceed
<1>13. Counted(p)'
  <2>1. /\ tally[p].passed \in Nat /\ tally[p].failed \in Nat /\ tally[p].skipped \in Nat
        /\ ended[p] \in Nat /\ unmounted[p] \in Nat
    BY DEF Types, CounterTypes
  <2>2. /\ tally'[p].passed = tally[p].passed + pass
        /\ tally'[p].failed = tally[p].failed + IF fails THEN 1 ELSE 0
        /\ tally'[p].skipped = tally[p].skipped
        /\ ended'[p] = ended[p] + IF ends THEN 1 ELSE 0
    BY <1>12 DEF Types, CounterTypes
  <2>3. Total(p) = ended[p] + unmounted[p] + IF failed[p] THEN 1 ELSE 0
    BY <1>1 DEF Mine, Counted, Calls
  <2>4. pass = IF ends /\ ~failed[p] /\ ~fails THEN 1 ELSE 0
    BY DEF TEST_PASS
  <2> HIDE DEF pass
  <2>5. CASE fails
    <3>1. pass = 0 /\ ~failed[p] /\ failed'[p]
      BY <1>1, <1>7, <2>4, <2>5
    <3>2. unmounted'[p] = unmounted[p] /\ Total(p)' = Total(p) + 1
      <4>1. /\ tally'[p].passed = tally[p].passed /\ tally'[p].failed = tally[p].failed + 1
            /\ tally'[p].skipped = tally[p].skipped
        BY <2>1, <2>2, <2>5, <3>1, SMTT(30)
      <4>2. Total(p)' = Total(p) + 1
        BY <2>1, <4>1, SMTT(30) DEF Total
      <4> QED BY <1>1, <4>2
    <3>3. Total(p) = ended[p] + unmounted[p]
      BY <2>1, <2>3, <3>1, SMTT(30)
    <3>4. CASE ends
      BY <2>1, <2>2, <3>1, <3>2, <3>3, <3>4, SMTT(30) DEF Counted
    <3>5. CASE ~ends
      BY <2>1, <2>2, <3>1, <3>2, <3>3, <3>5, SMTT(30) DEF Counted
    <3> QED BY <3>4, <3>5
  <2>6. CASE ~fails
    <3>1. (failed'[p] <=> failed[p]) /\ unmounted'[p] = unmounted[p]
      BY <1>1, <2>6
    <3>2. Total(p)' = Total(p) + pass
      <4>1. tally'[p].failed = tally[p].failed
        BY <2>1, <2>2, <2>6, SMTT(30)
      <4>2. pass \in Nat
        BY <2>4
      <4> QED BY <2>1, <2>2, <4>1, <4>2, SMTT(30) DEF Total
    <3>3. CASE failed[p]
      <4>1. Total(p)' = ended[p] + unmounted[p] + 1
        BY <2>1, <2>3, <2>4, <3>2, <3>3, SMTT(30)
      <4>2. CASE ends
        BY <2>1, <2>2, <3>1, <4>1, <4>2, SMTT(30) DEF Counted
      <4>3. CASE ~ends
        BY <2>1, <2>2, <3>1, <3>3, <4>1, <4>3, SMTT(30) DEF Counted
      <4> QED BY <4>2, <4>3
    <3>4. CASE ~failed[p]
      <4>1. Total(p)' = ended[p] + unmounted[p] + pass
        BY <2>1, <2>3, <2>4, <3>2, <3>4, SMTT(30)
      <4>2. CASE ends
        <5>1. Total(p)' = ended[p] + unmounted[p] + 1
          BY <2>4, <2>6, <3>4, <4>1, <4>2
        <5> QED BY <2>1, <2>2, <3>1, <4>2, <5>1, SMTT(30) DEF Counted
      <4>3. CASE ~ends
        <5>1. Total(p)' = ended[p] + unmounted[p]
          BY <2>1, <2>4, <4>1, <4>3, SMTT(30)
        <5> QED BY <2>1, <2>2, <3>1, <3>4, <4>3, <5>1, SMTT(30) DEF Counted
      <4> QED BY <4>2, <4>3
    <3> QED BY <3>3, <3>4
  <2> QED BY <2>5, <2>6
<1>14. Real(p)'
  <2>1. CASE pass = 0
    BY <1>12, <2>1 DEF Mine, Real, Types, ProgramTypes
  <2>2. CASE pass # 0
    <3>1. ends /\ ~failed[p] /\ ~fails
      BY <2>2 DEF TEST_PASS
    <3>2. pc[p] = "remove"
      BY <1>1, <1>2, <3>1 DEF Row
    <3>3. /\ {"create", "write", "mkdir", "read"} \subseteq done[p]
          /\ "badread" \in done[p] \/ troubled'[p]
      BY <1>10, <3>1, <3>2 DEF Mine, Past
    <3>4. passed'[p] = done[p] \cup IF troubled'[p] THEN {"badread"} ELSE {}
      BY <1>12, <2>2 DEF Types, ProgramTypes
    <3> HIDE DEF pass
    <3> QED BY <3>3, <3>4 DEF Real
  <2> QED BY <2>1, <2>2
<1> QED BY <1>8, <1>11, <1>13, <1>14 DEF Mine

-----------------------------------------------------------------------------
(* What is in the export has somebody to remove it. *)

\* What a program will remove it still will after another's step.
LEMMA OthersClean ==
    ASSUME NEW p \in Procs, Others(p), pid' = pid, NEW q \in Procs \ {p}, NEW n, Cleans(q, n)
    PROVE  Cleans(q, n)'
<1>1. /\ pc'[q] = pc[q] /\ reply'[q] = reply[q] /\ second'[q] = second[q]
      /\ pid'[q] = pid[q]
  BY DEF Others
<1> QED BY <1>1 DEF Cleans, unique_name

\* A lost call taints its name.
LEMMA CallClean ==
    ASSUME NEW p \in Procs, NEW stat \in Stats, Received(p, stat) \/ Given_up(p, stat),
           Cleaning
    PROVE  /\ \A r \in orphans' : r.name \in lossy' /\ lossy \subseteq lossy'
           /\ reply[p] = None \/ stat # reply[p].stat => Request(p).name \in lossy'
<1>1. CASE Received(p, stat)
  BY <1>1 DEF Received, Cleaning
<1>2. CASE Given_up(p, stat)
  BY <1>2 DEF Given_up, Cleaning
<1> QED BY <1>1, <1>2

\* RUN_TEST keeps Cleaning.
LEMMA RunClean ==
    ASSUME NEW p \in Procs, RunStep(p), Cleaning PROVE Cleaning'
<1>1. Others(p) /\ UNCHANGED <<pid, export, orphans, lossy>> /\ pc[p] = "idle"
  BY DEF RunStep
<1>2. ASSUME NEW n \in Names, export'[n] # 0, n \notin lossy'
      PROVE  \E q \in Procs : Cleans(q, n)'
  <2>1. PICK q \in Procs : Cleans(q, n)
    BY <1>1, <1>2 DEF Cleaning
  <2>2. q # p
    BY <1>1, <2>1 DEF Cleans
  <2> QED BY <1>1, <2>1, <2>2, OthersClean
<1> QED BY <1>1, <1>2 DEF Cleaning

\* nfs3_mount_root keeps Cleaning.
LEMMA MountClean ==
    ASSUME NEW p \in Procs, NEW stat \in Stats, MountStep(p, stat), Cleaning
    PROVE  Cleaning'
<1>1. Others(p) /\ UNCHANGED <<pid, export>> /\ pc[p] \in {"getport", "mnt"}
  BY DEF MountStep
<1>2. \A r \in orphans' : r.name \in lossy'
  BY CallClean DEF MountStep
<1>3. lossy \subseteq lossy'
  BY DEF MountStep, Received, Given_up
<1>4. ASSUME NEW n \in Names, export'[n] # 0, n \notin lossy'
      PROVE  \E q \in Procs : Cleans(q, n)'
  <2>1. PICK q \in Procs : Cleans(q, n)
    BY <1>1, <1>3, <1>4 DEF Cleaning
  <2>2. q # p
    BY <1>1, <2>1 DEF Cleans
  <2> QED BY <1>1, <2>1, <2>2, OthersClean
<1> QED BY <1>2, <1>4 DEF Cleaning

\* The helpers keep Cleaning: what they report as made is cleaned up.
LEMMA HelperClean ==
    ASSUME Types, NEW p \in Procs, NEW stat \in Stats,
           NEW next \in Calls \cup {"idle"}, NEW made \in SUBSET {"file", "dir"},
           NEW fails \in BOOLEAN, HelperStep(p, stat, next, made, fails), Mine(p), Cleaning
    PROVE  Cleaning'
<1>0. HelperEffect(p, stat, next, made, fails) /\ Row(p, stat, next, made, fails)
  BY HelperFacts DEF HelperStep
<1>1. /\ Others(p) /\ UNCHANGED <<pid, export>> /\ pc[p] \in Calls
      /\ pc'[p] = IF fails THEN Cleanup(made, fails) ELSE next
      /\ reply'[p] = None /\ second'[p] = second[p]
      /\ Received(p, stat) \/ Given_up(p, stat)
  BY <1>0 DEF HelperEffect, HelperStep
<1>2. \A r \in orphans' : r.name \in lossy'
  BY <1>1, CallClean
<1>3. lossy \subseteq lossy'
  BY <1>1 DEF Received, Given_up
<1>4. reply[p] = None \/ stat # reply[p].stat => Request(p).name \in lossy'
  BY <1>1, CallClean
<1>5. Request(p).name = unique_name(Kind(pc[p]), p)
  BY <1>1, RequestFacts DEF Types
<1>6. ASSUME NEW n \in Names, n \notin lossy', Cleans(p, n) PROVE Cleans(p, n)'
  <2>1. n = unique_name(n[1], p) /\ (n = unique_name(n[1], p))'
    BY <1>1, <1>6 DEF Cleans, unique_name
  <2>2. Kind(pc[p]) = n[1] => reply[p] # None /\ stat = reply[p].stat
    BY <1>4, <1>5, <1>6, <2>1
  <2>3. CASE n[1] = "file"
    <3>1. \/ pc[p] = "create" /\ reply[p].stat = "OK"
          \/ pc[p] \in {"write", "mkdir", "read", "badread", "rmdir"}
          \/ pc[p] = "remove" /\ reply[p] = None
      BY <1>1, <1>6, <2>3 DEF Cleans, Calls
    <3>2. pc[p] # "remove" /\ (pc[p] = "create" => stat = "OK")
      BY <2>2, <2>3, <3>1 DEF Kind
    <3>3. pc[p] \in {"write", "read", "badread", "rmdir"} => "file" \in created[p]
      BY DEF Mine, Reached
    <3>4. pc'[p] \in {"write", "mkdir", "read", "badread", "rmdir", "remove"}
      BY <1>0, <1>1, <3>1, <3>2, <3>3 DEF Row, Cleanup
    <3> QED BY <1>1, <2>1, <2>3, <3>4 DEF Cleans
  <2>4. CASE n[1] # "file"
    <3>1. /\ n[1] = "dir"
          /\ \/ pc[p] = "mkdir" /\ reply[p].stat = "OK"
             \/ pc[p] \in {"read", "badread"}
             \/ pc[p] = "rmdir" /\ reply[p] = None
      BY <1>1, <1>6, <2>4 DEF Cleans, Calls, Names
    <3>2. pc[p] # "rmdir" /\ (pc[p] = "mkdir" => stat = "OK")
      BY <2>2, <3>1 DEF Kind
    <3>3. pc[p] \in {"read", "badread"} => "dir" \in created[p]
      BY DEF Mine, Reached
    <3>4. pc'[p] \in {"read", "badread", "rmdir"}
      BY <1>0, <1>1, <3>1, <3>2, <3>3 DEF Row, Cleanup
    <3> QED BY <1>1, <2>1, <3>1, <3>4 DEF Cleans
  <2> QED BY <2>3, <2>4
<1>7. ASSUME NEW n \in Names, export'[n] # 0, n \notin lossy'
      PROVE  \E q \in Procs : Cleans(q, n)'
  <2>1. PICK q \in Procs : Cleans(q, n)
    BY <1>1, <1>3, <1>7 DEF Cleaning
  <2>2. CASE q # p
    BY <1>1, <2>1, <2>2, OthersClean
  <2>3. CASE q = p
    BY <1>6, <1>7, <2>1, <2>3
  <2> QED BY <2>2, <2>3
<1> QED BY <1>2, <1>7 DEF Cleaning

\* A death keeps Cleaning: it is one of the explanations.
LEMMA DieClean ==
    ASSUME NEW p \in Procs, DieStep(p), Cleaning PROVE Cleaning'
<1>1. UNCHANGED <<pid, export, orphans, lossy, reply, second>> /\ pc'[p] = "dead"
  BY DEF DieStep, server, locals, history
<1>2. ASSUME NEW q \in Procs, NEW n \in Names, Cleans(q, n) PROVE Cleans(q, n)'
  <2>1. CASE q = p
    BY <1>1, <1>2, <2>1 DEF Cleans, unique_name
  <2>2. CASE q # p
    <3>1. pc'[q] = pc[q]
      BY <2>2 DEF DieStep
    <3> QED BY <1>1, <1>2, <3>1 DEF Cleans, unique_name
  <2> QED BY <2>1, <2>2
<1> QED BY <1>1, <1>2 DEF Cleaning

\* An answer keeps Cleaning: its caller will learn of it or lose it.
LEMMA ServeClean ==
    ASSUME Types, NEW p \in Procs, ServeStep(p), Mine(p), Cleaning PROVE Cleaning'
<1> DEFINE r == Request(p)
<1>1. /\ Others(p) /\ UNCHANGED <<pid, orphans, lossy>> /\ pc[p] \in Calls
      /\ pc'[p] = pc[p] /\ second'[p] = second[p] /\ reply[p] = None
      /\ reply'[p].stat = Status(r) /\ CarryOut(r)
  BY DEF ServeStep
<1>2. /\ r \in Requests /\ r.call = pc[p] /\ r.root = root[p]
      /\ r.name = unique_name(Kind(pc[p]), p)
  BY <1>1, RequestFacts DEF Types
<1>3. r.name \in Names /\ r.name[1] = Kind(pc[p])
  <2>1. Kind(pc[p]) \in {"file", "dir"}
    BY DEF Kind
  <2> QED BY <1>2, <2>1, NameFacts DEF Types
<1>4. /\ \A n \in Names : n # r.name => export'[n] = export[n]
      /\ r.call \in {"create", "mkdir"} =>
            export'[r.name] # 0 \/ (Status(r) # "OK" /\ export' = export)
      /\ r.call \in {"rmdir", "remove"} /\ r.root => export'[r.name] = 0
      /\ r.call \notin {"create", "mkdir"} /\ export'[r.name] # 0 => export' = export
  BY <1>1, <1>2, CarryOutFacts DEF Types
<1>5. None.stat # "OK"
  BY DEF None
<1>6. ASSUME NEW n \in Names, Cleans(p, n), export'[n] # 0 PROVE Cleans(p, n)'
  <2>1. n = unique_name(n[1], p) /\ (n = unique_name(n[1], p))'
    BY <1>1, <1>6 DEF Cleans, unique_name
  <2>2. ~(n[1] = "file" /\ pc[p] = "remove") /\ ~(n[1] = "dir" /\ pc[p] = "rmdir")
    <3>1. pc[p] \in {"rmdir", "remove"} => export'[r.name] = 0
      BY <1>2, <1>4 DEF Mine, Reached
    <3> QED BY <1>2, <1>6, <2>1, <3>1 DEF Kind
  <2> QED BY <1>1, <1>5, <1>6, <2>1, <2>2 DEF Cleans
<1>7. ASSUME NEW n \in Names, export'[n] # 0, n \notin lossy'
      PROVE  \E q \in Procs : Cleans(q, n)'
  <2>1. CASE export[n] # 0
    <3>1. PICK q \in Procs : Cleans(q, n)
      BY <1>1, <1>7, <2>1 DEF Cleaning
    <3>2. CASE q # p
      BY <1>1, <3>1, <3>2, OthersClean
    <3>3. CASE q = p
      BY <1>6, <1>7, <3>1, <3>3
    <3> QED BY <3>2, <3>3
  <2>2. CASE export[n] = 0
    <3>1. n = r.name /\ export' # export
      BY <1>4, <1>7, <2>2
    <3>2. pc[p] \in {"create", "mkdir"}
      BY <1>2, <1>4, <1>7, <3>1
    <3>3. Status(r) = "OK"
      BY <1>1, <2>2, <1>7, <3>1, <3>2 DEF CarryOut
    <3> HIDE DEF r
    <3>4. n[1] = Kind(pc[p]) /\ (n = unique_name(n[1], p))'
      BY <1>1, <1>2, <1>3, <3>1 DEF unique_name
    <3>5. \/ pc'[p] = "create" /\ reply'[p].stat = "OK" /\ n[1] = "file"
          \/ pc'[p] = "mkdir" /\ reply'[p].stat = "OK" /\ n[1] = "dir"
      BY <1>1, <3>2, <3>3, <3>4 DEF Kind
    <3>6. Cleans(p, n)'
      BY <3>4, <3>5 DEF Cleans
    <3> QED BY <3>6
  <2> QED BY <2>1, <2>2 DEF Types, ServerTypes
<1> QED BY <1>1, <1>7 DEF Cleaning

\* A late request keeps Cleaning: its name is that of a lost call.
LEMMA LateClean ==
    ASSUME Types, NEW r \in orphans, ServeLate(r), Cleaning PROVE Cleaning'
<1>1. /\ UNCHANGED <<pid, pc, reply, second, lossy>> /\ orphans' \subseteq orphans
      /\ r \in Requests /\ CarryOut(r)
  BY DEF ServeLate, locals, history, Types, ServerTypes
<1>2. r.name \in lossy /\ \A n \in Names : n # r.name => export'[n] = export[n]
  BY <1>1, CarryOutFacts DEF Cleaning, Types
<1>3. ASSUME NEW q \in Procs, NEW n \in Names, Cleans(q, n) PROVE Cleans(q, n)'
  BY <1>1, <1>3 DEF Cleans, unique_name
<1> QED BY <1>1, <1>2, <1>3 DEF Cleaning

-----------------------------------------------------------------------------
(* A key that was never used has left nothing; two tests under way with the    *)
(* same key are counted.                                                       *)

\* Used is kept where no name and no key is new.
LEMMA UsedStep ==
    ASSUME Used, UNCHANGED <<pid, second, uses>>,
           \A q \in Procs : pc'[q] # "idle" => pc[q] # "idle",
           \A n \in Names : uses[KeyOf(n)] = 0 => export'[n] = 0,
           \A r \in orphans' : uses[KeyOf(r.name)] > 0
    PROVE  Used'
<1>1. \A q \in Procs : Key(q)' = Key(q)
  BY DEF Key
<1>2. \A q \in Procs : pc'[q] # "idle" => uses'[Key(q)'] > 0
  BY <1>1 DEF Used
<1>3. \A p, q \in Procs :
        p # q /\ pc'[p] # "idle" /\ pc'[q] # "idle" /\ Key(p)' = Key(q)' =>
            uses'[Key(p)'] > 1
  BY <1>1 DEF Used
<1> QED BY <1>2, <1>3 DEF Used, KeyOf

\* RUN_TEST keeps Used: it counts the key of the names it makes.
LEMMA RunUsed ==
    ASSUME Types, NEW p \in Procs, RunStep(p), Used PROVE Used'
<1>1. Others(p) /\ UNCHANGED <<pid, export, orphans>> /\ pc[p] = "idle"
  BY DEF RunStep
<1>2. \A q \in Procs \ {p} : Key(q)' = Key(q) /\ pc'[q] = pc[q]
  BY <1>1 DEF Key, Others
<1>3. CASE pc'[p] = "idle" /\ uses' = uses
  <2>1. /\ \A q \in Procs : pc'[q] # "idle" => uses'[Key(q)'] > 0
        /\ \A q1, q2 \in Procs :
            q1 # q2 /\ pc'[q1] # "idle" /\ pc'[q2] # "idle" /\ Key(q1)' = Key(q2)' =>
                uses'[Key(q1)'] > 1
    BY <1>2, <1>3, SMTT(30) DEF Used
  <2> QED BY <1>1, <1>3, <2>1 DEF Used, KeyOf
<1>4. CASE second'[p] = clock /\ uses' = [uses EXCEPT ![<<pid[p], clock>>] = @ + 1]
  <2> DEFINE k == <<pid[p], clock>>
  <2>1. Key(p)' = k /\ k \in Pids \X (0 .. MaxClock)
    BY <1>1, <1>4 DEF Key, Types, ServerTypes
  <2>2. \A j \in Pids \X (0 .. MaxClock) :
            uses[j] \in Nat /\ uses'[j] = uses[j] + IF j = k THEN 1 ELSE 0
    BY <1>4, <2>1, SMTT(30) DEF Types, ServerTypes
  <2>3. \A q \in Procs : Key(q) \in Pids \X (0 .. MaxClock)
    BY NameFacts DEF Types
  <2>4. \A n \in Names : KeyOf(n) \in Pids \X (0 .. MaxClock)
    BY NameFacts DEF Types
  <2> HIDE DEF k
  <2>5. ASSUME NEW q \in Procs, pc'[q] # "idle" PROVE uses'[Key(q)'] > 0
    <3>1. CASE q = p
      BY <2>1, <2>2, <3>1, SMTT(30)
    <3>2. CASE q # p
      BY <1>2, <2>2, <2>3, <2>5, <3>2, SMTT(30) DEF Used
    <3> QED BY <3>1, <3>2
  <2>6. ASSUME NEW q \in Procs \ {p}, pc'[q] # "idle", Key(q)' = k PROVE uses'[k] > 1
    BY <1>2, <2>2, <2>3, <2>6, SMTT(30) DEF Used
  <2>7. ASSUME NEW q1 \in Procs \ {p}, NEW q2 \in Procs \ {p}, q1 # q2, pc'[q1] # "idle",
               pc'[q2] # "idle", Key(q1)' = Key(q2)'
        PROVE  uses'[Key(q1)'] > 1
    <3>1. uses[Key(q1)] > 1
      BY <1>2, <2>7 DEF Used
    <3> QED BY <1>2, <2>2, <2>3, <3>1, SMTT(30)
  <2>8. \A q1, q2 \in Procs :
            q1 # q2 /\ pc'[q1] # "idle" /\ pc'[q2] # "idle" /\ Key(q1)' = Key(q2)' =>
                uses'[Key(q1)'] > 1
    BY <2>1, <2>6, <2>7
  <2>9. \A n \in Names : uses'[KeyOf(n)] = 0 => export'[n] = 0
    BY <1>1, <2>2, <2>4, SMTT(30) DEF Used
  <2>10. \A r \in orphans' : uses'[KeyOf(r.name)] > 0
    <3>1. \A r \in orphans : r.name \in Names
      BY DEF Types, ServerTypes, Requests
    <3> QED BY <1>1, <2>2, <2>4, <3>1, SMTT(30) DEF Used
  <2> QED BY <2>5, <2>8, <2>9, <2>10 DEF Used, KeyOf
<1> QED BY <1>3, <1>4 DEF RunStep

\* A call's orphan has the key of its caller.
LEMMA CallOrphans ==
    ASSUME Types, NEW p \in Procs, pc[p] \in Calls, NEW stat \in Stats,
           Received(p, stat) \/ Given_up(p, stat)
    PROVE  \A r \in orphans' : r \in orphans \/ KeyOf(r.name) = Key(p)
<1>1. KeyOf(Request(p).name) = Key(p)
  BY RequestFacts DEF Types
<1> QED BY <1>1 DEF Received, Given_up

\* rpc_call_bytes keeps Used, in whichever helper.
LEMMA CallUsed ==
    ASSUME Types, Used, NEW p \in Procs, pc[p] \in Calls, NEW stat \in Stats,
           Received(p, stat) \/ Given_up(p, stat), Others(p), second'[p] = second[p],
           second' \in [Procs -> 0 .. MaxClock], UNCHANGED <<pid, export, uses>>
    PROVE  Used'
<1>1. second' = second
  BY SMTT(30) DEF Others, Types, ProgramTypes
<1>2. \A r \in orphans' : uses[KeyOf(r.name)] > 0
  BY CallOrphans DEF Used, Calls
<1>3. \A q \in Procs : pc'[q] # "idle" => pc[q] # "idle"
  BY DEF Others, Calls
<1> QED BY <1>1, <1>2, <1>3, UsedStep DEF Used

\* An answer keeps Used: only names with a key in use come about.
LEMMA ServeUsed ==
    ASSUME Types, Types', Used, NEW p \in Procs, ServeStep(p) PROVE Used'
<1>1. /\ pc[p] \in Calls /\ Others(p) /\ UNCHANGED <<pid, orphans, uses>>
      /\ pc'[p] = pc[p] /\ second'[p] = second[p] /\ CarryOut(Request(p))
  BY DEF ServeStep
<1>2. second' = second
  BY <1>1, SMTT(30) DEF Others, Types, ProgramTypes
<1>3. /\ KeyOf(Request(p).name) = Key(p)
      /\ \A n \in Names : n # Request(p).name => export'[n] = export[n]
  BY <1>1, RequestFacts, CarryOutFacts DEF Types
<1>4. uses[Key(p)] > 0
  BY <1>1 DEF Used, Calls
<1>5. \A n \in Names : uses[KeyOf(n)] = 0 => export'[n] = 0
  BY <1>3, <1>4, SMTT(30) DEF Used
<1>6. \A q \in Procs : pc'[q] # "idle" => pc[q] # "idle"
  BY <1>1 DEF Others
<1> QED BY <1>1, <1>2, <1>5, <1>6, UsedStep DEF Used

\* A death keeps Used.
LEMMA DieUsed ==
    ASSUME Used, NEW p \in Procs, DieStep(p) PROVE Used'
<1>1. UNCHANGED <<pid, second, uses, export, orphans>>
  BY DEF DieStep, server, locals, history
<1>2. \A q \in Procs : pc'[q] # "idle" => pc[q] # "idle"
  BY DEF DieStep, Calls
<1> QED BY <1>1, <1>2, UsedStep DEF Used

\* A late request keeps Used.
LEMMA LateUsed ==
    ASSUME Types, Used, NEW r \in orphans, ServeLate(r) PROVE Used'
<1>1. /\ UNCHANGED <<pid, second, uses, pc>> /\ orphans' \subseteq orphans
      /\ r \in Requests /\ CarryOut(r)
  BY DEF ServeLate, locals, history, Types, ServerTypes
<1>2. \A n \in Names : n # r.name => export'[n] = export[n]
  BY <1>1, CarryOutFacts DEF Types
<1>3. \A n \in Names : uses[KeyOf(n)] = 0 => export'[n] = 0
  BY <1>2, SMTT(30) DEF Used
<1>4. \A o \in orphans' : uses[KeyOf(o.name)] > 0
  BY <1>1 DEF Used
<1> QED BY <1>1, <1>3, <1>4, UsedStep

-----------------------------------------------------------------------------
(* Nobody disturbs a test that has its names for itself. *)

\* Two tests under way, one of them alone, have different keys.
LEMMA Apart ==
    ASSUME Types, Used, NEW p \in Procs, NEW q \in Procs \ {p}, pc[p] \in Calls, Alone(q)
    PROVE  Key(q) # Key(p)
BY DEF Used, Alone, Shared, Key, Calls

\* Nothing happens to the names of q's key.
Quiet(q) ==
    /\ \A n \in Names : KeyOf(n) = Key(q) => export'[n] = export[n]
    /\ \A r \in orphans' : r \in orphans \/ KeyOf(r.name) # Key(q)

\* Where the server is quiet about a test's names, Smooth is kept.
LEMMA QuietSmooth ==
    ASSUME Types, NEW q \in Procs, Quiet(q), Smooth(q), pid' = pid,
           pc'[q] = pc[q], reply'[q] = reply[q], second'[q] = second[q],
           root'[q] = root[q], fh'[q] = fh[q]
    PROVE  Smooth(q)'
<1>1. \A k : unique_name(k, q)' = unique_name(k, q)
  BY DEF unique_name
<1>2. Key(q)' = Key(q)
  BY DEF Key
<1>3. /\ export'[unique_name("file", q)] = export[unique_name("file", q)]
      /\ export'[unique_name("dir", q)] = export[unique_name("dir", q)]
  BY NameFacts DEF Quiet, Types
<1>4. \A r \in orphans' : KeyOf(r.name) # Key(q)
  BY DEF Quiet, Smooth
<1> QED BY <1>1, <1>2, <1>3, <1>4 DEF Smooth, KeyOf

\* A step of another program keeps Fine.
LEMMA OthersFine ==
    ASSUME Types, NEW p \in Procs, Others(p), UNCHANGED <<pid, uses>>,
           NEW q \in Procs \ {p}, Fine(q), Alone(q) => Quiet(q)
    PROVE  Fine(q)'
<1>1. /\ pc'[q] = pc[q] /\ reply'[q] = reply[q] /\ second'[q] = second[q]
      /\ root'[q] = root[q] /\ fh'[q] = fh[q]
      /\ failed'[q] = failed[q] /\ troubled'[q] = troubled[q]
  BY DEF Others
<1>2. Shared(q)' <=> Shared(q)
  BY <1>1 DEF Shared
<1>3. Alone(q)' <=> Alone(q)
  BY <1>1, <1>2 DEF Alone
<1>4. Alone(q) => Smooth(q)'
  BY <1>1, QuietSmooth DEF Fine
<1> QED BY <1>1, <1>2, <1>3, <1>4 DEF Fine

\* RUN_TEST keeps Fine: an unshared name is not in the export.
LEMMA RunFine ==
    ASSUME Types, Used, NEW p \in Procs, RunStep(p), Mine(p), NEW q \in Procs, Fine(q)
    PROVE  Fine(q)'
<1>1. Others(p) /\ UNCHANGED <<pid, export, orphans>> /\ pc[p] = "idle"
  BY DEF RunStep
<1>2. \A j \in Pids \X (0 .. MaxClock) : uses[j] \in Nat /\ uses'[j] >= uses[j]
  BY SMTT(30) DEF RunStep, Types, ServerTypes
<1>3. CASE q # p
  <2>1. /\ pc'[q] = pc[q] /\ reply'[q] = reply[q] /\ second'[q] = second[q]
        /\ root'[q] = root[q] /\ fh'[q] = fh[q]
        /\ failed'[q] = failed[q] /\ troubled'[q] = troubled[q]
    BY <1>1, <1>3 DEF Others
  <2>2. Shared(q) => Shared(q)'
    <3>1. <<pid[q], second[q]>> \in Pids \X (0 .. MaxClock) /\ (Key(q) = <<pid[q], second[q]>>)
      BY NameFacts DEF Types, Key
    <3>2. uses'[<<pid[q], second[q]>>] >= uses[<<pid[q], second[q]>>]
      BY <1>2, <3>1
    <3>3. uses'[<<pid[q], second[q]>>] \in Int /\ uses[<<pid[q], second[q]>>] \in Nat
      BY <1>2, <3>1, SMTT(30) DEF RunStep, Types, ServerTypes
    <3> QED BY <1>1, <2>1, <3>2, <3>3, SMTT(30) DEF Shared
  <2>3. Alone(q)' => Alone(q)
    BY <2>1, <2>2 DEF Alone
  <2>4. Quiet(q)
    BY <1>1 DEF Quiet
  <2>5. Smooth(q) => Smooth(q)'
    BY <1>1, <2>1, <2>4, QuietSmooth
  <2> QED BY <2>1, <2>2, <2>3, <2>5 DEF Fine
<1>4. CASE q = p
  <2>1. ~failed'[q] /\ reply'[q] = None
    BY <1>4 DEF RunStep, Mine, Reached, Calls
  <2>2. CASE pc'[p] = "idle"
    BY <1>4, <2>1, <2>2 DEF Fine, Alone, Calls
  <2>3. CASE /\ pc'[p] = "getport" /\ second'[p] = clock
             /\ uses' = [uses EXCEPT ![<<pid[p], clock>>] = @ + 1]
    <3> DEFINE k == <<pid[p], clock>>
    <3>1. k \in Pids \X (0 .. MaxClock) /\ Key(p)' = k
      BY <1>1, <2>3 DEF Types, ServerTypes, Key
    <3>2. uses'[k] = uses[k] + 1 /\ uses[k] \in Nat
      BY <2>3, <3>1 DEF Types, ServerTypes
    <3> HIDE DEF k
    <3>3. SUFFICES ASSUME ~Shared(p)' PROVE Smooth(p)'
      BY <1>4, <2>1 DEF Fine, Alone
    <3>4. uses[k] = 0
      BY <3>1, <3>2, <3>3, SMTT(30) DEF Shared, Key
    <3>5. /\ unique_name("dir", p)' \in Names
          /\ KeyOf(unique_name("dir", p)') = k
      BY <1>1, <2>3, <3>1 DEF unique_name, Names, KeyOf, Key, Types, ServerTypes
    <3>6. export'[unique_name("dir", p)'] = 0
      BY <1>1, <3>4, <3>5 DEF Used
    <3>7. \A r \in orphans' : KeyOf(r.name) # k
      BY <1>1, <3>4, SMTT(30) DEF Used
    <3> QED BY <1>4, <2>1, <2>3, <3>1, <3>6, <3>7 DEF Smooth, KeyOf
  <2> QED BY <2>2, <2>3 DEF RunStep
<1> QED BY <1>3, <1>4

\* A call that was not lost leaves a test that is alone where it expects to be.
LEMMA CallFine ==
    ASSUME Types, Used, NEW p \in Procs, pc[p] \in Calls, NEW stat \in Stats,
           Received(p, stat) \/ Given_up(p, stat), Others(p),
           second'[p] = second[p], UNCHANGED <<pid, export, uses>>,
           NEW q \in Procs \ {p}, Fine(q)
    PROVE  Fine(q)'
<1>1. Alone(q) => Quiet(q)
  BY Apart, CallOrphans DEF Quiet
<1> QED BY <1>1, OthersFine

\* A test that is alone after a call got the server's reply.
LEMMA CallAlone ==
    ASSUME Types, NEW p \in Procs, pc[p] \in Calls, NEW stat \in Stats,
           Received(p, stat) \/ Given_up(p, stat),
           second'[p] = second[p], UNCHANGED <<pid, uses>>
    PROVE  /\ Shared(p)' <=> Shared(p)
           /\ troubled[p] => troubled'[p]
           /\ ~troubled'[p] => Received(p, stat) /\ ~troubled[p]
           /\ Alone(p)' => Alone(p) /\ Received(p, stat)
<1>1. Shared(p)' <=> Shared(p)
  BY DEF Shared
<1>2. /\ troubled[p] => troubled'[p]
      /\ ~troubled'[p] => Received(p, stat) /\ ~troubled[p]
  BY DEF Received, Given_up, Types, ProgramTypes
<1> QED BY <1>1, <1>2 DEF Alone

\* nfs3_mount_root keeps Fine.
LEMMA MountFine ==
    ASSUME Types, NEW p \in Procs, NEW stat \in Stats, MountStep(p, stat), Mine(p), Fine(p)
    PROVE  Fine(p)'
<1>1. /\ pc[p] \in {"getport", "mnt"} /\ pc'[p] \in {"mnt", "create"}
      /\ Received(p, stat) \/ Given_up(p, stat)
      /\ reply'[p] = None /\ second'[p] = second[p] /\ UNCHANGED <<pid, export, uses>>
      /\ failed'[p] = failed[p] /\ (stat = "OK" /\ pc'[p] = "create" => root'[p])
  BY DEF MountStep
<1>2. pc[p] \in Calls
  BY <1>1 DEF Calls
<1>3. /\ Alone(p)' => Alone(p) /\ Received(p, stat)
  BY <1>1, <1>2, CallAlone
<1>4. ~failed'[p]
  BY <1>1 DEF Mine, Reached
<1>5. ASSUME Alone(p), Received(p, stat) PROVE Smooth(p)'
  <2>1. Smooth(p)
    BY <1>5 DEF Fine
  <2>2. stat = "OK" /\ orphans' = orphans
    BY <1>1, <1>5, <2>1 DEF Received, Smooth
  <2>3. \A k : unique_name(k, p)' = unique_name(k, p)
    BY <1>1 DEF unique_name
  <2>4. Key(p)' = Key(p)
    BY <1>1 DEF Key
  <2> QED BY <1>1, <2>1, <2>2, <2>3, <2>4 DEF Smooth, KeyOf
<1> QED BY <1>3, <1>4, <1>5 DEF Fine

\* The helpers keep Fine: alone, a test sees no unexpected status.
LEMMA HelperFine ==
    ASSUME Types, NEW p \in Procs, NEW stat \in Stats,
           NEW next \in Calls \cup {"idle"}, NEW made \in SUBSET {"file", "dir"},
           NEW fails \in BOOLEAN, HelperStep(p, stat, next, made, fails), Mine(p), Fine(p)
    PROVE  Fine(p)'
<1>0. HelperEffect(p, stat, next, made, fails) /\ Row(p, stat, next, made, fails)
  BY HelperFacts DEF HelperStep
<1>1. /\ UNCHANGED <<pid, export, uses>> /\ pc[p] \in Calls
      /\ pc'[p] = IF fails THEN Cleanup(made, fails) ELSE next
      /\ reply'[p] = None /\ second'[p] = second[p]
      /\ failed'[p] <=> (failed[p] \/ fails)
      /\ Received(p, stat) \/ Given_up(p, stat)
  BY <1>0 DEF HelperEffect, HelperStep
<1>2. /\ Shared(p)' <=> Shared(p)
      /\ troubled[p] => troubled'[p]
      /\ ~troubled'[p] => Received(p, stat) /\ ~troubled[p]
      /\ Alone(p)' => Alone(p) /\ Received(p, stat)
  BY <1>1, CallAlone
<1>3. ASSUME Alone(p), Received(p, stat) PROVE ~fails /\ Smooth(p)'
  <2>1. Smooth(p)
    BY <1>3 DEF Fine
  <2>2. stat = reply[p].stat /\ reply[p] # None /\ orphans' = orphans
    BY <1>3 DEF Received
  <2>3. pc[p] \in {"create", "write", "mkdir", "read"} => stat = "OK"
    BY <2>1, <2>2 DEF Smooth
  <2>4. pc[p] = "badread" => stat # "OK"
    BY <2>2 DEF Mine, Reached
  <2>5. ~fails
    BY <1>0, <2>3, <2>4 DEF Row
  <2>6. pc'[p] = next
    BY <1>1, <2>5
  <2>7. \A k : unique_name(k, p)' = unique_name(k, p)
    BY <1>1 DEF unique_name
  <2>8. Key(p)' = Key(p)
    BY <1>1 DEF Key
  <2>9. \A r \in orphans' : KeyOf(r.name) # Key(p)
    BY <2>1, <2>2 DEF Smooth
  <2> DEFINE file == unique_name("file", p)
             dir == unique_name("dir", p)
  <2>10. /\ pc'[p] = "write" => pc[p] = "create" /\ fh'[p] = reply[p].fh
         /\ pc'[p] = "mkdir" => pc[p] = "write" /\ fh'[p] = fh[p]
         /\ pc'[p] = "read" => pc[p] = "mkdir" /\ fh'[p] = fh[p]
         /\ pc'[p] \notin {"getport", "mnt", "create"}
    BY <1>0, <2>3, <2>6 DEF Row, Types, ProgramTypes
  <2>11. /\ pc'[p] \in {"write", "mkdir"} => export[dir] = 0
         /\ pc'[p] \in {"write", "mkdir", "read"} => fh'[p] = export[file] /\ export[file] # 0
    BY <2>1, <2>2, <2>10 DEF Smooth
  <2>12. Smooth(p)'
    BY <1>1, <2>7, <2>8, <2>9, <2>10, <2>11 DEF Smooth, KeyOf
  <2> QED BY <2>5, <2>12
<1>4. failed'[p] => troubled'[p] \/ Shared(p)'
  <2>1. SUFFICES ASSUME failed'[p], ~troubled'[p], ~Shared(p)' PROVE FALSE
    OBVIOUS
  <2>2. ~troubled[p] /\ ~Shared(p) /\ Received(p, stat)
    BY <1>2, <2>1
  <2>3. ~failed[p]
    BY <2>2 DEF Fine
  <2>4. Alone(p)
    BY <1>1, <2>2 DEF Alone
  <2> QED BY <1>1, <1>3, <2>1, <2>2, <2>3, <2>4
<1> QED BY <1>2, <1>3, <1>4 DEF Fine

\* An answer keeps Fine: alone, a test's requests succeed.
LEMMA ServeFine ==
    ASSUME Types, Used, NEW p \in Procs, ServeStep(p), Mine(p), NEW q \in Procs, Fine(q)
    PROVE  Fine(q)'
<1> DEFINE r == Request(p)
<1>1. /\ Others(p) /\ UNCHANGED <<pid, orphans, uses>> /\ pc[p] \in Calls
      /\ pc'[p] = pc[p] /\ second'[p] = second[p] /\ reply[p] = None
      /\ root'[p] = root[p] /\ fh'[p] = fh[p] /\ failed'[p] = failed[p]
      /\ troubled'[p] = troubled[p]
      /\ reply'[p].stat = Status(r) /\ reply'[p].fh = export'[r.name] /\ CarryOut(r)
      /\ reply'[p] # None
  BY DEF ServeStep
<1>2. /\ r \in Requests /\ r.call = pc[p] /\ r.root = root[p] /\ r.fh = fh[p]
      /\ r.name = unique_name(Kind(pc[p]), p) /\ KeyOf(r.name) = Key(p)
  BY <1>1, RequestFacts DEF Types
<1>3. /\ \A n \in Names : n # r.name => export'[n] = export[n]
      /\ r.call \in {"create", "mkdir"} =>
            export'[r.name] # 0 \/ (Status(r) # "OK" /\ export' = export)
      /\ r.call \notin {"create", "mkdir", "rmdir", "remove"} => export' = export
  BY <1>1, <1>2, CarryOutFacts DEF Types
<1>4. CASE q # p
  <2>1. Alone(q) => Quiet(q)
    <3>1. SUFFICES ASSUME Alone(q) PROVE Quiet(q)
      OBVIOUS
    <3>2. Key(q) # Key(p)
      BY <1>1, <1>4, <3>1, Apart
    <3> QED BY <1>1, <1>2, <1>3, <3>2 DEF Quiet
  <2> QED BY <1>1, <1>4, <2>1, OthersFine
<1>5. CASE q = p
  <2>1. (Shared(p)' <=> Shared(p)) /\ (Alone(p)' <=> Alone(p))
    BY <1>1 DEF Shared, Alone
  <2>2. ASSUME Alone(p) PROVE Smooth(p)'
    <3> DEFINE file == unique_name("file", p)
               dir == unique_name("dir", p)
    <3>1. Smooth(p)
      BY <1>5, <2>2 DEF Fine
    <3>2. file \in Names /\ dir \in Names /\ file # dir
      BY NameFacts DEF Types
    <3>3. /\ pc[p] \in {"create", "write", "read"} => r.name = file
          /\ pc[p] = "mkdir" => r.name = dir
      BY <1>2 DEF Kind
    <3>4. pc[p] \in {"create", "mkdir"} => root[p]
      BY <3>1 DEF Smooth, Mine, Reached
    <3>5. pc[p] \in {"write", "mkdir", "read"} => fh[p] = export[file] /\ export[file] # 0
      BY <3>1 DEF Smooth
    <3>6. pc[p] = "mkdir" => export[dir] = 0
      BY <1>1, <3>1 DEF Smooth
    <3>7. pc[p] \in {"getport", "mnt", "create", "write", "mkdir", "read"} =>
            Status(r) = "OK"
      <4> HIDE DEF r, file, dir
      <4> QED BY <1>2, <3>3, <3>4, <3>5, <3>6, StatusFacts
    <3>8. /\ pc[p] \in {"getport", "mnt", "write", "read"} => export' = export
          /\ pc[p] = "create" => export'[dir] = export[dir] /\ export'[file] # 0
          /\ pc[p] = "mkdir" => export'[file] = export[file]
      <4> HIDE DEF r, file, dir
      <4>1. pc[p] \in {"getport", "mnt", "write", "read"} => export' = export
        BY <1>2, <1>3
      <4>2. pc[p] = "create" => export'[dir] = export[dir]
        BY <1>3, <3>2, <3>3
      <4>3. pc[p] = "create" => export'[file] # 0
        BY <1>2, <1>3, <3>3, <3>7
      <4>4. pc[p] = "mkdir" => export'[file] = export[file]
        BY <1>3, <3>2, <3>3
      <4> QED BY <4>1, <4>2, <4>3, <4>4
    <3>9. \A k : unique_name(k, p)' = unique_name(k, p)
      BY <1>1 DEF unique_name
    <3>10. Key(p)' = Key(p) /\ \A o \in orphans' : KeyOf(o.name) # Key(p)
      BY <1>1, <3>1 DEF Key, Smooth
    <3>11. /\ pc[p] \in {"getport", "mnt", "create", "write"} => export'[dir] = 0
           /\ pc[p] = "create" => reply'[p].fh = export'[file] /\ export'[file] # 0
           /\ pc[p] \in {"write", "mkdir", "read"} => fh[p] = export'[file] /\ export'[file] # 0
      <4>1. pc[p] \in {"getport", "mnt", "create", "write"} => export[dir] = 0
        BY <3>1 DEF Smooth
      <4> HIDE DEF r, file, dir
      <4> QED BY <1>1, <3>3, <3>5, <3>8, <4>1
    <3> HIDE DEF r
    <3> QED BY <1>1, <3>4, <3>7, <3>9, <3>10, <3>11 DEF Smooth, KeyOf
  <2> QED BY <1>1, <1>5, <2>1, <2>2 DEF Fine
<1> QED BY <1>4, <1>5

\* A death keeps Fine.
LEMMA DieFine ==
    ASSUME Types, NEW p \in Procs, DieStep(p), NEW q \in Procs, Fine(q) PROVE Fine(q)'
<1>1. UNCHANGED <<pid, export, orphans, uses, reply, second, root, fh, failed, troubled>>
  BY DEF DieStep, server, locals, history
<1>2. Shared(q)' <=> Shared(q)
  BY <1>1 DEF Shared
<1>3. CASE q = p
  <2>1. ~Alone(q)'
    BY <1>3 DEF DieStep, Alone, Calls
  <2> QED BY <1>1, <1>2, <2>1 DEF Fine
<1>4. CASE q # p
  <2>1. pc'[q] = pc[q]
    BY <1>4 DEF DieStep
  <2>2. Quiet(q)
    BY <1>1 DEF Quiet
  <2>3. Smooth(q) => Smooth(q)'
    BY <1>1, <2>1, <2>2, QuietSmooth
  <2> QED BY <1>1, <1>2, <2>1, <2>3 DEF Fine, Alone
<1> QED BY <1>3, <1>4

\* A late request keeps Fine: it has names of its own.
LEMMA LateFine ==
    ASSUME Types, NEW r \in orphans, ServeLate(r), NEW q \in Procs, Fine(q) PROVE Fine(q)'
<1>1. /\ UNCHANGED <<pid, uses, pc, reply, second, root, fh, failed, troubled>>
      /\ orphans' \subseteq orphans /\ r \in Requests /\ CarryOut(r)
  BY DEF ServeLate, locals, history, Types, ServerTypes
<1>2. (Shared(q)' <=> Shared(q)) /\ (Alone(q)' <=> Alone(q))
  BY <1>1 DEF Shared, Alone
<1>3. ASSUME Alone(q) PROVE Smooth(q)'
  <2>1. Smooth(q)
    BY <1>3 DEF Fine
  <2>2. KeyOf(r.name) # Key(q)
    BY <2>1 DEF Smooth
  <2>3. Quiet(q)
    BY <1>1, <2>2, CarryOutFacts DEF Quiet, Types
  <2> QED BY <1>1, <2>1, <2>3, QuietSmooth
<1> QED BY <1>1, <1>2, <1>3 DEF Fine

-----------------------------------------------------------------------------
(* The theorems. *)

\* The initial state satisfies the inductive invariant.
THEOREM IndInit == Init => IndInv
<1> SUFFICES ASSUME Init PROVE IndInv
  OBVIOUS
<1>1. Types
  BY TypesInit
<1>2. Cleaning /\ Used
  BY NameFacts, <1>1 DEF Init, Cleaning, Used, Types
<1>3. ASSUME NEW p \in Procs PROVE Mine(p) /\ Fine(p)
  <2>1. /\ pc[p] = "idle" /\ reply[p] = None /\ failed[p] = FALSE /\ passed[p] = Calls
        /\ tally[p] = [passed |-> 0, failed |-> 0, skipped |-> 0]
        /\ ended[p] = 0 /\ unmounted[p] = 0
    BY DEF Init
  <2>2. Reached(p) /\ Past(p)
    <3>1. None.stat = "none"
      BY DEF None
    <3>2. pc[p] = "idle" /\ reply[p] = None
      BY <2>1
    <3>3. reply[p].stat = "none"
      BY <3>1, <3>2
    <3>4. Reached(p)
      BY <2>1, <3>3 DEF Reached
    <3>5. Past(p)
      BY <3>2 DEF Past
    <3> QED BY <3>4, <3>5
  <2>3. Counted(p) /\ Real(p)
    <3>1. Total(p) = 0
      BY <2>1, SMTT(30) DEF Total
    <3>2. Real(p)
      BY <2>1 DEF Real, Calls
    <3>3. failed[p] = FALSE /\ ended[p] = 0 /\ unmounted[p] = 0
      BY <2>1
    <3>4. Counted(p)
      BY <3>1, <3>3, SMTT(30) DEF Counted
    <3> QED BY <3>2, <3>4
  <2>4. Fine(p)
    BY <2>1 DEF Fine, Alone, Calls
  <2> QED BY <2>2, <2>3, <2>4 DEF Mine
<1> QED BY <1>1, <1>2, <1>3 DEF IndInv

\* Every step of the programs, the server and the clock preserves it.
THEOREM IndNext == IndInv /\ [Next]_vars => IndInv'
<1> SUFFICES ASSUME IndInv, [Next]_vars PROVE IndInv'
  OBVIOUS
<1>0. Types /\ Cleaning /\ Used /\ \A p \in Procs : Mine(p) /\ Fine(p)
  BY DEF IndInv
<1>1. ASSUME NEW p \in Procs, RUN_TEST(p) PROVE IndInv'
  <2>1. RunStep(p) /\ Types'
    BY <1>0, <1>1, RunFacts, RunTypes
  <2>2. Cleaning' /\ Used'
    BY <1>0, <2>1, RunClean, RunUsed
  <2>3. Others(p)
    BY <2>1 DEF RunStep
  <2>4. \A q \in Procs : Mine(q)'
    BY <1>0, <2>1, <2>3, RunMine, OthersMine
  <2>5. \A q \in Procs : Fine(q)'
    BY <1>0, <2>1, RunFine
  <2> QED BY <2>1, <2>2, <2>4, <2>5 DEF IndInv
<1>2. ASSUME NEW p \in Procs, mount_root(p) PROVE IndInv'
  <2>1. Types'
    BY <1>0, <1>2, MountTypes
  <2>2. PICK stat \in Stats : MountStep(p, stat)
    BY <1>0, <1>2, MountFacts
  <2>3. /\ pc[p] \in Calls /\ Others(p) /\ (Received(p, stat) \/ Given_up(p, stat))
        /\ second'[p] = second[p] /\ UNCHANGED <<pid, export, uses>>
    BY <2>2 DEF MountStep, Calls
  <2>4. second' \in [Procs -> 0 .. MaxClock]
    BY <2>1 DEF Types, ProgramTypes
  <2>5. Cleaning' /\ Used'
    BY <1>0, <2>2, <2>3, <2>4, MountClean, CallUsed
  <2>6. \A q \in Procs : Mine(q)'
    BY <1>0, <2>1, <2>2, <2>3, MountMine, OthersMine
  <2>7. \A q \in Procs : Fine(q)'
    BY <1>0, <2>2, <2>3, MountFine, CallFine
  <2> QED BY <2>1, <2>5, <2>6, <2>7 DEF IndInv
<1>3. ASSUME NEW p \in Procs, HelperCall(p) PROVE IndInv'
  <2>1. ProgramTypes
    BY <1>0 DEF Types
  <2>2. PICK stat \in Stats, next \in Calls \cup {"idle"},
             made \in SUBSET {"file", "dir"}, fails \in BOOLEAN :
               HelperStep(p, stat, next, made, fails)
    BY <1>3, <2>1, HelperSteps
  <2>3. HelperEffect(p, stat, next, made, fails) /\ Types'
    BY <1>0, <2>2, HelperFacts, HelperTypes
  <2>4. /\ pc[p] \in Calls /\ Others(p) /\ (Received(p, stat) \/ Given_up(p, stat))
        /\ second'[p] = second[p] /\ UNCHANGED <<pid, export, uses>>
    BY <2>2, <2>3 DEF HelperStep, HelperEffect
  <2>5. second' \in [Procs -> 0 .. MaxClock]
    BY <2>3 DEF Types, ProgramTypes
  <2>6. Used'
    BY <1>0, <2>4, <2>5, CallUsed
  <2>7. Cleaning' /\ Mine(p)' /\ Fine(p)'
    BY <1>0, <2>2, <2>3, HelperClean, HelperMine, HelperFine
  <2>8. \A q \in Procs \ {p} : Mine(q)' /\ Fine(q)'
    BY <1>0, <2>4, OthersMine, CallFine
  <2> QED BY <2>3, <2>6, <2>7, <2>8 DEF IndInv
<1>4. ASSUME NEW p \in Procs, Dies(p) PROVE IndInv'
  <2>1. DieStep(p) /\ Types'
    BY <1>0, <1>4, DieFacts, OtherTypes
  <2> QED BY <1>0, <2>1, DieClean, DieUsed, DieMine, DieFine DEF IndInv
<1>5. ASSUME NEW p \in Procs, Serve(p) PROVE IndInv'
  <2>1. ServeStep(p) /\ Types'
    BY <1>0, <1>5, ServeFacts, ServeTypes
  <2>2. Others(p)
    BY <2>1 DEF ServeStep
  <2>3. Cleaning' /\ Used'
    BY <1>0, <2>1, ServeClean, ServeUsed
  <2>4. \A q \in Procs : Mine(q)'
    BY <1>0, <2>1, <2>2, ServeMine, OthersMine
  <2>5. \A q \in Procs : Fine(q)'
    BY <1>0, <2>1, ServeFine
  <2> QED BY <2>1, <2>3, <2>4, <2>5 DEF IndInv
<1>6. ASSUME NEW r \in orphans, ServeLate(r) PROVE IndInv'
  <2>1. Types'
    BY <1>0, <1>6, OtherTypes
  <2>2. UNCHANGED <<pc, reply, root, created, failed, troubled, done, tally, ended,
                    unmounted, passed>>
    BY <1>6 DEF ServeLate, locals, history
  <2>3. ASSUME NEW q \in Procs PROVE Mine(q)'
    <3>1. Mine(q)
      BY <1>0
    <3> QED BY <2>2, <3>1 DEF Mine, Reached, Past, Counted, Total, Real
  <2> QED BY <1>0, <1>6, <2>1, <2>3, LateClean, LateUsed, LateFine DEF IndInv
<1>7. CASE Tick \/ UNCHANGED vars
  <2>1. Types'
    BY <1>0, <1>7, OtherTypes
  <2>2. UNCHANGED <<pid, export, orphans, pc, reply, locals, tally, history>>
    BY <1>7 DEF Tick, vars, server
  <2>3. ASSUME NEW q \in Procs PROVE Mine(q)'
    <3>1. Mine(q)
      BY <1>0
    <3>2. UNCHANGED <<pc, reply, root, created, failed, troubled, done, tally, ended,
                      unmounted, passed>>
      BY <2>2 DEF locals, history
    <3> QED BY <3>1, <3>2 DEF Mine, Reached, Past, Counted, Total, Real
  <2>4. Cleaning'
    BY <1>0, <2>2 DEF Cleaning, Cleans, unique_name, locals, history
  <2>5. Used'
    BY <1>0, <2>2 DEF Used, Key, KeyOf, locals, history
  <2>6. \A q \in Procs : Fine(q)'
    BY <1>0, <2>2 DEF Fine, Alone, Shared, Smooth, unique_name, Key, KeyOf, locals, history
  <2> QED BY <2>1, <2>3, <2>4, <2>5, <2>6 DEF IndInv
<1> QED BY <1>1, <1>2, <1>3, <1>4, <1>5, <1>6, <1>7 DEF Next, HelperCall

\* So it always holds.
THEOREM Invariance == Spec => []IndInv
BY IndInit, IndNext, PTL DEF Spec

\* However many programs run, whatever calls are lost and whenever the server
\* carries them out: what is left was named in a lost call or its maker died.
THEOREM Leftovers == Spec => []LeftoverExplained
<1>1. IndInv => LeftoverExplained
  BY DEF IndInv, Cleaning, Cleans, LeftoverExplained
<1> QED BY <1>1, Invariance, PTL

\* A test fails only for a lost call of its own or a name it shares.
THEOREM Failures == Spec => []FailureExplained
<1>1. IndInv => FailureExplained
  BY DEF IndInv, Fine, FailureExplained
<1> QED BY <1>1, Invariance, PTL

\* The counters of test_framework.h add up, with one more for a failed mount.
THEOREM Counts == Spec => []CountedOnce
<1>1. IndInv => CountedOnce
  BY DEF IndInv, Mine, Counted, Total, CountedOnce
<1> QED BY <1>1, Invariance, PTL

\* TEST_PASS() is reached only with everything done that the test is about.
THEOREM Passes == Spec => []PassIsReal
<1>1. IndInv => PassIsReal
  BY DEF IndInv, Mine, Real, PassIsReal
<1> QED BY <1>1, Invariance, PTL

=============================================================================
