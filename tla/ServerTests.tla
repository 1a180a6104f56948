---------------------------- MODULE ServerTests ----------------------------
(***************************************************************************)
(* C test programs running against one NFS server, perhaps on several      *)
(* hosts, with the helpers of tests/nfs3_server_test.c and the counters of *)
(* tests/test_framework.h.  The test is that of test_nfs3_io_c.c:171,      *)
(* repeated: it mounts, makes a file and a directory, writes, reads, reads *)
(* the directory, which must fail, and cleans up.  One step stands for the *)
(* test's seven good READs, one for its two bad ones; the two names of a   *)
(* test are made in the same second.                                       *)
(*                                                                         *)
(* Every helper makes its call on a connection of its own.  A call may     *)
(* fail at any time, and the server may carry its request out later, after *)
(* the program went on: that is what the RPC client promises (SyncRpc).    *)
(***************************************************************************)
EXTENDS Integers

CONSTANTS
    Procs,          \* the test programs
    Pids,           \* process ids; those of two hosts may be the same
    MaxTests,       \* bound on the tests, of all programs
    MaxClock,       \* bound on the seconds
    MaxLost         \* bound on the calls that fail

ASSUME ServerTestsAssumption ==
    {MaxTests, MaxClock, MaxLost} \subseteq Nat

VARIABLES
    config,         \* NFS_TEST_SERVER etc. "set", "unset", or "required"
    clock, pid,     \* time(NULL); getpid() of each program
    export,         \* the incarnation of each name in the export; 0: absent
    born,           \* incarnations so far
    orphans,        \* requests whose callers have given up
    pc,             \* the call each program is in, "idle" or "dead"
    reply,          \* its status and handle, once the server has answered
    second,         \* that the test's names were made in
    root, created, fh,  \* root_fh is set; file_created, dir_created; file_fh
    failed,         \* the local of that name
    tally,          \* tests_passed, tests_failed, tests_skipped
    \* History:
    begun, lost, ended, unmounted, uses, lossy, troubled, done, passed

server == <<config, clock, pid, export, born, orphans>>
locals == <<second, root, created, fh, failed>>
history == <<begun, lost, ended, unmounted, uses, lossy, troubled, done, passed>>
vars == <<server, pc, reply, locals, tally, history>>

Names == {"file", "dir"} \X Pids \X (0 .. MaxClock)
None == [stat |-> "none", fh |-> 0]
Calls == {"getport", "mnt", "create", "write", "mkdir", "read", "badread",
          "rmdir", "remove"}

Init ==
    /\ config \in {"set", "unset", "required"}
    /\ clock = 0 /\ pid \in [Procs -> Pids]
    /\ export = [n \in Names |-> 0] /\ born = [n \in Names |-> 0]
    /\ orphans = {}
    /\ pc = [p \in Procs |-> "idle"] /\ reply = [p \in Procs |-> None]
    /\ second = [p \in Procs |-> 0] /\ root = [p \in Procs |-> FALSE]
    /\ created = [p \in Procs |-> {}] /\ fh = [p \in Procs |-> 0]
    /\ failed = [p \in Procs |-> FALSE]
    /\ tally = [p \in Procs |-> [passed |-> 0, failed |-> 0, skipped |-> 0]]
    /\ begun = 0 /\ lost = 0 /\ ended = [p \in Procs |-> 0]
    /\ unmounted = [p \in Procs |-> 0]
    /\ uses = [k \in Pids \X (0 .. MaxClock) |-> 0]
    /\ lossy = {} /\ troubled = [p \in Procs |-> FALSE]
    /\ done = [p \in Procs |-> {}] /\ passed = [p \in Procs |-> Calls]

\* nfs3_unique_name: prefix, process id and second.
unique_name_no_pid(kind, p) == <<kind, CHOOSE i \in Pids : TRUE, second[p]>>
unique_name(kind, p) == <<kind, pid[p], second[p]>>

-----------------------------------------------------------------------------
(* The server. *)

Kind(call) == IF call \in {"mkdir", "rmdir", "badread"} THEN "dir" ELSE "file"
Request(p) == [call |-> pc[p], name |-> unique_name(Kind(pc[p]), p),
               root |-> root[p], fh |-> fh[p]]

Status(r) ==
    IF r.call \in {"getport", "mnt"} THEN "OK"
    ELSE IF r.call \in {"write", "read"}
         THEN IF r.fh # 0 /\ export[r.name] = r.fh THEN "OK" ELSE "STALE"
    ELSE IF r.call = "badread"
         THEN IF export[r.name] # 0 THEN "ISDIR" ELSE "STALE"
    ELSE IF ~r.root THEN "BADHANDLE"
    ELSE IF r.call = "mkdir" /\ export[r.name] # 0 THEN "EXIST"
    ELSE IF r.call \in {"rmdir", "remove"} /\ export[r.name] = 0 THEN "NOENT"
    ELSE "OK"

\* CREATE is UNCHECKED: it leaves a file that is there as it is.
CarryOut(r) ==
    IF Status(r) # "OK" THEN UNCHANGED <<export, born>>
    ELSE IF r.call \in {"create", "mkdir"} /\ export[r.name] = 0
         THEN /\ born' = [born EXCEPT ![r.name] = @ + 1]
              /\ export' = [export EXCEPT ![r.name] = born[r.name] + 1]
    ELSE IF r.call \in {"rmdir", "remove"}
         THEN export' = [export EXCEPT ![r.name] = 0] /\ born' = born
    ELSE UNCHANGED <<export, born>>

Serve(p) ==
    /\ pc[p] \in Calls /\ reply[p] = None
    /\ LET stat == Status(Request(p))
       IN  /\ CarryOut(Request(p))
           /\ reply' = [reply EXCEPT ![p] =
                            [stat |-> stat, fh |-> export'[Request(p).name]]]
           /\ done' = [done EXCEPT ![p] = IF stat = "OK" \/ pc[p] = "badread"
                                          THEN @ \cup {pc[p]} ELSE @]
    /\ UNCHANGED <<config, clock, pid, orphans, pc, locals, tally, begun, lost,
                   ended, unmounted, uses, lossy, troubled, passed>>

ServeLate(r) ==
    /\ CarryOut(r)
    /\ orphans' = orphans \ {r}
    /\ UNCHANGED <<config, clock, pid, pc, reply, locals, tally, history>>

Tick ==
    /\ clock < MaxClock
    /\ clock' = clock + 1
    /\ UNCHANGED <<config, pid, export, born, orphans, pc, reply, locals, tally,
                   history>>

-----------------------------------------------------------------------------
(* The helpers.  Each returns the server's status or that of the RPC layer. *)

rpc_call_bytes_unchecked(p, stat) ==
    /\ reply' = [reply EXCEPT ![p] = None]
    /\ \/ /\ stat = reply[p].stat /\ reply[p] # None
          /\ UNCHANGED <<orphans, lost, lossy, troubled>>
       \/ /\ stat = "OK" /\ lost < MaxLost
          /\ lost' = lost + 1
          /\ lossy' = lossy \cup {Request(p).name}
          /\ troubled' = [troubled EXCEPT ![p] = TRUE]
          /\ UNCHANGED orphans

\* rpc_call_bytes: with its failure nothing is known of the request, which the
\* server may never see, may have carried out, or may still carry out.
rpc_call_bytes(p, stat) ==
    /\ reply' = [reply EXCEPT ![p] = None]
    /\ \/ /\ stat = reply[p].stat /\ reply[p] # None
          /\ UNCHANGED <<orphans, lost, lossy, troubled>>
       \/ /\ stat = "RPC" /\ lost < MaxLost
          /\ lost' = lost + 1
          /\ orphans' \in {orphans} \cup
                IF reply[p] = None THEN {orphans \cup {Request(p)}} ELSE {}
          /\ lossy' = lossy \cup {Request(p).name}
          /\ troubled' = [troubled EXCEPT ![p] = TRUE]

Stats == {"OK", "STALE", "ISDIR", "BADHANDLE", "EXIST", "NOENT", "RPC"}

\* A check that fails goes to cleanup, which calls no helper for what was not
\* reported as made; the end of the test is TEST_PASS() if nothing failed.
Cleanup_not_if_failed(made, fails) ==
    IF fails THEN "idle" ELSE "rmdir"
Cleanup(made, fails) ==
    IF "dir" \in made THEN "rmdir" ELSE IF "file" \in made THEN "remove" ELSE "idle"
TEST_PASS_always(p, fails) == 1
TEST_PASS(p, fails) == IF failed[p] \/ fails THEN 0 ELSE 1

Proceed(p, next, made, fails) ==
    LET step == IF fails THEN Cleanup(made, fails) ELSE next
        ends == step = "idle"
        pass == IF ends THEN TEST_PASS(p, fails) ELSE 0
    IN  /\ pc' = [pc EXCEPT ![p] = step]
        /\ created' = [created EXCEPT ![p] = made]
        /\ failed' = [failed EXCEPT ![p] = @ \/ fails]
        /\ tally' = [tally EXCEPT ![p].failed = @ + IF fails THEN 1 ELSE 0,
                                  ![p].passed = @ + pass]
        /\ ended' = [ended EXCEPT ![p] = @ + IF ends THEN 1 ELSE 0]
        /\ passed' = [passed EXCEPT ![p] =
                        IF pass = 0 THEN @
                        ELSE done[p] \cup IF troubled'[p] THEN {"badread"} ELSE {}]

\* REQUIRE_SERVER_OR_SKIP, then the names.
RUN_TEST(p) ==
    /\ pc[p] = "idle" /\ begun < MaxTests
    /\ begun' = begun + 1
    /\ IF config = "set"
       THEN /\ pc' = [pc EXCEPT ![p] = "getport"]
            /\ second' = [second EXCEPT ![p] = clock]
            /\ uses' = [uses EXCEPT ![<<pid[p], clock>>] = @ + 1]
            /\ UNCHANGED <<tally, ended>>
       ELSE /\ tally' = IF config = "required"
                        THEN [tally EXCEPT ![p].failed = @ + 1]
                        ELSE [tally EXCEPT ![p].skipped = @ + 1]
            /\ ended' = [ended EXCEPT ![p] = @ + 1]
            /\ UNCHANGED <<pc, second, uses>>
    /\ root' = [root EXCEPT ![p] = FALSE]
    /\ created' = [created EXCEPT ![p] = {}] /\ fh' = [fh EXCEPT ![p] = 0]
    /\ failed' = [failed EXCEPT ![p] = FALSE]
    /\ troubled' = [troubled EXCEPT ![p] = FALSE]
    /\ done' = [done EXCEPT ![p] = {}]
    /\ UNCHANGED <<server, reply, lost, unmounted, lossy, passed>>

\* nfs3_mount_root.  The assertion in the test's mount_root returns from
\* mount_root: it is counted, and the test goes on without a root handle.
mount_root(p) ==
    \E stat \in Stats :
        /\ pc[p] \in {"getport", "mnt"}
        /\ rpc_call_bytes(p, stat)
        /\ IF stat = "OK" /\ pc[p] = "getport"
           THEN /\ pc' = [pc EXCEPT ![p] = "mnt"]
                /\ UNCHANGED <<root, tally, unmounted>>
           ELSE /\ pc' = [pc EXCEPT ![p] = "create"]
                /\ root' = [root EXCEPT ![p] = stat = "OK"]
                /\ IF stat = "OK" THEN UNCHANGED <<tally, unmounted>>
                   ELSE /\ tally' = [tally EXCEPT ![p].failed = @ + 1]
                        /\ unmounted' = [unmounted EXCEPT ![p] = @ + 1]
        /\ UNCHANGED <<config, clock, pid, export, born, second, created, fh, failed,
                       begun, ended, uses, done, passed>>

\* A helper that the test calls from the line its pc stands for.
Helper(p, call, stat) ==
    /\ pc[p] = call
    /\ rpc_call_bytes(p, stat)
    /\ UNCHANGED <<config, clock, pid, export, born, second, root, begun, unmounted,
                   uses, done>>

create_test_file(p) ==
    \E stat \in Stats :
        /\ Helper(p, "create", stat)
        /\ Proceed(p, "write", IF stat = "OK" THEN {"file"} ELSE {}, stat # "OK")
        /\ fh' = [fh EXCEPT ![p] = IF stat = "OK" THEN reply[p].fh ELSE @]

write_data(p) ==
    \E stat \in Stats :
        /\ Helper(p, "write", stat)
        /\ Proceed(p, "mkdir", created[p], stat # "OK")
        /\ fh' = fh

create_test_dir(p) ==
    \E stat \in Stats :
        /\ Helper(p, "mkdir", stat)
        /\ Proceed(p, "read", IF stat = "OK" THEN {"file", "dir"} ELSE {"file"},
                   stat # "OK")
        /\ fh' = fh

read_data(p) ==
    \E stat \in Stats :
        /\ Helper(p, "read", stat)
        /\ Proceed(p, "badread", created[p], stat # "OK")
        /\ fh' = fh

\* READ with the directory's handle: any status but NFS3_OK will do.
read_dir(p) ==
    \E stat \in Stats :
        /\ Helper(p, "badread", stat)
        /\ Proceed(p, "rmdir", created[p], stat = "OK")
        /\ fh' = fh

\* The cleanup looks at no result.
rmdir_test_dir(p) ==
    \E stat \in Stats :
        Helper(p, "rmdir", stat) /\ Proceed(p, "remove", created[p], FALSE) /\ fh' = fh
remove_test_file(p) ==
    \E stat \in Stats :
        Helper(p, "remove", stat) /\ Proceed(p, "idle", created[p], FALSE) /\ fh' = fh

\* The server closes the connection under the write of the request: SIGPIPE.
Dies(p) ==
    /\ pc[p] \in Calls /\ reply[p] = None
    /\ pc' = [pc EXCEPT ![p] = "dead"]
    /\ UNCHANGED <<server, reply, locals, tally, history>>

Next ==
    \/ \E p \in Procs :
        \/ RUN_TEST(p) \/ mount_root(p) \/ create_test_file(p) \/ write_data(p)
        \/ create_test_dir(p) \/ read_data(p) \/ read_dir(p) \/ rmdir_test_dir(p)
        \/ remove_test_file(p) \/ Dies(p) \/ Serve(p)
    \/ \E r \in orphans : ServeLate(r)
    \/ Tick

Spec == Init /\ [][Next]_vars

-----------------------------------------------------------------------------
(* Properties. *)

\* Two tests with the same names: the same process id (on two hosts, or in one
\* program) and the same second.
Shared(p) == uses[<<pid[p], second[p]>>] > 1

\* What is left in the export when every program has ended and the server has
\* nothing to do was named in a call that failed, or its maker died: the goto
\* cleanup of the tests reaches whatever a helper reported as made, in every
\* order of two tests that share names.
LeftoverExplained ==
    orphans = {} /\ (\A p \in Procs : pc[p] \in {"idle", "dead"}) =>
        \A n \in Names : export[n] # 0 =>
            \/ n \in lossy
            \/ \E p \in Procs : pc[p] = "dead" /\ n = unique_name(n[1], p)

\* A test fails only if one of its own calls failed or another test had its
\* names (nfs3_server_test.c:204): other programs, what they left and what they
\* gave up do not disturb it.
FailureExplained ==
    \A p \in Procs : failed[p] => troubled[p] \/ Shared(p)

\* Every test that ended is counted once, and once more if it could not mount:
\* the assertion in mount_root ends the helper and not the test.
CountedOnce ==
    \A p \in Procs :
        tally[p].passed + tally[p].failed + tally[p].skipped =
            ended[p] + unmounted[p] + IF failed[p] /\ pc[p] # "idle" THEN 1 ELSE 0

\* A test that passed made its file and its directory, wrote and read, and the
\* server refused to read the directory; only the refusal may be a call that
\* failed (test_nfs3_io_c.c:222 takes any status but NFS3_OK for a refusal).
PassIsReal ==
    \A p \in Procs : {"create", "write", "mkdir", "read", "badread"} \subseteq passed[p]

=============================================================================
