------------------------------- MODULE SyncRpc -------------------------------
(***************************************************************************)
(* What an RpcClient promises its caller, whatever the stream does: a call *)
(* ends in success or in failure; the server carries its request out at    *)
(* most once; a success means that it has.  A failure leaves both open:    *)
(* the request may have been carried out, or may still be.                 *)
(* NFS3TestClient and MountClient, over such a client, promise the same.   *)
(***************************************************************************)
VARIABLES
    phase,     \* "idle", "busy" or "dead"
    done,      \* the server has carried out the request of the latest call
    outcome    \* of the latest call: "none" while busy, "ok" or "fail"

vars == <<phase, done, outcome>>

Init == phase = "idle" /\ done = FALSE /\ outcome = "none"

Begin ==
    /\ phase = "idle"
    /\ phase' = "busy"
    /\ done' = FALSE
    /\ outcome' = "none"

Execute ==
    /\ ~done
    /\ done' = TRUE
    /\ UNCHANGED <<phase, outcome>>

Succeed ==
    /\ phase = "busy"
    /\ done
    /\ phase' = "idle"
    /\ outcome' = "ok"
    /\ UNCHANGED done

Fail ==
    /\ phase = "busy"
    /\ phase' = "idle"
    /\ outcome' = "fail"
    /\ UNCHANGED done

\* A call that never leaves the client.
Refuse ==
    /\ phase = "idle"
    /\ outcome' = "fail"
    /\ done' = FALSE
    /\ UNCHANGED phase

\* connect, disconnect, the fixture's TearDown(): the latest call is forgotten.
Forget ==
    /\ phase = "idle"
    /\ outcome' = "none"
    /\ done' = FALSE
    /\ UNCHANGED phase

Die ==
    /\ phase = "idle"
    /\ phase' = "dead"
    /\ done' = FALSE
    /\ outcome' = "none"

Next == Begin \/ Execute \/ Succeed \/ Fail \/ Refuse \/ Forget \/ Die
Spec == Init /\ [][Next]_vars
=============================================================================
