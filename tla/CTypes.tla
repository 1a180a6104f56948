------------------------------- MODULE CTypes -------------------------------
(***************************************************************************)
(* The heap memory of the C test library's NFSv3 types: nfs3_types.c and   *)
(* the unpackers of nfs3_xdr.c.  A struct owns the strings, handles, data  *)
(* and list entries that its pointers point to.  A test initialises it,    *)
(* sets its members, unpacks messages into it, perhaps over what it holds, *)
(* and destroys it, in any order and as often as it likes.                 *)
(*                                                                         *)
(* A pointer is a block, NULL, or Wild: the value of a local that was      *)
(* never assigned, where it is no block's address.  malloc, calloc and     *)
(* strdup succeed.                                                         *)
(***************************************************************************)
EXTENDS Integers, Sequences

CONSTANTS
    Blocks,         \* addresses of blocks
    MaxEntries      \* bound on the entries of a directory list

NULL == 0
Wild == -1

ASSUME CTypesAssumption == Blocks \subseteq Nat \ {0} /\ MaxEntries \in Nat

\* The owning members of each type, in the order its unpacker reads them: an
\* nfs_fh3_t, a string, or the data of WRITE.
nfs_fh3 == <<"fh">>
LOOKUP3args == <<"fh", "str">>
WRITE3args == <<"fh", "data">>
CREATE3args == <<"fh", "str">>
REMOVE3args == <<"fh", "str">>
RMDIR3args == <<"fh", "str">>
RENAME3args == <<"fh", "str", "fh", "str">>
LINK3args == <<"fh", "fh", "str">>
MKDIR3args == <<"fh", "str">>
SYMLINK3args == <<"fh", "str", "str">>
MKNOD3args == <<"fh", "str">>
Args == {nfs_fh3, LOOKUP3args, WRITE3args, CREATE3args, REMOVE3args, RMDIR3args,
         RENAME3args, LINK3args, MKDIR3args, SYMLINK3args, MKNOD3args}

\* Those of the results, whose unpackers destroy them first; "opt_fh" may be
\* left out of a message.
LOOKUP3res == <<"fh">>
READ3res == <<"opaque">>
CREATE3res == <<"opt_fh">>
READLINK3res == <<"cstring">>
MKDIR3res == <<"opt_fh">>
SYMLINK3res == <<"opt_fh">>
MKNOD3res == <<"opt_fh">>
Results == {LOOKUP3res, READ3res, CREATE3res, READLINK3res, MKDIR3res, SYMLINK3res,
            MKNOD3res}

\* Directory lists: an entry has a block of its own, a name and, in entryplus3,
\* a handle.  Entry k has the slots 3k-2 to 3k.
READDIR3res == <<"entry3">>
READDIRPLUS3res == <<"entryplus3">>
Lists == {READDIR3res, READDIRPLUS3res}

Slots == 1 .. (4 + 3 * MaxEntries)

VARIABLES
    type, result,   \* the members of the struct; whether it is a result
    own,            \* its pointers
    heap,           \* blocks allocated
    at,             \* what is unpacked next; 0: nothing is
    cut,            \* history: some read went behind the end of its message
    fault           \* something was freed that was not allocated

vars == <<type, result, own, heap, at, cut, fault>>

Init ==
    /\ \/ type \in Args /\ result = FALSE
       \/ type \in Results \cup Lists /\ result = TRUE
    /\ own = [i \in Slots |-> NULL]     \* X_init: memset
    /\ heap = {} /\ at = 0
    /\ cut = FALSE /\ fault = FALSE

-----------------------------------------------------------------------------

\* free() of the pointers in some slots, one after the other.
free(slots) ==
    /\ heap' = heap \ {own[i] : i \in slots}
    /\ fault' = ~ \A i \in slots :
        \/ own[i] = NULL
        \/ own[i] \in heap /\ \A j \in slots : own[j] = own[i] => j = i

\* free() of a member that gets a new block.
replace(i, b) ==
    /\ heap' = (heap \ {own[i]}) \cup {b}
    /\ fault' = (own[i] # NULL /\ own[i] \notin heap)
    /\ own' = [own EXCEPT ![i] = b]

\* A member gets a new block, whatever it held.
assign(i, b) ==
    /\ heap' = heap \cup {b}
    /\ own' = [own EXCEPT ![i] = b]
    /\ fault' = fault

\* malloc() gives out any block that is free, one just freed included.
malloc == Blocks \ heap
malloc_after(i) == Blocks \ (heap \ {own[i]})

\* What a local that was never assigned may hold.
Unassigned == Blocks \cup {NULL, Wild}

\* X_destroy, and X_init of a struct that was destroyed.
destroy_no_memset ==
    /\ at = 0 /\ ~fault
    /\ free(Slots)
    /\ UNCHANGED <<type, result, own, at, cut>>
destroy ==
    /\ at = 0 /\ ~fault
    /\ free(Slots)
    /\ own' = [i \in Slots |-> NULL]
    /\ UNCHANGED <<type, result, at, cut>>

\* nfs_fh3_set, X_set_name and set_data: the old value is freed; no bytes, or
\* no string, leave NULL.
set(i) ==
    /\ at = 0 /\ ~fault
    /\ i \in DOMAIN type /\ ~result /\ type[i] \in {"fh", "str"}
    /\ \/ \E b \in malloc_after(i) : replace(i, b)
       \/ free({i}) /\ own' = [own EXCEPT ![i] = NULL]
    /\ UNCHANGED <<type, result, at, cut>>

\* A test gives WRITE3args its data, and nfs3_read_data takes those of READ.
set_write_data ==
    /\ at = 0 /\ ~fault
    /\ type = WRITE3args /\ own[2] = NULL
    /\ \E b \in malloc : assign(2, b)
    /\ UNCHANGED <<type, result, at, cut>>
take_read_data ==
    /\ at = 0 /\ ~fault
    /\ type = READ3res
    /\ heap' = heap \ {own[1]}
    /\ own' = [own EXCEPT ![1] = NULL]
    /\ UNCHANGED <<type, result, at, cut, fault>>

-----------------------------------------------------------------------------
(* Unpacking.  No unpacker looks at whether a read succeeds. *)

\* The start: a result is destroyed and its status read; only NFS3_OK has more.
unpack ==
    /\ at = 0 /\ ~fault
    /\ IF result THEN free(Slots) /\ own' = [i \in Slots |-> NULL]
                 ELSE UNCHANGED <<own, heap, fault>>
    /\ at' \in IF result THEN {0, 1} ELSE {1}
    /\ cut' \in {cut, cut \/ result}
    /\ UNCHANGED <<type, result>>

Unpacking(kinds) == ~fault /\ at \in DOMAIN type /\ type[at] \in kinds
Unpacked == at' = IF at = Len(type) THEN 0 ELSE at + 1

\* xdr_unpack_nfs_fh3 reads into a local, destroys the old handle and takes the
\* local over, assigned or not.
unpack_nfs_fh3_no_destroy ==
    /\ Unpacking({"fh", "opt_fh"})
    /\ \/ (\E b \in malloc : assign(at, b)) /\ cut' = cut
       \/ type[at] = "opt_fh" /\ UNCHANGED <<own, heap, cut, fault>>
       \/ /\ cut' = TRUE
          /\ free({at})
          /\ \E d \in Unassigned : own' = [own EXCEPT ![at] = d]
    /\ Unpacked
    /\ UNCHANGED <<type, result>>
unpack_nfs_fh3 ==
    /\ Unpacking({"fh", "opt_fh"})
    /\ \/ (\E b \in malloc : replace(at, b)) /\ cut' = cut
       \/ type[at] = "opt_fh" /\ UNCHANGED <<own, heap, cut, fault>>
       \/ /\ cut' = TRUE
          /\ free({at})
          /\ \E d \in Unassigned : own' = [own EXCEPT ![at] = d]
    /\ Unpacked
    /\ UNCHANGED <<type, result>>

\* The members of arguments are freed before they are read; where the read
\* fails the pointer keeps its old value.
unpack_member ==
    /\ Unpacking({"str", "data"})
    /\ \/ (\E b \in malloc_after(at) : replace(at, b)) /\ cut' = cut
       \/ cut' = TRUE /\ free({at}) /\ own' = own
    /\ Unpacked
    /\ UNCHANGED <<type, result>>

\* READ's data come by a local, READLINK's do not.
unpack_data ==
    /\ Unpacking({"opaque", "cstring"})
    /\ \/ (\E b \in malloc : assign(at, b)) /\ cut' = cut
       \/ /\ cut' = TRUE
          /\ \E d \in IF type[at] = "opaque" THEN Unassigned ELSE {own[at]} :
                own' = [own EXCEPT ![at] = d]
          /\ UNCHANGED <<heap, fault>>
    /\ Unpacked
    /\ UNCHANGED <<type, result>>

\* An entry is allocated zeroed when a flag says that there is one.
unpack_entry ==
    /\ ~fault /\ type \in Lists /\ at \in 1 .. MaxEntries
    /\ \E entry \in malloc : \E name \in malloc \ {entry} :
        \E handle \in {NULL} \cup (malloc \ {entry, name}) :
            /\ handle # NULL => type = READDIRPLUS3res
            /\ own' = [own EXCEPT ![3 * at - 2] = entry, ![3 * at - 1] = name,
                                  ![3 * at] = handle]
            /\ heap' = heap \cup ({entry, name, handle} \ {NULL})
    /\ at' = at + 1
    /\ UNCHANGED <<type, result, cut, fault>>

\* The message ends within the entry: its name stays NULL, and its handle may
\* be taken over from a local.
unpack_entry_cut ==
    /\ ~fault /\ type \in Lists /\ at \in 1 .. MaxEntries
    /\ cut' = TRUE
    /\ \E entry \in malloc :
        \E handle \in IF type = READDIRPLUS3res THEN Unassigned ELSE {NULL} :
            /\ own' = [own EXCEPT ![3 * at - 2] = entry, ![3 * at] = handle]
            /\ heap' = heap \cup {entry}
    /\ at' = at + 1
    /\ UNCHANGED <<type, result, fault>>
unpack_list_ends ==
    /\ ~fault /\ type \in Lists /\ at # 0
    /\ at' = 0 /\ cut' \in {cut, TRUE}
    /\ UNCHANGED <<type, result, own, heap, fault>>

Next ==
    \/ destroy \/ (\E i \in 1 .. 4 : set(i)) \/ set_write_data \/ take_read_data
    \/ unpack \/ unpack_nfs_fh3 \/ unpack_member \/ unpack_data
    \/ unpack_entry \/ unpack_entry_cut \/ unpack_list_ends

Spec == Init /\ [][Next]_vars

-----------------------------------------------------------------------------
(* Properties. *)

\* Nothing leaks, in any sequence of set, unpack and destroy, whether messages
\* are whole or cut: every block that is allocated hangs on the struct.
NoLeak == heap \subseteq {own[i] : i \in Slots}

\* As long as every message was whole, nothing is freed twice and nothing that
\* was not allocated, in whatever order a struct is filled, reused and
\* destroyed.  The unpackers look at no return value (nfs3_xdr.c:22-30, 296),
\* so that a cut message ends this.
FreedOnce == fault => cut

=============================================================================
