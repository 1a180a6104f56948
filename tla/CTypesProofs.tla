---------------------------- MODULE CTypesProofs ----------------------------
(***************************************************************************)
(* NoLeak and FreedOnce for any heap and directory lists of any length.    *)
(***************************************************************************)
EXTENDS CTypes, TLAPS

\* Leaves that need no arithmetic and that SMT does not find cite Zenon.
USE SMTT(30)

Pointers == Blocks \cup {NULL, Wild}

\* Every pointer owns its block, and no other does.
Sound ==
    /\ \A i \in Slots : own[i] = NULL \/ own[i] \in heap
    /\ \A i, j \in Slots : own[i] = own[j] /\ own[i] # NULL => i = j

Mem ==
    /\ own \in [Slots -> Pointers]
    /\ heap \subseteq Blocks
    /\ NoLeak /\ FreedOnce
    /\ cut \in BOOLEAN /\ fault \in BOOLEAN
    /\ ~cut => Sound

Kinds ==
    /\ result => type \in Results \cup Lists
    /\ ~result => type \in Args
    /\ result \in BOOLEAN

\* What an unpacker assigns without freeing holds nothing yet.
Fresh ==
    /\ at \in Nat
    /\ result /\ type \in Results /\ at # 0 =>
        at = 1 /\ \A i \in Slots : own[i] = NULL
    /\ type \in Lists /\ at # 0 =>
        \A i \in Slots : i >= 3 * at - 2 => own[i] = NULL

IndInv == Mem /\ Kinds /\ Fresh

-----------------------------------------------------------------------------
(* The members of the types. *)

\* Which members a type has and which of them a result can have.
LEMMA Members ==
    ASSUME Kinds
    PROVE  /\ DOMAIN type \subseteq 1 .. 4
           /\ result /\ type \in Results => DOMAIN type = 1 .. 1 /\ Len(type) = 1
           /\ \A i \in DOMAIN type :
                /\ type[i] \in {"str", "data"} => ~result
                /\ type[i] \in {"opaque", "cstring", "opt_fh"} => result /\ type \in Results
                /\ type \in Lists => type[i] \in {"entry3", "entryplus3"}
           /\ type \in Lists => result
<1> USE DEF Kinds, Args, Results, Lists, nfs_fh3, LOOKUP3args, WRITE3args, CREATE3args,
            REMOVE3args, RMDIR3args, RENAME3args, LINK3args, MKDIR3args, SYMLINK3args,
            MKNOD3args, LOOKUP3res, READ3res, CREATE3res, READLINK3res, MKDIR3res,
            SYMLINK3res, MKNOD3res, READDIR3res, READDIRPLUS3res
<1>1. CASE result
  <2>1. type \in {<<"fh">>, <<"opaque">>, <<"cstring">>, <<"opt_fh">>, <<"entry3">>,
                  <<"entryplus3">>}
    BY <1>1
  <2> QED BY <1>1, <2>1
<1>2. CASE ~result
  <2>1. type \in {<<"fh">>, <<"fh", "str">>, <<"fh", "data">>, <<"fh", "fh", "str">>,
                  <<"fh", "str", "str">>, <<"fh", "str", "fh", "str">>}
    BY <1>2
  <2> QED BY <1>2, <2>1
<1> QED BY <1>1, <1>2 DEF Kinds

-----------------------------------------------------------------------------
(* What the primitives do to the heap. *)

\* Blocks are neither NULL nor wild.
LEMMA BlockFacts == NULL \notin Blocks /\ Wild \notin Blocks /\ NULL # Wild
BY CTypesAssumption DEF NULL, Wild

\* X_destroy keeps Mem.
LEMMA DestroyMem ==
    ASSUME Mem, ~fault, free(Slots), own' = [i \in Slots |-> NULL],
           cut' \in BOOLEAN, cut => cut'
    PROVE  Mem'
<1>1. own' \in [Slots -> Pointers] /\ heap' = {}
  BY DEF Mem, NoLeak, Pointers, free
<1>2. FreedOnce' /\ fault' \in BOOLEAN
  BY DEF Mem, Sound, FreedOnce, free
<1>3. Sound'
  BY DEF Sound
<1>4. NoLeak'
  BY <1>1 DEF NoLeak
<1> QED BY <1>1, <1>2, <1>3, <1>4 DEF Mem

\* A member is freed and gets NULL or, from a cut message, anything.
LEMMA FreeMem ==
    ASSUME Mem, ~fault, NEW i \in Slots, NEW d \in Pointers, free({i}),
           own' = [own EXCEPT ![i] = d], cut' \in BOOLEAN, cut => cut',
           d = NULL \/ cut'
    PROVE  Mem'
<1>1. own' \in [Slots -> Pointers] /\ heap' \subseteq Blocks
  BY DEF Mem, free
<1>2. heap' = heap \ {own[i]}
  BY DEF free
<1>3. NoLeak'
  <2> SUFFICES ASSUME NEW b \in heap, b # own[i] PROVE \E j \in Slots : own'[j] = b
    BY <1>2 DEF NoLeak
  <2>1. PICK j \in Slots : own[j] = b
    BY DEF Mem, NoLeak
  <2> QED BY <2>1 DEF Mem
<1>4. FreedOnce' /\ fault' \in BOOLEAN
  BY DEF Mem, Sound, FreedOnce, free
<1>5. ~cut' => Sound'
  <2> SUFFICES ASSUME ~cut' PROVE Sound'
    OBVIOUS
  <2>1. Sound /\ d = NULL
    BY DEF Mem
  <2>2. \A j \in Slots : own'[j] = IF j = i THEN NULL ELSE own[j]
    BY <2>1 DEF Mem
  <2> QED BY <1>2, <2>1, <2>2 DEF Sound
<1> QED BY <1>1, <1>3, <1>4, <1>5 DEF Mem

\* A member whose message is cut keeps its value.
LEMMA DangleMem ==
    ASSUME Mem, ~fault, NEW i \in Slots, free({i}), own' = own, cut' = TRUE
    PROVE  Mem'
<1>1. fault' \in BOOLEAN /\ heap' \subseteq heap
  BY DEF free
<1> QED BY <1>1 DEF Mem, NoLeak, FreedOnce

\* Freeing a member and giving it a new block keeps Mem.
LEMMA ReplaceMem ==
    ASSUME Mem, ~fault, NEW i \in Slots, NEW b \in malloc_after(i), replace(i, b),
           cut' = cut
    PROVE  Mem'
<1>1. /\ own' \in [Slots -> Pointers] /\ heap' \subseteq Blocks
      /\ heap' = (heap \ {own[i]}) \cup {b}
      /\ \A j \in Slots : own'[j] = IF j = i THEN b ELSE own[j]
      /\ b \in Blocks /\ (b \notin heap \/ b = own[i])
  BY DEF Mem, replace, malloc_after, Pointers
<1>2. NoLeak'
  <2> SUFFICES ASSUME NEW c \in heap', c # b PROVE \E j \in Slots : own'[j] = c
    BY <1>1 DEF NoLeak
  <2>1. PICK j \in Slots : own[j] = c
    BY <1>1 DEF Mem, NoLeak
  <2> QED BY <1>1, <2>1
<1>3. FreedOnce' /\ fault' \in BOOLEAN
  BY DEF Mem, Sound, FreedOnce, replace
<1>4. ~cut' => Sound'
  <2> SUFFICES ASSUME Sound PROVE Sound'
    BY DEF Mem
  <2>1. \A j \in Slots : j # i => own[j] # b
    BY <1>1, BlockFacts DEF Sound
  <2> QED BY <1>1, <2>1 DEF Sound
<1> QED BY <1>1, <1>2, <1>3, <1>4 DEF Mem

\* Giving a new block to a member that holds none keeps Mem.
LEMMA AssignMem ==
    ASSUME Mem, NEW i \in Slots, own[i] = NULL, NEW b \in malloc, assign(i, b),
           cut' = cut
    PROVE  Mem'
<1>1. /\ own' \in [Slots -> Pointers] /\ heap' \subseteq Blocks
      /\ heap' = heap \cup {b} /\ fault' = fault
      /\ \A j \in Slots : own'[j] = IF j = i THEN b ELSE own[j]
      /\ b \in Blocks /\ b \notin heap
  BY DEF Mem, assign, malloc, Pointers
<1>2. NoLeak'
  <2> SUFFICES ASSUME NEW c \in heap PROVE \E j \in Slots : own'[j] = c
    BY <1>1 DEF NoLeak
  <2>1. PICK j \in Slots : own[j] = c
    BY DEF Mem, NoLeak
  <2> QED BY <1>1, <2>1, BlockFacts DEF Mem
<1>3. ~cut' => Sound'
  BY <1>1, BlockFacts DEF Mem, Sound
<1> QED BY <1>1, <1>2, <1>3 DEF Mem, FreedOnce

\* An entry of a directory list is made in three slots that were NULL.
LEMMA EntryMem ==
    ASSUME Mem, NEW k \in 1 .. MaxEntries,
           own[3 * k - 2] = NULL, own[3 * k - 1] = NULL, own[3 * k] = NULL,
           NEW entry \in malloc, NEW name \in malloc \cup {NULL}, name # entry,
           NEW handle \in Pointers,
           cut' \in BOOLEAN, cut => cut',
           cut' \/ handle = NULL \/ (handle \in malloc \ {entry, name}),
           own' = [own EXCEPT ![3 * k - 2] = entry, ![3 * k - 1] = name,
                              ![3 * k] = handle],
           {entry, name} \ {NULL} \subseteq heap', heap \subseteq heap',
           heap' \subseteq heap \cup ({entry, name, handle} \ {NULL}),
           handle \in malloc /\ ~cut' => handle \in heap',
           heap' \subseteq Blocks, fault' = fault
    PROVE  Mem'
<1>1. /\ 3 * k - 2 \in Slots /\ 3 * k - 1 \in Slots /\ 3 * k \in Slots
      /\ 3 * k - 2 # 3 * k - 1 /\ 3 * k - 1 # 3 * k /\ 3 * k - 2 # 3 * k
  BY CTypesAssumption DEF Slots
<1> DEFINE x == 3 * k - 2
           y == 3 * k - 1
           z == 3 * k
<1>2. x \in Slots /\ y \in Slots /\ z \in Slots /\ x # y /\ y # z /\ x # z
  BY <1>1
<1>3. own[x] = NULL /\ own[y] = NULL /\ own[z] = NULL
  OBVIOUS
<1>4. own' = [own EXCEPT ![x] = entry, ![y] = name, ![z] = handle]
  OBVIOUS
<1> HIDE DEF x, y, z
<1>5. \A j \in Slots : own'[j] = IF j = z THEN handle ELSE IF j = y THEN name
                                 ELSE IF j = x THEN entry ELSE own[j]
  BY <1>2, <1>4 DEF Mem
<1>6. own' \in [Slots -> Pointers]
  BY <1>2, <1>4, ZenonT(30) DEF Mem, malloc, Pointers
<1>7. NoLeak'
  <2> SUFFICES ASSUME NEW c \in heap' PROVE \E j \in Slots : own'[j] = c
    BY ZenonT(30) DEF NoLeak
  <2>1. CASE c \in heap
    <3>1. PICK j \in Slots : own[j] = c
      BY <2>1 DEF Mem, NoLeak
    <3>2. c # NULL
      BY <2>1, BlockFacts DEF Mem
    <3> QED BY <1>3, <1>5, <3>1, <3>2, ZenonT(30)
  <2>2. CASE c \in {entry, name, handle}
    BY <1>2, <1>5, <2>2, ZenonT(30)
  <2> QED BY <2>1, <2>2, ZenonT(30)
<1>8. ~cut' => Sound'
  <2> SUFFICES ASSUME ~cut' PROVE Sound'
    OBVIOUS
  <2>1. Sound
    BY DEF Mem
  <2>2. /\ entry \in heap' /\ entry \notin heap
        /\ name = NULL \/ (name \in heap' /\ name \notin heap /\ name # entry)
        /\ handle = NULL \/ (handle \in heap' /\ handle \notin heap
                             /\ handle # entry /\ handle # name)
    BY BlockFacts DEF malloc
  <2>3. \A j \in Slots : own'[j] = NULL \/ own'[j] \in heap'
    <3> SUFFICES ASSUME NEW j \in Slots PROVE own'[j] = NULL \/ own'[j] \in heap'
      BY ZenonT(30)
    <3>1. CASE j \in {x, y, z}
      <4>1. own'[j] \in {entry, name, handle}
        BY <1>5, <3>1, ZenonT(30)
      <4> QED BY <2>2, <4>1
    <3>2. CASE j \notin {x, y, z}
      <4>1. own'[j] = own[j]
        BY <1>5, <3>2, ZenonT(30)
      <4>2. own[j] = NULL \/ own[j] \in heap
        BY <2>1 DEF Sound
      <4> QED BY <4>1, <4>2
    <3> QED BY <3>1, <3>2
  <2>4. \A j \in Slots : j \notin {x, y, z} => own'[j] = own[j] /\ (own[j] = NULL \/ own[j] \in heap)
    BY <1>5, <2>1, ZenonT(30) DEF Sound
  <2>5. own'[x] = entry /\ own'[y] = name /\ own'[z] = handle
    BY <1>2, <1>5, ZenonT(30)
  <2>6. ASSUME NEW j \in Slots, NEW l \in Slots, own'[j] = own'[l], own'[j] # NULL
        PROVE  j = l
    <3>1. CASE j \notin {x, y, z} /\ l \notin {x, y, z}
      BY <2>1, <2>4, <2>6, <3>1 DEF Sound
    <3>2. CASE j \in {x, y, z} /\ l \notin {x, y, z}
      BY <2>2, <2>4, <2>5, <2>6, <3>2
    <3>3. CASE j \notin {x, y, z} /\ l \in {x, y, z}
      BY <2>2, <2>4, <2>5, <2>6, <3>3
    <3>4. CASE j \in {x, y, z} /\ l \in {x, y, z}
      BY <2>2, <2>5, <2>6, <3>4
    <3> QED BY <3>1, <3>2, <3>3, <3>4
  <2> QED BY <2>3, <2>6, ZenonT(30) DEF Sound
<1>9. FreedOnce' /\ fault' \in BOOLEAN
  BY DEF Mem, FreedOnce
<1> QED BY <1>6, <1>7, <1>8, <1>9 DEF Mem

-----------------------------------------------------------------------------
(* The operations. *)

\* The members of arguments are slots.
LEMMA SmallSlots == 1 .. 4 \subseteq Slots
BY CTypesAssumption DEF Slots

\* At rest, nothing is expected of what is not yet unpacked.
LEMMA Rest ==
    ASSUME Kinds, type' = type, result' = result, at' = 0
    PROVE  Kinds' /\ Fresh'
BY DEF Kinds, Fresh

\* After a member the unpacker goes on, in arguments, or is at the end.
LEMMA GoesOn ==
    ASSUME Kinds, Fresh, at \in DOMAIN type, type \notin Lists, Unpacked,
           type' = type, result' = result
    PROVE  Kinds' /\ Fresh'
<1>1. Kinds'
  BY DEF Kinds
<1>2. at \in 1 .. 4
  BY Members
<1>3. at' \in Nat
  BY <1>2 DEF Unpacked
<1>4. result /\ type \in Results => at' = 0
  <2> SUFFICES ASSUME result, type \in Results PROVE at' = 0
    OBVIOUS
  <2>1. DOMAIN type = 1 .. 1 /\ Len(type) = 1
    BY Members
  <2> QED BY <2>1 DEF Unpacked
<1> QED BY <1>1, <1>3, <1>4 DEF Fresh

\* An initialised struct satisfies the inductive invariant.
THEOREM IndInit == Init => IndInv
<1> SUFFICES ASSUME Init PROVE IndInv
  OBVIOUS
<1>1. Kinds
  BY ZenonT(30) DEF Init, Kinds
<1>2. Mem
  BY ZenonT(30) DEF Init, Mem, Pointers, NoLeak, FreedOnce, Sound
<1>3. Fresh
  BY DEF Init, Fresh
<1> QED BY <1>1, <1>2, <1>3 DEF IndInv

\* Every set, unpack and destroy preserves it.
THEOREM IndNext == IndInv /\ [Next]_vars => IndInv'
<1> SUFFICES ASSUME Mem, Kinds, Fresh, [Next]_vars
             PROVE  Mem' /\ Kinds' /\ Fresh'
  BY DEF IndInv
<1>1. CASE destroy
  <2>1. Mem'
    BY <1>1, DestroyMem DEF destroy, Mem
  <2> QED BY <1>1, <2>1, Rest DEF destroy
<1>2. ASSUME NEW i \in 1 .. 4, set(i) PROVE Mem' /\ Kinds' /\ Fresh'
  <2>1. i \in Slots
    BY SmallSlots
  <2>2. CASE \E b \in malloc_after(i) : replace(i, b)
    BY <1>2, <2>1, <2>2, ReplaceMem, Rest DEF set
  <2>3. CASE free({i}) /\ own' = [own EXCEPT ![i] = NULL]
    <3>1. NULL \in Pointers /\ ~fault /\ cut' \in BOOLEAN /\ (cut => cut')
      BY <1>2 DEF set, Pointers, Mem
    <3>2. Mem'
      BY <2>1, <2>3, <3>1, FreeMem, ZenonT(30)
    <3> QED BY <1>2, <3>2, Rest DEF set
  <2> QED BY <1>2, <2>2, <2>3 DEF set
<1>3. CASE set_write_data
  <2>1. 2 \in Slots
    BY SmallSlots
  <2>2. Mem'
    BY <1>3, <2>1, AssignMem DEF set_write_data
  <2> QED BY <1>3, <2>2, Rest DEF set_write_data
<1>4. CASE take_read_data
  <2>1. 1 \in Slots
    BY SmallSlots
  <2>2. /\ heap' = heap \ {own[1]} /\ own' = [own EXCEPT ![1] = NULL]
        /\ cut' = cut /\ fault' = fault
    BY <1>4 DEF take_read_data
  <2>3. \A j \in Slots : own'[j] = IF j = 1 THEN NULL ELSE own[j]
    BY <2>1, <2>2 DEF Mem
  <2>4. own' \in [Slots -> Pointers] /\ heap' \subseteq Blocks
    BY <2>2, ZenonT(30) DEF Mem, Pointers
  <2>5. NoLeak'
    <3> SUFFICES ASSUME NEW b \in heap, b # own[1] PROVE \E j \in Slots : own'[j] = b
      BY <2>2 DEF NoLeak
    <3>1. PICK j \in Slots : own[j] = b
      BY DEF Mem, NoLeak
    <3> QED BY <2>3, <3>1
  <2>6. ~cut' => Sound'
    BY <2>1, <2>2, <2>3 DEF Mem, Sound
  <2>7. Mem'
    BY <2>2, <2>4, <2>5, <2>6 DEF Mem, FreedOnce
  <2> QED BY <1>4, <2>7, Rest DEF take_read_data
<1>5. CASE unpack
  <2>1. CASE result
    <3>1. Mem'
      BY <1>5, <2>1, DestroyMem, ZenonT(30) DEF unpack, Mem
    <3>2. at' \in {0, 1} /\ own' = [i \in Slots |-> NULL] /\ type' = type /\ result' = result
      BY <1>5, <2>1 DEF unpack
    <3>3. Kinds' /\ Fresh'
      BY <3>2 DEF Kinds, Fresh
    <3> QED BY <3>1, <3>3
  <2>2. CASE ~result
    <3>1. /\ own' = own /\ heap' = heap /\ fault' = fault /\ cut' = cut /\ at' = 1
          /\ type' = type /\ result' = result
      BY <1>5, <2>2 DEF unpack, Mem
    <3>2. Mem'
      BY <3>1 DEF Mem, NoLeak, FreedOnce, Sound
    <3>3. type \notin Lists
      BY <2>2, Members
    <3>4. Kinds' /\ Fresh'
      BY <2>2, <3>1, <3>3 DEF Kinds, Fresh
    <3> QED BY <3>2, <3>4
  <2> QED BY <2>1, <2>2 DEF Kinds
<1>6. CASE unpack_nfs_fh3
  <2>1. ~fault /\ at \in DOMAIN type /\ at \in Slots /\ type \notin Lists
    BY <1>6, Members, SmallSlots DEF unpack_nfs_fh3, Unpacking
  <2>2. Kinds' /\ Fresh'
    BY <1>6, <2>1, GoesOn DEF unpack_nfs_fh3
  <2>3. CASE (\E b \in malloc : replace(at, b)) /\ cut' = cut
    <3>1. malloc \subseteq malloc_after(at)
      BY DEF malloc, malloc_after
    <3> QED BY <2>1, <2>2, <2>3, <3>1, ReplaceMem
  <2>4. CASE UNCHANGED <<own, heap, cut, fault>>
    BY <2>2, <2>4 DEF Mem, NoLeak, FreedOnce, Sound
  <2>5. CASE cut' = TRUE /\ free({at}) /\ \E d \in Unassigned : own' = [own EXCEPT ![at] = d]
    <3>1. PICK d \in Unassigned : own' = [own EXCEPT ![at] = d]
      BY <2>5, ZenonT(30)
    <3>2. d \in Pointers
      BY DEF Unassigned, Pointers
    <3> QED BY <2>1, <2>2, <2>5, <3>1, <3>2, FreeMem, ZenonT(30)
  <2> QED BY <1>6, <2>3, <2>4, <2>5, ZenonT(30) DEF unpack_nfs_fh3
<1>7. CASE unpack_member
  <2>1. ~fault /\ at \in DOMAIN type /\ at \in Slots /\ type \notin Lists
    BY <1>7, Members, SmallSlots DEF unpack_member, Unpacking
  <2>2. Kinds' /\ Fresh'
    BY <1>7, <2>1, GoesOn DEF unpack_member
  <2>3. CASE (\E b \in malloc_after(at) : replace(at, b)) /\ cut' = cut
    BY <2>1, <2>2, <2>3, ReplaceMem
  <2>4. CASE cut' = TRUE /\ free({at}) /\ own' = own
    BY <2>1, <2>2, <2>4, DangleMem
  <2> QED BY <1>7, <2>3, <2>4, ZenonT(30) DEF unpack_member
<1>8. CASE unpack_data
  <2>1. /\ ~fault /\ at \in DOMAIN type /\ at \in Slots /\ type \notin Lists
        /\ result /\ type \in Results
    BY <1>8, Members, SmallSlots DEF unpack_data, Unpacking
  <2>2. Kinds' /\ Fresh'
    BY <1>8, <2>1, GoesOn DEF unpack_data
  <2>3. at # 0
    BY <2>1, Members
  <2>4. own[at] = NULL
    BY <2>1, <2>3 DEF Fresh
  <2>5. CASE (\E b \in malloc : assign(at, b)) /\ cut' = cut
    BY <2>1, <2>2, <2>4, <2>5, AssignMem
  <2>6. CASE /\ cut' = TRUE /\ UNCHANGED <<heap, fault>>
             /\ \E d \in IF type[at] = "opaque" THEN Unassigned ELSE {own[at]} :
                    own' = [own EXCEPT ![at] = d]
    <3>1. PICK d \in Pointers : own' = [own EXCEPT ![at] = d]
      BY <2>1, <2>6, ZenonT(30) DEF Unassigned, Pointers, Mem
    <3>2. own' \in [Slots -> Pointers]
      BY <3>1, ZenonT(30) DEF Mem
    <3>3. NoLeak'
      <4> SUFFICES ASSUME NEW b \in heap PROVE \E j \in Slots : own'[j] = b
        BY <2>6 DEF NoLeak
      <4>1. PICK j \in Slots : own[j] = b
        BY DEF Mem, NoLeak
      <4>2. b # NULL
        BY BlockFacts DEF Mem
      <4> QED BY <2>4, <3>1, <4>1, <4>2 DEF Mem
    <3> QED BY <2>2, <2>6, <3>2, <3>3 DEF Mem, FreedOnce
  <2> QED BY <1>8, <2>5, <2>6, ZenonT(30) DEF unpack_data
<1>9. CASE unpack_entry
  <2>1. /\ at \in 1 .. MaxEntries /\ type \in Lists /\ at' = at + 1
        /\ type' = type /\ result' = result /\ cut' = cut /\ fault' = fault
    BY <1>9 DEF unpack_entry
  <2>2. /\ 3 * at - 2 \in Slots /\ 3 * at - 1 \in Slots /\ 3 * at \in Slots
        /\ 3 * at - 1 >= 3 * at - 2 /\ 3 * at >= 3 * at - 2 /\ at # 0
    BY <2>1, CTypesAssumption DEF Slots
  <2>3. own[3 * at - 2] = NULL /\ own[3 * at - 1] = NULL /\ own[3 * at] = NULL
    <3>1. 3 * at - 2 >= 3 * at - 2
      BY <2>1
    <3> QED BY <2>1, <2>2, <3>1 DEF Fresh
  <2>4. PICK entry \in malloc, name \in malloc, handle \in {NULL} \cup malloc :
          /\ name # entry /\ (handle = NULL \/ handle \in malloc \ {entry, name})
          /\ own' = [own EXCEPT ![3 * at - 2] = entry, ![3 * at - 1] = name,
                                ![3 * at] = handle]
          /\ heap' = heap \cup ({entry, name, handle} \ {NULL})
    BY <1>9, ZenonT(30) DEF unpack_entry
  <2>5. /\ handle \in Pointers /\ heap' \subseteq Blocks
        /\ entry # NULL /\ name # NULL /\ (handle \in malloc => handle # NULL)
    BY <2>4, BlockFacts DEF Mem, malloc, Pointers
  <2>6. Mem'
    BY ZenonT(60), <2>1, <2>3, <2>4, <2>5, EntryMem DEF Mem
  <2>7. Kinds' /\ result
    BY <2>1, Members DEF Kinds
  <2>8. ASSUME NEW i \in Slots, i >= 3 * at' - 2 PROVE own'[i] = NULL
    <3>1. i \in Nat /\ i > 3 * at
      BY <2>1, <2>8, CTypesAssumption DEF Slots
    <3>2. i # 3 * at - 2 /\ i # 3 * at - 1 /\ i # 3 * at /\ i >= 3 * at - 2
      BY <2>1, <3>1
    <3>3. own'[i] = own[i]
      BY <2>4, <3>2 DEF Mem
    <3> QED BY <2>1, <2>2, <3>2, <3>3 DEF Fresh
  <2>9. at' \in Nat /\ type \notin Results
    BY <2>1, CTypesAssumption DEF Lists, Results, READDIR3res, READDIRPLUS3res,
       LOOKUP3res, READ3res, CREATE3res, READLINK3res, MKDIR3res, SYMLINK3res, MKNOD3res
  <2> QED BY <2>1, <2>6, <2>7, <2>8, <2>9 DEF Fresh
<1>10. CASE unpack_entry_cut
  <2>1. /\ at \in 1 .. MaxEntries /\ type \in Lists /\ at' = at + 1
        /\ type' = type /\ result' = result /\ cut' = TRUE /\ fault' = fault
    BY <1>10 DEF unpack_entry_cut
  <2>2. /\ 3 * at - 2 \in Slots /\ 3 * at - 1 \in Slots /\ 3 * at \in Slots
        /\ 3 * at - 1 >= 3 * at - 2 /\ 3 * at >= 3 * at - 2 /\ at # 0
    BY <2>1, CTypesAssumption DEF Slots
  <2>3. own[3 * at - 2] = NULL /\ own[3 * at - 1] = NULL /\ own[3 * at] = NULL
    <3>1. 3 * at - 2 >= 3 * at - 2
      BY <2>1
    <3> QED BY <2>1, <2>2, <3>1 DEF Fresh
  <2>4. PICK entry \in malloc, handle \in Pointers :
          /\ own' = [own EXCEPT ![3 * at - 2] = entry, ![3 * at] = handle]
          /\ heap' = heap \cup {entry}
    BY <1>10, ZenonT(30) DEF unpack_entry_cut, Unassigned, Pointers
  <2>5. own' = [own EXCEPT ![3 * at - 2] = entry, ![3 * at - 1] = NULL, ![3 * at] = handle]
    <3>1. 3 * at - 2 # 3 * at - 1 /\ 3 * at - 1 # 3 * at /\ 3 * at - 2 # 3 * at
      BY <2>1
    <3> QED BY <2>2, <2>3, <2>4, <3>1, ZenonT(30) DEF Mem
  <2>6. heap' \subseteq Blocks /\ entry # NULL /\ entry \in Blocks
    BY <2>4, BlockFacts DEF Mem, malloc
  <2>7. Mem'
    <3>1. NULL # entry /\ cut' \in BOOLEAN /\ (cut => cut') /\ cut'
      BY <2>1, <2>6
    <3>2. /\ {entry, NULL} \ {NULL} \subseteq heap' /\ heap \subseteq heap'
          /\ heap' \subseteq heap \cup ({entry, NULL, handle} \ {NULL})
      BY <2>4, <2>6
    <3>3. NULL \in malloc \cup {NULL}
      OBVIOUS
    <3> QED BY <2>1, <2>3, <2>5, <2>6, <3>1, <3>2, <3>3, EntryMem, ZenonT(30)
  <2>8. Kinds' /\ result
    BY <2>1, Members DEF Kinds
  <2>9. ASSUME NEW i \in Slots, i >= 3 * at' - 2 PROVE own'[i] = NULL
    <3>1. i \in Nat /\ i > 3 * at
      BY <2>1, <2>9, CTypesAssumption DEF Slots
    <3>2. i # 3 * at - 2 /\ i # 3 * at /\ i >= 3 * at - 2
      BY <2>1, <3>1
    <3>3. own'[i] = own[i]
      BY <2>4, <3>2 DEF Mem
    <3> QED BY <2>1, <2>2, <3>2, <3>3 DEF Fresh
  <2>10. at' \in Nat /\ type \notin Results
    BY <2>1, CTypesAssumption DEF Lists, Results, READDIR3res, READDIRPLUS3res,
       LOOKUP3res, READ3res, CREATE3res, READLINK3res, MKDIR3res, SYMLINK3res, MKNOD3res
  <2> QED BY <2>1, <2>7, <2>8, <2>9, <2>10 DEF Fresh
<1>11. CASE unpack_list_ends
  <2>1. Mem'
    <3>1. own' = own /\ heap' = heap /\ fault' = fault /\ ~fault
      BY <1>11 DEF unpack_list_ends
    <3>2. cut' \in BOOLEAN /\ (~cut' => ~cut)
      <4>1. cut' = cut \/ cut' = TRUE
        BY <1>11, ZenonT(30) DEF unpack_list_ends
      <4>2. cut \in BOOLEAN
        BY DEF Mem
      <4>3. CASE cut' = cut
        BY <4>2, <4>3
      <4>4. CASE cut' = TRUE
        BY <4>4
      <4> QED BY <4>1, <4>3, <4>4, ZenonT(30)
    <3>3. NoLeak' /\ FreedOnce'
      BY <3>1 DEF Mem, NoLeak, FreedOnce
    <3>4. Sound => Sound'
      BY <3>1 DEF Sound
    <3> QED BY <3>1, <3>2, <3>3, <3>4 DEF Mem
  <2> QED BY <1>11, <2>1, Rest DEF unpack_list_ends
<1>12. CASE UNCHANGED vars
  BY <1>12 DEF vars, Mem, NoLeak, FreedOnce, Sound, Kinds, Fresh
<1> QED
  BY <1>1, <1>2, <1>3, <1>4, <1>5, <1>6, <1>7, <1>8, <1>9, <1>10, <1>11, <1>12
  DEF Next

\* So it always holds.
THEOREM Invariance == Spec => []IndInv
BY IndInit, IndNext, PTL DEF Spec

\* Whatever is done with a struct, every block hangs on it until it is freed.
THEOREM NothingLeaks == Spec => []NoLeak
BY Invariance, PTL DEF IndInv, Mem

\* With whole messages, nothing is freed but what is allocated, and once.
THEOREM NothingFreedTwice == Spec => []FreedOnce
BY Invariance, PTL DEF IndInv, Mem

=============================================================================
