------------------------------ MODULE XdrBuffer ------------------------------
(***************************************************************************)
(* The XDR buffer, byte by byte: XdrBuffer of xdr_codec.cpp and xdr_buf_t  *)
(* of xdr_codec.c.  A writer appends values, a reader takes them off at    *)
(* its own position; the two need not agree on what they are, and a buffer *)
(* may hold bytes that came from the network.  The contents are reduced to *)
(* where each packed value starts, its kind and its length.                *)
(***************************************************************************)
EXTENDS Integers

CONSTANTS
    Langs,              \* "cpp", "c"
    Lens,               \* lengths of packed strings and opaques
    Claims,             \* lengths a received or misread length word states
    Received,           \* sizes of received messages
    MinCapacity,        \* XDR_MIN_CAPACITY, 64
    MaxCapacity,        \* bound on the capacity
    MaxDoublings,       \* bound on the doublings of one growth
    MaxSize             \* bound on what is packed

ASSUME BufferAssumption ==
    /\ Langs \subseteq {"cpp", "c"}
    /\ Lens \subseteq Nat /\ Claims \subseteq Nat /\ Received \subseteq Nat
    /\ MinCapacity \in Nat \ {0} /\ MaxCapacity \in Nat
    /\ MaxDoublings \in Nat /\ MaxSize \in Nat

VARIABLES
    lang,       \* which of the two buffers
    size,       \* buffer_.size(), buf->size
    pos,        \* pos_, buf->pos
    cap,        \* buf->capacity (a std::vector looks after its own)
    oom,        \* whether a realloc has failed
    items,      \* the values packed: start, kind, length
    received,   \* whether the bytes came from the network
    astray,     \* whether the reader asks for other kinds than were packed
    failed      \* whether the last operation was an unpack that failed

vars == <<lang, size, pos, cap, oom, items, received, astray, failed>>

Kinds == {"u32", "u64", "verf", "opaque"}
Item(at, kind, len) == [at |-> at, kind |-> kind, len |-> len]

Pad(n) == (4 - (n % 4)) % 4
Width(i) ==
    IF i.kind = "u32" THEN 4
    ELSE IF i.kind = "opaque" THEN 4 + i.len + Pad(i.len) ELSE 8
End(i) == i.at + Width(i)

TypeOK ==
    /\ lang \in Langs
    /\ size \in Nat /\ pos \in Nat /\ cap \in Nat
    /\ oom \in BOOLEAN /\ received \in BOOLEAN
    /\ astray \in BOOLEAN /\ failed \in BOOLEAN
    /\ items \subseteq [at : Nat, kind : Kinds, len : Nat]

Init ==
    /\ lang \in Langs
    /\ size = 0 /\ pos = 0 /\ cap = 0
    /\ oom = FALSE /\ received = FALSE /\ astray = FALSE /\ failed = FALSE
    /\ items = {}

-----------------------------------------------------------------------------
(* Growth. *)

\* The first of c doubled once, twice, ... that is at least n.
Doubled(c, n) ==
    LET first == IF c = 0 THEN MinCapacity ELSE 2 * c
    IN  {d \in n .. MaxCapacity :
            /\ d = first \/ d < 2 * n
            /\ \E k \in 0 .. MaxDoublings : d = first * 2^k}

\* The capacities after ensure_write_capacity(n) with capacity c and size s:
\* doubled until it suffices, or left alone if realloc fails.
Ensured_once(c, s, n) ==
    IF lang = "cpp" \/ s + n <= c THEN {[cap |-> c, oom |-> FALSE]}
    ELSE {[cap |-> IF c = 0 THEN MinCapacity ELSE 2 * c, oom |-> FALSE]}
Ensured(c, s, n) ==
    IF lang = "cpp" \/ n = 0 \/ s + n <= c THEN {[cap |-> c, oom |-> FALSE]}
    ELSE {[cap |-> c, oom |-> TRUE]} \cup
         {[cap |-> d, oom |-> FALSE] : d \in Doubled(c, s + n)}

\* The padding after a value: from the size of the whole buffer, except in
\* pack(const uint8_t*, size_t) of C++, from the length of the value.
pad_to_4_bytes_none(s) == 0
pad_to_4_bytes(s) == Pad(s)

Packed(kind, len) ==
    /\ items' = items \cup {Item(size, kind, len)}
    /\ failed' = FALSE
    /\ UNCHANGED <<lang, pos, received, astray>>

\* int32, uint32 and bool: 4 bytes; uint64, and in C xdr_pack_bytes of a
\* verifier: 8 bytes.
pack_word(kind, n) ==
    /\ kind = "verf" => lang = "c"
    /\ size + n <= MaxSize
    /\ \E e \in Ensured(cap, size, n) :
        /\ cap' = e.cap
        /\ oom' = (oom \/ e.oom)
    /\ size' = size + n
    /\ Packed(kind, 0)

\* A length, the bytes, the padding; each ensures its own room.
PackOpaque(len, pad) ==
    /\ size + 4 + len + pad <= MaxSize
    /\ \E e1 \in Ensured(cap, size, 4) :
       \E e2 \in Ensured(e1.cap, size + 4, len) :
       \E e3 \in Ensured(e2.cap, size + 4 + len, pad) :
        /\ cap' = e3.cap
        /\ oom' = (oom \/ e1.oom \/ e2.oom \/ e3.oom)
    /\ size' = size + 4 + len + pad
    /\ Packed("opaque", len)

pack_string(len) == PackOpaque(len, pad_to_4_bytes(size + 4 + len))
pack_opaque(len) ==
    PackOpaque(len, IF lang = "cpp" THEN Pad(len)
                    ELSE pad_to_4_bytes(size + 4 + len))

-----------------------------------------------------------------------------
(* Reading. *)

ensure_read_space(p, n) == p + n <= size

Matches(kind) == \E i \in items : i.at = pos /\ i.kind = kind

Unpacked(kind, ok) ==
    /\ failed' = ~ok
    /\ astray' = (astray \/ (~Matches(kind) /\ pos # size))
    /\ UNCHANGED <<lang, size, cap, oom, items, received>>

unpack_word(kind, n) ==
    /\ kind = "verf" => lang = "c"
    /\ pos' = IF ensure_read_space(pos, n) THEN pos + n ELSE pos
    /\ Unpacked(kind, ensure_read_space(pos, n))

\* What the length word at pos says.
LengthAt ==
    IF ~received /\ Matches("opaque")
    THEN {i.len : i \in {j \in items : j.at = pos}}
    ELSE Claims

\* A string or an opaque.  A length that was read stays read when the bytes
\* are not there; the padding is skipped unchecked.
ReadOpaque_unchecked(len) ==
    /\ pos' = IF ~ensure_read_space(pos, 4) THEN pos
              ELSE pos + 4 + len + Pad(len)
    /\ Unpacked("opaque", ensure_read_space(pos, 4))
ReadOpaque(len) ==
    /\ pos' = IF ~ensure_read_space(pos, 4) THEN pos
              ELSE IF ~ensure_read_space(pos + 4, len) THEN pos + 4
              ELSE pos + 4 + len + Pad(len)
    /\ Unpacked("opaque", ensure_read_space(pos, 4)
                          /\ ensure_read_space(pos + 4, len))
unpack_opaque == \E len \in LengthAt : ReadOpaque(len)

-----------------------------------------------------------------------------
(* The buffer as a whole. *)

reset_read ==
    /\ pos' = 0
    /\ astray' = received
    /\ failed' = FALSE
    /\ UNCHANGED <<lang, size, cap, oom, items, received>>

Emptied ==
    /\ size' = 0 /\ pos' = 0
    /\ items' = {}
    /\ received' = FALSE /\ astray' = FALSE /\ failed' = FALSE
    /\ UNCHANGED lang

clear == Emptied /\ UNCHANGED <<cap, oom>>

\* xdr_buf_destroy; in C++ the end of one buffer and the start of another.
destroy == Emptied /\ cap' = 0 /\ oom' = FALSE

init_capacity ==
    /\ lang = "c"
    /\ Emptied /\ oom' = FALSE
    /\ \E n \in Received : cap' = IF n < MinCapacity THEN MinCapacity ELSE n

\* A buffer around the body of a reply: XdrBuffer(data), xdr_buf_init_copy.
init_copy ==
    /\ \E n \in Received :
        /\ size' = n
        /\ cap' = IF lang = "c" THEN n ELSE 0
    /\ pos' = 0
    /\ items' = {}
    /\ received' = TRUE /\ astray' = TRUE /\ failed' = FALSE
    /\ oom' = FALSE
    /\ UNCHANGED lang

Next ==
    \/ pack_word("u32", 4) \/ pack_word("u64", 8) \/ pack_word("verf", 8)
    \/ \E len \in Lens : pack_string(len) \/ pack_opaque(len)
    \/ unpack_word("u32", 4) \/ unpack_word("u64", 8) \/ unpack_word("verf", 8)
    \/ unpack_opaque
    \/ reset_read \/ clear \/ destroy \/ init_capacity \/ init_copy

Spec == Init /\ [][Next]_vars

-----------------------------------------------------------------------------
(* Properties. *)

\* Writer and reader stay in step: a reader that asks for the kinds that were
\* packed is always at the start of a value or at the end, and no unpack of
\* its fails before the end.  The writer pads to the size of the buffer
\* (xdr_codec.cpp:39, xdr_codec.c:106), the reader skips by the length
\* of the value (xdr_codec.cpp:155, xdr_codec.c:226): they agree only as long
\* as every value starts at a multiple of four.
InStep ==
    ~astray => /\ pos = size \/ \E i \in items : i.at = pos
               /\ failed => pos = size

\* Whatever is read from whatever bytes, the position passes the end by the
\* padding at most (xdr_codec.cpp:156, xdr_codec.c:227 skip it unchecked), so
\* that the next read, of four bytes at least, fails.
PosBound == pos <= size + 3

\* What the C buffer holds fits into its block, unless a realloc failed, which
\* ensure_write_capacity only prints (xdr_codec.c:98) before its caller writes.
WriteInside == lang = "c" /\ ~oom => size <= cap

=============================================================================
