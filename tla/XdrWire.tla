------------------------------ MODULE XdrWire ------------------------------
(***************************************************************************)
(* How the values of a type are packed, and how they are unpacked.  A      *)
(* message is a sequence of 32-bit words.  A type is a record: `codes' has *)
(* the values sampled of it, each with the words it is packed as, and      *)
(* `reads' what comes of unpacking a message.  The modules NfsTypesCpp,    *)
(* NfsXdrTirpc and NfsXdrC give the layouts the three codings of the       *)
(* repository use, Rfc1813 the ones a server uses.                         *)
(*                                                                         *)
(* A scalar is the sequence of its words, an opaque or a string that of    *)
(* the words of its contents (lengths are multiples of four here: padding  *)
(* is the matter of XdrBuffer), an optional value a sequence of length 0   *)
(* or 1, a list a sequence, a structure a function from field names.       *)
(*                                                                         *)
(* Unpacking gives the set of the possible pairs of a value and the words  *)
(* behind it.  It is empty when unpacking fails: XdrBuffer throws          *)
(* XdrError, a filter of libtirpc returns FALSE.  The C functions never    *)
(* fail (mode "keep"): a read that finds too few words leaves its target   *)
(* as it was, zero in the structures, undefined in local variables.        *)
(***************************************************************************)
EXTENDS Integers, Sequences

CONSTANTS
    MaxList,    \* entries in a directory listing
    Spread,     \* how far apart the numbers of two places in a structure are
    Ints,       \* what a word is, relative to the number of its place
    Texts,      \* handles and names, likewise
    Data        \* the data of READ and WRITE

ASSUME MaxListAssumption == MaxList \in Nat
ASSUME ValuesAssumption ==
    /\ Spread \in Nat
    /\ Ints \subseteq Nat
    /\ Texts \subseteq Seq(Nat)
    /\ Data \subseteq Seq(Nat)

\* A place in a structure has a number of its own, and values by that number.
Word(n) == {Spread * n + d : d \in Ints}
Contents(n) == {[i \in 1 .. Len(s) |-> Spread * n + s[i]] : s \in Texts}

Modes == {"fail", "keep"}
Messages == Seq(Int)

\* A value with its words; a value with the words behind it.
Code(v, w) == [v |-> v, words |-> w]
Got(v, w) == [v |-> v, rest |-> w]
Drop(w, n) == SubSeq(w, n + 1, Len(w))
NoFields == [f \in {} |-> <<>>]
\* What an uninitialised variable holds, other than a value of interest.
Junk == -2

\* A type that is on the wire always.
Coder(Codes(_), Reads(_, _)) ==
    [k |-> "always",
     codes |-> [n \in Nat |-> Codes(n)],
     reads |-> [mode \in Modes |-> [w \in Messages |-> Reads(mode, w)]]]

-----------------------------------------------------------------------------
(* Words, and words counted by a length. *)

ShortRead_invents(mode, kept, w) == {Got(v, w) : v \in kept}
ShortRead(mode, kept, w) ==
    IF mode = "keep" THEN {Got(v, w) : v \in kept} ELSE {}

Take(mode, n, w, kept) ==
    IF Len(w) >= n THEN {Got(SubSeq(w, 1, n), Drop(w, n))}
    ELSE ShortRead(mode, kept, w)

\* A length, then as many words as its bytes need.
TakeOpaque(mode, w, kept) ==
    IF w = <<>> THEN ShortRead(mode, kept, w)
    ELSE LET n == (Head(w) + 3) \div 4
         IN  IF Head(w) >= 0 /\ n <= Len(w) - 1
             THEN {Got(SubSeq(w, 2, n + 1), Drop(w, n + 1))}
             ELSE ShortRead(mode, kept, Tail(w))

Plain(S) == {Code(v, v) : v \in S}
Counted(S) == {Code(v, <<4 * Len(v)>> \o v) : v \in S}

Words(m) ==
    Coder(LAMBDA n : Plain([1 .. m -> Word(n)]),
          LAMBDA mode, w : Take(mode, m, w, {[i \in 1 .. m |-> 0]}))
u32 == Words(1)
u64 == Words(2)
\* A word that takes one of the given values.
Enum(S) ==
    Coder(LAMBDA n : Plain({<<e>> : e \in S}),
          LAMBDA mode, w : Take(mode, 1, w, {<<0>>}))
\* A word read into a local variable that the code does not initialise.
Local(S) ==
    Coder(LAMBDA n : Plain({<<e>> : e \in S}),
          LAMBDA mode, w : Take(mode, 1, w, {<<0>>, <<Junk>>}))
boolean ==
    Coder(LAMBDA n : Plain({<<0>>, <<1>>}),
          LAMBDA mode, w : {Got(<<IF g.v = <<0>> THEN 0 ELSE 1>>, g.rest) :
                             g \in Take(mode, 1, w, {<<0>>})})
opaque ==
    Coder(LAMBDA n : Counted(Contents(n)),
          LAMBDA mode, w : TakeOpaque(mode, w, {<<Junk>>}))
bytes ==
    Coder(LAMBDA n : Counted(Data),
          LAMBDA mode, w : TakeOpaque(mode, w, {<<Junk>>}))
\* The length of the data, where a structure has it besides.
dataCount == Enum({4 * Len(b) : b \in Data})
string ==
    Coder(LAMBDA n : Counted(Contents(n)),
          LAMBDA mode, w : TakeOpaque(mode, w, {<<>>}))

-----------------------------------------------------------------------------
(* Values behind a flag, and other values that may be absent. *)

None(flag) == {Code(<<>>, flag)}
Some(flag, S) == {Code(<<c.v>>, flag \o c.words) : c \in S}
ReadSome(S) == {Got(<<g.v>>, g.rest) : g \in S}

IsOn(on, onAny, flag) == IF onAny THEN flag # 0 ELSE flag = on
\* A flag, and the value if the flag is `on'; onAny: any flag but 0 is on;
\* local: the flag is read into an uninitialised local variable.
Flagged(on, onAny, local, t) ==
    Coder(LAMBDA n : None(<<0>>) \cup Some(<<on>>, t.codes[n]),
          LAMBDA mode, w :
            UNION {IF IsOn(on, onAny, f.v[1]) THEN ReadSome(t.reads[mode][f.rest])
                   ELSE {Got(<<>>, f.rest)} :
                   f \in Take(mode, 1, w,
                              IF local THEN {<<0>>, <<on>>} ELSE {<<0>>})})
Opt(t) == Flagged(1, TRUE, FALSE, t)
OptLocal(t) == Flagged(1, TRUE, TRUE, t)

\* Only in RFC 1813: set_atime and set_mtime, whose discriminant 1 asks for
\* the server's time.
ServerTime == [seconds |-> <<-1>>, nseconds |-> <<-1>>]
TimeHow(t) ==
    Coder(LAMBDA n : None(<<0>>) \cup Some(<<2>>, t.codes[n]),
          LAMBDA mode, w :
            UNION {CASE f.v = <<0>> -> {Got(<<>>, f.rest)}
                     [] f.v = <<1>> -> {Got(<<ServerTime>>, f.rest)}
                     [] f.v = <<2>> -> ReadSome(t.reads[mode][f.rest])
                     [] OTHER -> {} : f \in Take(mode, 1, w, {<<0>>})})

\* Kinds only the C++ codings have: an optional word whose absence is the
\* word -1; a value that is always present where others have an option; eight
\* bytes sent as a variable-length opaque; a value that is packed, and
\* consumed but not kept when unpacked; a word packed and not unpacked.
Sentinel(t) ==
    Coder(LAMBDA n : None(<<-1>>) \cup Some(<<>>, t.codes[n]),
          LAMBDA mode, w : {Got(IF g.v = <<-1>> THEN <<>> ELSE <<g.v>>, g.rest) :
                               g \in t.reads[mode][w]})
Bare(t) ==
    Coder(LAMBDA n : Some(<<>>, t.codes[n]),
          LAMBDA mode, w : ReadSome(t.reads[mode][w]))
verfOpaque ==
    Coder(LAMBDA n : {Code(v, <<8>> \o v) : v \in [1 .. 2 -> Word(n)]},
          LAMBDA mode, w :
            {Got(IF Len(g.v) >= 2 THEN SubSeq(g.v, 1, 2) ELSE <<Junk, Junk>>,
                 g.rest) : g \in TakeOpaque(mode, w, {<<>>})})
Lost(t) ==
    Coder(LAMBDA n : t.codes[n],
          LAMBDA mode, w : {Got(<<>>, g.rest) : g \in t.reads[mode][w]})
Unread ==
    Coder(LAMBDA n : Plain([1 .. 1 -> Word(n)]), LAMBDA mode, w : {Got(<<0>>, w)})

\* A field that is there only if the field `on' before it has a value of S.
When(on, S, t) ==
    [k |-> "when", on |-> on, of |-> S, codes |-> t.codes, reads |-> t.reads]

-----------------------------------------------------------------------------
(* Lists: every element follows a flag 1, a flag 0 ends them. *)

PackElement(t, n, c) ==
    {Code(<<x.v>> \o c.v, <<1>> \o (x.words \o c.words)) : x \in t.codes[n]}

PackList(t, n) ==
    LET packed[m \in 0 .. MaxList] ==
          IF m = 0 THEN {Code(<<>>, <<0>>)}
          ELSE UNION {PackElement(t, 16 * n + m, c) : c \in packed[m - 1]}
    IN  packed

\* When the words have run out the flag of the next element is undefined in
\* C; lists longer than MaxList are not followed there.
Flag(mode, m, w) ==
    Take(mode, 1, w, {<<0>>} \cup IF m < MaxList THEN {<<1>>} ELSE {})

UnpackElement(mode, t, more, f) ==
    IF f.v = <<0>> THEN {Got(<<>>, f.rest)}
    ELSE UNION {{Got(<<x.v>> \o y.v, y.rest) : y \in more[x.rest]} :
                x \in t.reads[mode][f.rest]}

UnpackList(mode, t, most) ==
    LET read[k \in 0 .. most] ==
          IF k = 0 THEN [w \in Messages |-> {}]
          ELSE [w \in Messages |-> UNION {UnpackElement(mode, t, read[k - 1], f) :
                                           f \in Flag(mode, most - k, w)}]
    IN  read

\* Every element takes a word, but for those read when there are none.
Most(w) == Len(w) + MaxList + 1

List(t) ==
    Coder(LAMBDA n : UNION {PackList(t, n)[m] : m \in 0 .. MaxList},
          LAMBDA mode, w : UnpackList(mode, t, Most(w))[Most(w)][w])

-----------------------------------------------------------------------------
(* Structures.  A field is a pair of a name and a type. *)

With(v, f, x) == [y \in DOMAIN v \cup {f} |-> IF y = f THEN x ELSE v[y]]

IsCoded(field, v) == field[2].k = "when" => v[field[2].on] \in field[2].of

PackField(field, n, c) ==
    IF IsCoded(field, c.v)
    THEN {Code(With(c.v, field[1], x.v), c.words \o x.words) :
            x \in field[2].codes[n]}
    ELSE {c}

PackFields(fields, n) ==
    LET packed[i \in 0 .. Len(fields)] ==
          IF i = 0 THEN {Code(NoFields, <<>>)}
          ELSE UNION {PackField(fields[i], 16 * n + i - 1, c) : c \in packed[i - 1]}
    IN  packed

UnpackField(mode, field, g) ==
    IF IsCoded(field, g.v)
    THEN {Got(With(g.v, field[1], x.v), x.rest) :
            x \in field[2].reads[mode][g.rest]}
    ELSE {g}

UnpackFields(mode, fields, w) ==
    LET after[i \in 0 .. Len(fields)] ==
          IF i = 0 THEN {Got(NoFields, w)}
          ELSE UNION {UnpackField(mode, fields[i], g) : g \in after[i - 1]}
    IN  after

Struct(fields) ==
    Coder(LAMBDA n : PackFields(fields, n)[Len(fields)],
          LAMBDA mode, w : UnpackFields(mode, fields, w)[Len(fields)])

=============================================================================
