-------------------------- MODULE XdrBufferProofs --------------------------
(***************************************************************************)
(* Writer and reader of an XDR buffer stay in step, the read position      *)
(* stays near the buffer, and the C buffer fits into its block: for any    *)
(* lengths, any received bytes and any bounds.                             *)
(***************************************************************************)
EXTENDS XdrBuffer, TLAPS

\* Leaves that need no arithmetic and that SMT does not find cite Zenon.
USE SMTT(30)

\* The values lie one behind the other, from 0 to size, at multiples of four.
Tiled ==
    /\ size % 4 = 0
    /\ size = 0 \/ \E i \in items : i.at = 0
    /\ \A i \in items :
        /\ i.at % 4 = 0 /\ i.at < size
        /\ End(i) = size \/ \E j \in items : j.at = End(i)
    /\ \A i, j \in items : i.at = j.at => i = j

IndInv ==
    /\ TypeOK
    /\ ~received => Tiled
    /\ received => astray
    /\ InStep
    /\ PosBound
    /\ WriteInside

-----------------------------------------------------------------------------

\* Padding completes a multiple of four and is less than four bytes.
LEMMA PadFacts ==
    ASSUME NEW n \in Nat
    PROVE  Pad(n) \in 0 .. 3 /\ (n + Pad(n)) % 4 = 0
BY SMT DEF Pad

\* At a multiple of four, padding by the size of the buffer and padding by the
\* length of the value are the same.
LEMMA PadAgrees ==
    ASSUME NEW s \in Nat, NEW len \in Nat, s % 4 = 0
    PROVE  Pad(s + 4 + len) = Pad(len)
BY SMT DEF Pad

\* A value takes a multiple of four bytes, and at least four.
LEMMA WidthFacts ==
    ASSUME NEW i \in [at : Nat, kind : Kinds, len : Nat]
    PROVE  Width(i) \in Nat /\ Width(i) >= 4 /\ Width(i) % 4 = 0
<1>1. i.len \in Nat /\ Pad(i.len) \in 0 .. 3 /\ (i.len + Pad(i.len)) % 4 = 0
  BY PadFacts
<1>2. \A k, p \in Nat : (k + p) % 4 = 0 => (4 + k + p) % 4 = 0
  BY SMT
<1>3. Width(i) = 4 \/ Width(i) = 8 \/ Width(i) = 4 + i.len + Pad(i.len)
  BY DEF Width
<1>4. CASE Width(i) = 4 \/ Width(i) = 8
  BY <1>4
<1>5. CASE Width(i) = 4 + i.len + Pad(i.len)
  <2>1. PICK k \in Nat, p \in Nat : k = i.len /\ p = Pad(i.len)
    BY <1>1
  <2>3. (k + p) % 4 = 0
    BY <1>1, <2>1, ZenonT(30)
  <2>4. Width(i) = 4 + k + p
    BY <1>5, <2>1, ZenonT(30)
  <2>2. (4 + k + p) % 4 = 0 /\ 4 + k + p \in Nat /\ 4 + k + p >= 4
    <3>1. (4 + k + p) % 4 = 0
      BY <1>2, <2>3
    <3>2. 4 + k + p \in Nat /\ 4 + k + p >= 4
      BY <2>1
    <3> QED
      BY <3>1, <3>2
  <2> QED
    BY <2>4, <2>2
<1> QED
  BY <1>3, <1>4, <1>5

\* After ensure_write_capacity there is room, or memory has run out.
LEMMA EnsuredFacts ==
    ASSUME NEW c \in Nat, NEW s \in Nat, NEW n \in Nat, NEW e \in Ensured(c, s, n)
    PROVE  /\ e.cap \in Nat /\ e.oom \in BOOLEAN
           /\ lang # "cpp" /\ n > 0 /\ ~e.oom => s + n <= e.cap
           /\ n = 0 => e.cap = c
           /\ s <= c /\ ~e.oom => s <= e.cap
<1>1. CASE lang = "cpp" \/ n = 0 \/ s + n <= c
  <2>1. e = [cap |-> c, oom |-> FALSE]
    BY <1>1 DEF Ensured
  <2>2. e.cap = c /\ e.oom = FALSE
    BY <2>1
  <2>3. e.cap \in Nat /\ e.oom \in BOOLEAN
    BY <2>2, ZenonT(30)
  <2>4. lang # "cpp" /\ n > 0 => s + n <= e.cap
    BY <1>1, <2>2
  <2> QED
    BY <2>2, <2>3, <2>4
<1>2. CASE ~(lang = "cpp" \/ n = 0 \/ s + n <= c)
  <2>1. e = [cap |-> c, oom |-> TRUE]
        \/ \E d \in Doubled(c, s + n) : e = [cap |-> d, oom |-> FALSE]
    BY <1>2 DEF Ensured
  <2>2. CASE e = [cap |-> c, oom |-> TRUE]
    <3>1. e.cap = c /\ e.oom = TRUE
      BY <2>2
    <3> QED
      BY <1>2, <3>1, ZenonT(30)
  <2>3. CASE \E d \in Doubled(c, s + n) : e = [cap |-> d, oom |-> FALSE]
    <3>1. PICK d \in Doubled(c, s + n) : e = [cap |-> d, oom |-> FALSE]
      BY <2>3, ZenonT(30)
    <3>2. d \in s + n .. MaxCapacity
      BY <3>1 DEF Doubled
    <3>3. e.cap = d /\ e.oom = FALSE
      BY <3>1
    <3>4. d \in Nat /\ s + n <= d /\ s <= d
      BY <3>2, BufferAssumption
    <3> QED
      BY <1>2, <3>3, <3>4, ZenonT(30)
  <2> QED
    BY <2>1, <2>2, <2>3
<1> QED
  BY <1>1, <1>2

-----------------------------------------------------------------------------
(* The operations. *)

\* An empty buffer satisfies the inductive invariant.
THEOREM IndInit == Init => IndInv
<1> SUFFICES ASSUME Init PROVE IndInv
  OBVIOUS
<1>1. TypeOK
  BY ZenonT(30) DEF Init, TypeOK
<1>3. Tiled /\ ~received
  BY DEF Init, Tiled
<1>2. InStep /\ PosBound /\ WriteInside
  BY DEF Init, InStep, PosBound, WriteInside
<1> QED
  BY <1>1, <1>2, <1>3 DEF IndInv

\* A value appended where the buffer ends keeps the values in a row, if what is
\* appended is as wide as the value.
LEMMA AppendTiled ==
    ASSUME TypeOK, Tiled, NEW kind \in Kinds, NEW len \in Nat,
           items' = items \cup {Item(size, kind, len)},
           size' = End(Item(size, kind, len))
    PROVE  Tiled' /\ size' \in Nat /\ size' >= size + 4
<1> DEFINE new == Item(size, kind, len)
<1>1. new \in [at : Nat, kind : Kinds, len : Nat] /\ new.at = size
  BY DEF Item, TypeOK
<1>2. PICK w \in Nat : w = Width(new) /\ w >= 4 /\ w % 4 = 0
  BY <1>1, WidthFacts
<1>3. size \in Nat /\ size % 4 = 0 /\ size' = size + w
  BY <1>1, <1>2 DEF Tiled, TypeOK, End
<1>4. size' % 4 = 0 /\ size' \in Nat /\ size' >= size + 4
  <2>1. \A a, b \in Nat : a % 4 = 0 /\ b % 4 = 0 => (a + b) % 4 = 0
    BY SMT
  <2> QED
    BY <1>2, <1>3, <2>1
<1>5. \E i \in items' : i.at = 0
  <2>1. CASE size = 0
    BY <2>1, <1>1
  <2>2. CASE size # 0
    BY <2>2 DEF Tiled
  <2> QED
    BY <2>1, <2>2
<1>6. \A i \in items : i.at \in Nat /\ i.at < size /\ i.at % 4 = 0
  BY DEF Tiled, TypeOK
<1>7. ASSUME NEW i \in items'
      PROVE  /\ i.at % 4 = 0 /\ i.at < size'
             /\ End(i) = size' \/ \E j \in items' : j.at = End(i)
  <2>1. CASE i \in items
    <3>1. i.at % 4 = 0 /\ i.at < size'
      BY <2>1, <1>3, <1>4, <1>6
    <3>2. End(i) = size \/ \E j \in items : j.at = End(i)
      BY <2>1 DEF Tiled
    <3> QED
      BY <3>1, <3>2, <1>1
  <2>2. CASE i = new
    BY <2>2, <1>1, <1>3, <1>4
  <2> QED
    BY <2>1, <2>2
<1>8. ASSUME NEW i \in items', NEW j \in items', i.at = j.at
      PROVE  i = j
  <2>1. CASE i \in items /\ j \in items
    BY <2>1, <1>8 DEF Tiled
  <2>2. CASE i = new \/ j = new
    <3>1. \A k \in items : k.at # size
      BY <1>3, <1>6
    <3> QED
      BY <2>2, <1>8, <1>1, <3>1
  <2> QED
    BY <2>1, <2>2
<1>9. Tiled'
  <2> HIDE DEF new
  <2>1. \A i \in items' :
            /\ i.at % 4 = 0 /\ i.at < size'
            /\ End(i)' = size' \/ \E j \in items' : j.at = End(i)'
    BY <1>7 DEF End, Width, Pad
  <2> QED
    BY <1>4, <1>5, <1>8, <2>1 DEF Tiled
<1> QED
  BY <1>4, <1>9

\* Packing: the value takes its width if the buffer ends at a multiple of four.
LEMMA PackStep ==
    ASSUME IndInv, NEW kind \in Kinds, NEW len \in Nat, Packed(kind, len),
           size' \in Nat, size' >= size,
           size % 4 = 0 => size' = End(Item(size, kind, len)),
           cap' \in Nat, oom' \in BOOLEAN, WriteInside'
    PROVE  IndInv'
<1> USE DEF IndInv
<1>1. /\ items' = items \cup {Item(size, kind, len)} /\ failed' = FALSE
      /\ lang' = lang /\ pos' = pos /\ received' = received /\ astray' = astray
  BY DEF Packed
<1>2. TypeOK'
  <2>1. Item(size, kind, len) \in [at : Nat, kind : Kinds, len : Nat]
    BY DEF TypeOK, Item
  <2>2. items' \subseteq [at : Nat, kind : Kinds, len : Nat]
    BY <1>1, <2>1 DEF TypeOK
  <2> QED
    BY <1>1, <2>2, ZenonT(30) DEF TypeOK
<1>3. ASSUME ~received PROVE Tiled'
  <2>1. Tiled
    BY <1>3
  <2>2. size' = End(Item(size, kind, len))
    BY <2>1 DEF Tiled
  <2> QED
    BY <2>1, <2>2, <1>1, AppendTiled
<1>4. InStep'
  <2>1. Item(size, kind, len).at = size
    BY DEF Item
  <2>2. ~astray => pos = size \/ \E i \in items : i.at = pos
    BY DEF InStep
  <2> QED
    BY <1>1, <2>1, <2>2 DEF InStep
<1>5. PosBound'
  <2>1. pos \in Nat /\ size \in Nat /\ pos <= size + 3
    BY DEF PosBound, TypeOK
  <2>2. \A a, b, c \in Nat : a <= b + 3 /\ c >= b => a <= c + 3
    OBVIOUS
  <2>3. pos <= size' + 3
    BY <2>1, <2>2, ZenonT(30)
  <2> QED
    BY <1>1, <2>3 DEF PosBound
<1> QED
  BY <1>1, <1>2, <1>3, <1>4, <1>5

\* Reading: a reader in step goes from the start of a value to its end.
LEMMA ReadStep ==
    ASSUME IndInv, NEW kind \in Kinds, NEW ok \in BOOLEAN, Unpacked(kind, ok),
           pos' \in Nat, pos' <= size + 3,
           pos = size => pos' = pos,
           ~astray /\ Matches(kind) =>
               ok /\ \E i \in items : i.at = pos /\ pos' = End(i)
    PROVE  IndInv'
<1> USE DEF IndInv
<1>1. /\ failed' = ~ok /\ astray' = (astray \/ (~Matches(kind) /\ pos # size))
      /\ lang' = lang /\ size' = size /\ cap' = cap /\ oom' = oom
      /\ items' = items /\ received' = received
  BY DEF Unpacked
<1>2. TypeOK'
  <2>1. astray' \in BOOLEAN /\ failed' \in BOOLEAN
    BY <1>1
  <2> QED
    BY <1>1, <2>1 DEF TypeOK
<1>3. ~received' => Tiled'
  BY <1>1 DEF Tiled, End, Width, Pad
<1>4. received' => astray'
  BY <1>1, ZenonT(30)
<1>5. InStep'
  <2> SUFFICES ASSUME ~astray'
               PROVE  /\ pos' = size \/ \E i \in items : i.at = pos'
                      /\ failed' => pos' = size
    BY <1>1 DEF InStep
  <2>1. ~astray /\ (Matches(kind) \/ pos = size)
    BY <1>1, ZenonT(30)
  <2>2. CASE pos = size
    BY <2>2
  <2>3. CASE Matches(kind)
    <3>1. ok /\ \E i \in items : i.at = pos /\ pos' = End(i)
      BY <2>1, <2>3
    <3>2. \A i \in items : End(i) = size \/ \E j \in items : j.at = End(i)
      BY <2>1 DEF Tiled
    <3> QED
      BY <1>1, <3>1, <3>2, ZenonT(30)
  <2> QED
    BY <2>1, <2>2, <2>3
<1>6. PosBound' /\ WriteInside'
  BY <1>1 DEF PosBound, WriteInside
<1> QED
  BY <1>2, <1>3, <1>4, <1>5, <1>6

\* int32, uint32, bool, uint64 and the verifiers of the C buffer.
LEMMA WordPacked ==
    ASSUME IndInv, NEW kind \in Kinds, NEW n \in {4, 8}, pack_word(kind, n),
           n = Width(Item(size, kind, 0))
    PROVE  IndInv'
<1>1. /\ Packed(kind, 0) /\ size' = size + n
      /\ size \in Nat /\ cap \in Nat /\ oom \in BOOLEAN
  BY DEF pack_word, IndInv, TypeOK
<1>2. PICK e \in Ensured(cap, size, n) : cap' = e.cap /\ oom' = (oom \/ e.oom)
  BY DEF pack_word
<1>3. /\ e.cap \in Nat /\ e.oom \in BOOLEAN
      /\ lang # "cpp" /\ n > 0 /\ ~e.oom => size + n <= e.cap
  <2>1. n \in Nat
    OBVIOUS
  <2> QED
    BY <1>1, <1>2, <2>1, EnsuredFacts
<1>4. WriteInside'
  <2>1. lang' = lang
    BY <1>1 DEF Packed
  <2>2. n > 0
    OBVIOUS
  <2> QED
    BY <1>1, <1>2, <1>3, <2>1, <2>2 DEF WriteInside
<1>5. size' = End(Item(size, kind, 0))
  BY <1>1 DEF End, Item
<1>6. cap' \in Nat /\ oom' \in BOOLEAN
  BY <1>1, <1>2, <1>3
<1>7. size' \in Nat /\ size' >= size
  BY <1>1
<1> QED
  BY <1>1, <1>4, <1>5, <1>6, <1>7, PackStep

\* Strings and opaques, with whichever padding the code computes.
LEMMA OpaquePacked ==
    ASSUME IndInv, NEW len \in Nat, NEW pad \in Nat, PackOpaque(len, pad),
           size % 4 = 0 => pad = Pad(len)
    PROVE  IndInv'
<1>1. /\ Packed("opaque", len) /\ size' = size + 4 + len + pad
      /\ size \in Nat /\ cap \in Nat /\ oom \in BOOLEAN
  BY DEF PackOpaque, IndInv, TypeOK
<1>2. PICK e1 \in Ensured(cap, size, 4) :
      \E e2 \in Ensured(e1.cap, size + 4, len) :
      \E e3 \in Ensured(e2.cap, size + 4 + len, pad) :
          cap' = e3.cap /\ oom' = (oom \/ e1.oom \/ e2.oom \/ e3.oom)
  BY DEF PackOpaque
<1>3. PICK e2 \in Ensured(e1.cap, size + 4, len) :
      \E e3 \in Ensured(e2.cap, size + 4 + len, pad) :
          cap' = e3.cap /\ oom' = (oom \/ e1.oom \/ e2.oom \/ e3.oom)
  BY <1>2
<1>4. PICK e3 \in Ensured(e2.cap, size + 4 + len, pad) :
          cap' = e3.cap /\ oom' = (oom \/ e1.oom \/ e2.oom \/ e3.oom)
  BY <1>3
<1>5. /\ e1.cap \in Nat /\ e1.oom \in BOOLEAN
      /\ lang # "cpp" /\ ~e1.oom => size + 4 <= e1.cap
  BY <1>1, EnsuredFacts
<1>6. /\ e2.cap \in Nat /\ e2.oom \in BOOLEAN
      /\ lang # "cpp" /\ len > 0 /\ ~e2.oom => size + 4 + len <= e2.cap
      /\ len = 0 => e2.cap = e1.cap
  <2>1. size + 4 \in Nat
    BY <1>1
  <2> QED
    BY <1>5, <2>1, EnsuredFacts
<1>7. /\ e3.cap \in Nat /\ e3.oom \in BOOLEAN
      /\ lang # "cpp" /\ pad > 0 /\ ~e3.oom => size + 4 + len + pad <= e3.cap
      /\ pad = 0 => e3.cap = e2.cap
  <2>1. size + 4 + len \in Nat
    BY <1>1
  <2> QED
    BY <1>6, <2>1, EnsuredFacts
<1>8. WriteInside'
  <2> SUFFICES ASSUME lang = "c", ~oom' PROVE size' <= cap'
    BY <1>1 DEF WriteInside, Packed
  <2>1. ~e1.oom /\ ~e2.oom /\ ~e3.oom /\ lang # "cpp"
    BY <1>4, ZenonT(30)
  <2>2. size + 4 <= e1.cap
    BY <1>5, <2>1
  <2>3. size + 4 + len <= e2.cap
    BY <1>1, <1>5, <1>6, <2>1, <2>2
  <2>4. size + 4 + len + pad <= e3.cap
    BY <1>1, <1>6, <1>7, <2>1, <2>3
  <2> QED
    BY <1>1, <1>4, <2>4
<1>9. ASSUME size % 4 = 0 PROVE size' = End(Item(size, "opaque", len))
  BY <1>1, <1>9 DEF End, Item, Width
<1>10. cap' \in Nat /\ oom' \in BOOLEAN
  BY <1>1, <1>4, <1>5, <1>6, <1>7
<1>11. size' \in Nat /\ size' >= size /\ "opaque" \in Kinds
  BY <1>1 DEF Kinds
<1> QED
  BY <1>1, <1>8, <1>9, <1>10, <1>11, PackStep

\* Reading a word: the whole word or nothing.
LEMMA WordUnpacked ==
    ASSUME IndInv, NEW kind \in Kinds, NEW n \in {4, 8}, unpack_word(kind, n),
           \A i \in items : i.kind = kind => Width(i) = n
    PROVE  IndInv'
<1>1. size \in Nat /\ pos \in Nat /\ pos <= size + 3 /\ n \in Nat /\ n >= 4
  BY DEF IndInv, TypeOK, PosBound
<1> DEFINE ok == ensure_read_space(pos, n)
<1>2. ok \in BOOLEAN /\ (ok <=> pos + n <= size)
  BY <1>1 DEF ensure_read_space
<1>3. Unpacked(kind, ok) /\ pos' = IF pos + n <= size THEN pos + n ELSE pos
  BY <1>2 DEF unpack_word, ensure_read_space
<1>4. pos' \in Nat /\ pos' <= size + 3 /\ (pos = size => pos' = pos)
  BY <1>1, <1>3
<1>5. ASSUME ~astray, Matches(kind)
      PROVE  ok /\ \E i \in items : i.at = pos /\ pos' = End(i)
  <2>1. PICK i \in items : i.at = pos /\ i.kind = kind
    BY <1>5 DEF Matches
  <2>2. End(i) = pos + n
    BY <2>1 DEF End
  <2>3. pos + n <= size
    <3>1. End(i) = size \/ \E j \in items : j.at = End(i)
      BY <1>5 DEF IndInv, Tiled
    <3>2. \A j \in items : j.at < size /\ j.at \in Nat
      BY <1>5 DEF IndInv, Tiled, TypeOK
    <3> QED
      BY <1>1, <2>2, <3>1, <3>2
  <2> QED
    BY <1>2, <1>3, <2>1, <2>2, <2>3
<1> QED
  BY <1>2, <1>3, <1>4, <1>5, ReadStep

\* Reading a string or an opaque: the length, the bytes, the padding.
LEMMA OpaqueUnpacked ==
    ASSUME IndInv, unpack_opaque
    PROVE  IndInv'
<1>1. size \in Nat /\ pos \in Nat /\ pos <= size + 3
  BY DEF IndInv, TypeOK, PosBound
<1>2. PICK len \in LengthAt : ReadOpaque(len)
  BY DEF unpack_opaque
<1>3. len \in Nat
  BY BufferAssumption, ZenonT(30) DEF LengthAt, IndInv, TypeOK
<1>4. Pad(len) \in 0 .. 3
  BY <1>3, PadFacts
<1> DEFINE ok == ensure_read_space(pos, 4) /\ ensure_read_space(pos + 4, len)
<1>5. ok \in BOOLEAN /\ (ok <=> pos + 4 <= size /\ pos + 4 + len <= size)
  BY <1>1, <1>3 DEF ensure_read_space
<1>6. /\ Unpacked("opaque", ok)
      /\ pos' = IF ~(pos + 4 <= size) THEN pos
                ELSE IF ~(pos + 4 + len <= size) THEN pos + 4
                ELSE pos + 4 + len + Pad(len)
  BY <1>2 DEF ReadOpaque, ensure_read_space
<1>7. pos' \in Nat /\ pos' <= size + 3 /\ (pos = size => pos' = pos)
  BY <1>1, <1>3, <1>4, <1>6
<1>8. ASSUME ~astray, Matches("opaque")
      PROVE  ok /\ \E i \in items : i.at = pos /\ pos' = End(i)
  <2>1. PICK i \in items : i.at = pos /\ i.kind = "opaque"
    BY <1>8 DEF Matches
  <2>2. len = i.len
    <3>1. \A j, k \in items : j.at = k.at => j = k
      BY <1>8 DEF IndInv, Tiled
    <3>2. PICK j \in items : j.at = pos /\ len = j.len
      BY <1>2, <1>8 DEF LengthAt, IndInv
    <3> QED
      BY <2>1, <3>1, <3>2
  <2>3. End(i) = pos + (4 + len + Pad(len))
    BY <2>1, <2>2 DEF End, Width
  <2>4. pos + (4 + len + Pad(len)) <= size
    <3>1. End(i) = size \/ \E j \in items : j.at = End(i)
      BY <1>8 DEF IndInv, Tiled
    <3>2. \A j \in items : j.at < size /\ j.at \in Nat
      BY <1>8 DEF IndInv, Tiled, TypeOK
    <3>3. End(i) \in Nat
      BY <1>1, <1>3, <1>4, <2>3
    <3> QED
      BY <1>1, <2>3, <3>1, <3>2, <3>3
  <2>5. pos' = pos + (4 + len + Pad(len)) /\ ok
    BY <1>1, <1>3, <1>4, <1>5, <1>6, <2>4
  <2> QED
    BY <2>1, <2>3, <2>5
<1>9. "opaque" \in Kinds
  BY DEF Kinds
<1> QED
  BY <1>5, <1>6, <1>7, <1>8, <1>9, ReadStep, ZenonT(30)

\* The operations on the buffer as a whole.
LEMMA WholeStep ==
    ASSUME IndInv,
           reset_read \/ clear \/ destroy \/ init_capacity \/ init_copy
    PROVE  IndInv'
<1> USE DEF IndInv
<1>1. CASE reset_read
  <2>1. /\ lang' = lang /\ size' = size /\ cap' = cap /\ oom' = oom
        /\ items' = items /\ received' = received
        /\ pos' = 0 /\ astray' = received /\ failed' = FALSE
    BY <1>1 DEF reset_read
  <2>2. TypeOK'
    BY <2>1, ZenonT(30) DEF TypeOK
  <2>3. ~received' => Tiled'
    BY <2>1 DEF Tiled, End, Width, Pad
  <2>4. InStep'
    BY <2>1 DEF InStep, Tiled
  <2>5. PosBound' /\ WriteInside'
    BY <2>1 DEF PosBound, WriteInside, TypeOK
  <2> QED
    BY <2>1, <2>2, <2>3, <2>4, <2>5
<1>2. CASE clear \/ destroy \/ init_capacity
  <2>1. Emptied
    BY <1>2 DEF clear, destroy, init_capacity
  <2>2. /\ lang' = lang /\ size' = 0 /\ pos' = 0 /\ items' = {}
        /\ received' = FALSE /\ astray' = FALSE /\ failed' = FALSE
    BY <2>1 DEF Emptied
  <2>3. cap' \in Nat /\ oom' \in BOOLEAN
    <3>1. CASE clear
      BY <3>1 DEF clear, TypeOK
    <3>2. CASE destroy
      BY <3>2, ZenonT(30) DEF destroy
    <3>3. CASE init_capacity
      BY <3>3, BufferAssumption, ZenonT(30) DEF init_capacity
    <3> QED
      BY <1>2, <3>1, <3>2, <3>3
  <2>4. TypeOK'
    BY <2>2, <2>3, ZenonT(30) DEF TypeOK
  <2>5. Tiled'
    BY <2>2 DEF Tiled
  <2>6. InStep' /\ PosBound' /\ WriteInside'
    BY <2>2, <2>3 DEF InStep, PosBound, WriteInside
  <2> QED
    BY <2>2, <2>4, <2>5, <2>6
<1>3. CASE init_copy
  <2>1. PICK n \in Received : size' = n /\ cap' = IF lang = "c" THEN n ELSE 0
    BY <1>3 DEF init_copy
  <2>2. n \in Nat
    BY BufferAssumption
  <2>3. /\ lang' = lang /\ pos' = 0 /\ items' = {} /\ oom' = FALSE
        /\ received' = TRUE /\ astray' = TRUE /\ failed' = FALSE
    BY <1>3 DEF init_copy
  <2>4. TypeOK'
    BY <2>1, <2>2, <2>3, ZenonT(30) DEF TypeOK
  <2>5. InStep' /\ PosBound' /\ WriteInside'
    BY <2>1, <2>2, <2>3 DEF InStep, PosBound, WriteInside
  <2> QED
    BY <2>3, <2>4, <2>5
<1> QED
  BY <1>1, <1>2, <1>3

\* Every operation of the buffer preserves it.
THEOREM IndNext == IndInv /\ [Next]_vars => IndInv'
<1> SUFFICES ASSUME IndInv, [Next]_vars PROVE IndInv'
  OBVIOUS
<1>1. size \in Nat
  BY DEF IndInv, TypeOK
<1>2. ASSUME NEW kind \in Kinds \ {"opaque"}, NEW n \in {4, 8},
             n = IF kind = "u32" THEN 4 ELSE 8,
             pack_word(kind, n) \/ unpack_word(kind, n)
      PROVE  IndInv'
  <2>1. n = Width(Item(size, kind, 0))
    BY <1>2 DEF Width, Item
  <2>2. \A i \in items : i.kind = kind => Width(i) = n
    BY <1>2 DEF Width
  <2> QED
    BY <1>2, <2>1, <2>2, WordPacked, WordUnpacked
<1>3. ASSUME NEW len \in Lens, pack_string(len) \/ pack_opaque(len)
      PROVE  IndInv'
  <2>1. len \in Nat /\ size + 4 + len \in Nat
    BY <1>1, BufferAssumption
  <2>2. Pad(len) \in Nat /\ Pad(size + 4 + len) \in Nat
    <3>1. Pad(len) \in 0 .. 3 /\ Pad(size + 4 + len) \in 0 .. 3
      BY <2>1, PadFacts, ZenonT(30)
    <3> QED
      BY <3>1
  <2>3. size % 4 = 0 => Pad(size + 4 + len) = Pad(len)
    BY <1>1, <2>1, PadAgrees
  <2>4. PackOpaque(len, Pad(len)) \/ PackOpaque(len, Pad(size + 4 + len))
    BY <1>3 DEF pack_string, pack_opaque, pad_to_4_bytes
  <2> QED
    BY <2>1, <2>2, <2>3, <2>4, OpaquePacked
<1>4. CASE UNCHANGED vars
  <2>1. /\ lang' = lang /\ size' = size /\ pos' = pos /\ cap' = cap /\ oom' = oom
        /\ items' = items /\ received' = received /\ astray' = astray
        /\ failed' = failed
    BY <1>4 DEF vars
  <2>2. TypeOK' /\ (~received' => Tiled') /\ (received' => astray')
    BY <2>1 DEF IndInv, TypeOK, Tiled, End, Width, Pad
  <2>3. InStep' /\ PosBound' /\ WriteInside'
    BY <2>1 DEF IndInv, InStep, PosBound, WriteInside
  <2> QED
    BY <2>2, <2>3 DEF IndInv
<1>5. /\ {"u32", "u64", "verf"} = Kinds \ {"opaque"}
  BY DEF Kinds
<1>6. CASE \/ pack_word("u32", 4) \/ pack_word("u64", 8) \/ pack_word("verf", 8)
           \/ unpack_word("u32", 4) \/ unpack_word("u64", 8)
           \/ unpack_word("verf", 8)
  BY <1>2, <1>5, <1>6
<1> QED
  BY <1>3, <1>4, <1>6, OpaqueUnpacked, WholeStep DEF Next

\* So it holds of the buffer at all times.
THEOREM Invariance == Spec => []IndInv
BY IndInit, IndNext, PTL DEF Spec

\* The reader stays in step with the writer, for any values packed: padding by
\* the size of the buffer and skipping by the length of the value agree.
THEOREM ReaderInStep == Spec => []InStep
<1>1. IndInv => InStep
  BY DEF IndInv
<1> QED
  BY Invariance, <1>1, PTL

\* The read position passes the end of any buffer by three bytes at most,
\* whatever length a received message states.
THEOREM PositionBounded == Spec => []PosBound
<1>1. IndInv => PosBound
  BY DEF IndInv
<1> QED
  BY Invariance, <1>1, PTL

\* As long as no realloc fails, the C buffer never holds more than its block.
THEOREM WritesInside == Spec => []WriteInside
<1>1. IndInv => WriteInside
  BY DEF IndInv
<1> QED
  BY Invariance, <1>1, PTL

=============================================================================
