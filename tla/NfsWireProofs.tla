--------------------------- MODULE NfsWireProofs ---------------------------
(***************************************************************************)
(* Unpacking gives back what was packed, for every layout that can be      *)
(* built from the types of XdrWire, for every value and for lists of any   *)
(* length; and hence for the calls of NfsWire.  The induction over fields  *)
(* and elements is over sets of indices.                                   *)
(***************************************************************************)
EXTENDS NfsWire, WellFoundedInduction, TLAPS

\* Leaves are first-order reasoning; the ones that need arithmetic or sequences cite SMT.
USE ZenonT(30)

-----------------------------------------------------------------------------
(* Sequences. *)

\* A sequence is a function on its places.
LEMMA SeqIs ==
    ASSUME NEW T, NEW w \in Seq(T)
    PROVE  Len(w) \in Nat /\ w \in [1 .. Len(w) -> T] /\ DOMAIN w = 1 .. Len(w)
  BY SMTT(30)

\* Sequences with the same places are the same.
LEMMA SeqSame ==
    ASSUME NEW T, NEW v \in Seq(T), NEW w \in Seq(T), Len(v) = Len(w),
           \A k \in 1 .. Len(v) : v[k] = w[k]
    PROVE  v = w
  BY SMTT(30)

\* One sequence behind another.
LEMMA ConcatIs ==
    ASSUME NEW T, NEW v \in Seq(T), NEW w \in Seq(T)
    PROVE  /\ v \o w \in Seq(T)
           /\ Len(v \o w) = Len(v) + Len(w)
           /\ \A k \in 1 .. Len(v) + Len(w) :
                (v \o w)[k] = IF k <= Len(v) THEN v[k] ELSE w[k - Len(v)]
  BY SMTT(30)

\* Nothing, before or behind a sequence.
LEMMA ConcatEmpty ==
    ASSUME NEW T, NEW w \in Seq(T) PROVE w \o <<>> = w /\ <<>> \o w = w
  BY SMTT(30)

\* The places a to b of a sequence.
LEMMA SubSeqIs ==
    ASSUME NEW T, NEW w, NEW a \in Int, NEW b \in Int, \A k \in a .. b : w[k] \in T
    PROVE  /\ SubSeq(w, a, b) \in Seq(T)
           /\ Len(SubSeq(w, a, b)) = IF a <= b THEN b - a + 1 ELSE 0
           /\ \A k \in 1 .. b - a + 1 : SubSeq(w, a, b)[k] = w[a + k - 1]
  BY SMTT(30)

\* All places of a sequence.
LEMMA SubSeqAll ==
    ASSUME NEW T, NEW w \in Seq(T) PROVE SubSeq(w, 1, Len(w)) = w
<1>1. Len(w) \in Nat /\ \A k \in 1 .. Len(w) : w[k] \in T
  BY SMTT(30)
<1> DEFINE v == SubSeq(w, 1, Len(w))
<1>2. v \in Seq(T) /\ Len(v) = Len(w) /\ \A k \in 1 .. Len(w) : v[k] = w[k]
  BY <1>1, SubSeqIs, SMTT(30)
<1> HIDE DEF v
<1>3. v = w
  BY <1>2, SeqSame
<1> QED BY <1>3 DEF v

-----------------------------------------------------------------------------
(* Induction, and cuts of a message. *)

\* A nonempty set of naturals has a least element.
LEMMA Least ==
    ASSUME NEW T, T \subseteq Nat, T # {}
    PROVE  \E m \in T : \A k \in T : m <= k
<1>1. PICK x \in T : \A y \in T : ~ (<<y, x>> \in OpToRel(<, Nat))
  BY NatLessThanWellFounded, WFMin
<1>2. \A y \in T : ~(y < x)
  BY <1>1 DEF OpToRel
<1> QED BY <1>2, SMTT(30)

\* Induction up to n, with a set in the place of a predicate: the form in
\* which the provers can use it for the fields of a structure and the
\* elements of a list.
LEMMA Induction ==
    ASSUME NEW n \in Nat, NEW S, 0 \in S,
           \A k \in 1 .. n : k - 1 \in S => k \in S
    PROVE  \A k \in 0 .. n : k \in S
<1> SUFFICES ASSUME NEW j \in 0 .. n, j \notin S PROVE FALSE
  OBVIOUS
<1> DEFINE T == {k \in 0 .. n : k \notin S}
<1>1. T \subseteq Nat /\ T # {}
  BY SMTT(30)
<1>2. PICK m \in T : \A k \in T : m <= k
  <2> HIDE DEF T
  <2> QED BY <1>1, Least
<1>3. m # 0 /\ m - 1 \in 0 .. n /\ m \in 1 .. n
  BY <1>2, SMTT(30)
<1>4. m - 1 \in S
  BY <1>2, <1>3, SMTT(30)
<1> QED BY <1>2, <1>3, <1>4, SMTT(30)

\* What comes first is read first, and leaves the rest.
LEMMA Concat ==
    ASSUME NEW s \in Messages, NEW t \in Messages
    PROVE  /\ s \o t \in Messages
           /\ Len(s) \in Nat
           /\ Len(s \o t) = Len(s) + Len(t)
           /\ SubSeq(s \o t, 1, Len(s)) = s
           /\ Drop(s \o t, Len(s)) = t
<1> USE DEF Messages
<1>1. /\ s \o t \in Seq(Int)
      /\ Len(s) \in Nat /\ Len(t) \in Nat
      /\ Len(s \o t) = Len(s) + Len(t)
      /\ \A i \in 1 .. Len(s) + Len(t) :
            (s \o t)[i] = IF i <= Len(s) THEN s[i] ELSE t[i - Len(s)]
  BY ConcatIs, SeqIs
<1> DEFINE st == s \o t
<1> HIDE DEF st
<1>2. /\ st \in Seq(Int)
      /\ Len(s) \in Nat /\ Len(t) \in Nat
      /\ Len(st) = Len(s) + Len(t)
      /\ \A i \in 1 .. Len(s) + Len(t) :
            st[i] = IF i <= Len(s) THEN s[i] ELSE t[i - Len(s)]
  BY <1>1 DEF st
<1>3. SubSeq(st, 1, Len(s)) = s
  <2>1. \A i \in 1 .. Len(s) : st[i] = s[i] /\ s[i] \in Int
    BY <1>2, SMTT(30)
  <2>2. /\ SubSeq(st, 1, Len(s)) \in Seq(Int)
        /\ Len(SubSeq(st, 1, Len(s))) = Len(s)
        /\ \A i \in 1 .. Len(s) : SubSeq(st, 1, Len(s))[i] = st[i]
    BY <1>2, <2>1, SubSeqIs, SMTT(30)
  <2> QED BY <2>1, <2>2, SeqSame
<1>4. SubSeq(st, Len(s) + 1, Len(st)) = t
  <2>1. \A i \in Len(s) + 1 .. Len(st) : st[i] \in Int
    BY <1>2, SMTT(30)
  <2>2. /\ SubSeq(st, Len(s) + 1, Len(st)) \in Seq(Int)
        /\ Len(SubSeq(st, Len(s) + 1, Len(st))) = Len(t)
        /\ \A i \in 1 .. Len(t) :
              SubSeq(st, Len(s) + 1, Len(st))[i] = st[Len(s) + i]
    BY <1>2, <2>1, SubSeqIs, SMTT(30)
  <2>3. \A i \in 1 .. Len(t) : st[Len(s) + i] = t[i]
    <3> TAKE i \in 1 .. Len(t)
    <3> DEFINE m == Len(s) + i
    <3>1. /\ m \in 1 .. Len(s) + Len(t)
          /\ ~(m <= Len(s))
          /\ m - Len(s) = i
      BY <1>2, SMTT(30)
    <3> HIDE DEF m
    <3>2. st[m] = t[i]
      BY <1>2, <3>1
    <3> QED BY <3>2 DEF m
  <2> QED BY <2>2, <2>3, SeqSame
<1> QED BY <1>1, <1>3, <1>4 DEF st, Drop

\* Concatenation of messages is associative.
LEMMA Assoc ==
    ASSUME NEW s \in Messages, NEW t \in Messages, NEW u \in Messages
    PROVE  (s \o t) \o u = s \o (t \o u)
  BY SMTT(30) DEF Messages

\* A prefix of s \o t is a prefix of s, or s and a prefix of t.
LEMMA Cut ==
    ASSUME NEW s \in Messages, NEW t \in Messages,
           NEW k \in 0 .. Len(s \o t) - 1
    PROVE  \/ k \in 0 .. Len(s) - 1 /\ SubSeq(s \o t, 1, k) = SubSeq(s, 1, k)
           \/ /\ k - Len(s) \in 0 .. Len(t) - 1
              /\ SubSeq(s \o t, 1, k) = s \o SubSeq(t, 1, k - Len(s))
              /\ SubSeq(t, 1, k - Len(s)) \in Messages
<1> USE DEF Messages
<1>1. /\ s \o t \in Seq(Int)
      /\ Len(s) \in Nat /\ Len(t) \in Nat
      /\ Len(s \o t) = Len(s) + Len(t)
      /\ \A i \in 1 .. Len(s) + Len(t) :
            (s \o t)[i] = IF i <= Len(s) THEN s[i] ELSE t[i - Len(s)]
  BY ConcatIs, SeqIs
<1> DEFINE st == s \o t
           p == SubSeq(st, 1, k)
<1> HIDE DEF st
<1>2. /\ st \in Seq(Int)
      /\ Len(s) \in Nat /\ Len(t) \in Nat
      /\ Len(st) = Len(s) + Len(t)
      /\ \A i \in 1 .. Len(s) + Len(t) :
            st[i] = IF i <= Len(s) THEN s[i] ELSE t[i - Len(s)]
      /\ k \in 0 .. (Len(s) + Len(t)) - 1
  <2>1. k \in 0 .. (Len(s) + Len(t)) - 1
    BY <1>1
  <2> QED BY <1>1, <2>1 DEF st
<1>3. /\ p \in Seq(Int)
      /\ Len(p) = k
      /\ \A i \in 1 .. k : p[i] = st[i]
  <2>1. \A i \in 1 .. k : st[i] \in Int
    BY <1>2, SMTT(30)
  <2> QED BY <1>2, <2>1, SubSeqIs, SMTT(30)
<1> HIDE DEF p
<1>4. CASE k < Len(s)
  <2>1. /\ SubSeq(s, 1, k) \in Seq(Int)
        /\ Len(SubSeq(s, 1, k)) = k
        /\ \A i \in 1 .. k : SubSeq(s, 1, k)[i] = s[i]
    <3>1. \A i \in 1 .. k : s[i] \in Int
      BY <1>2, <1>4, SMTT(30)
    <3> QED BY <1>2, <3>1, SubSeqIs, SMTT(30)
  <2>2. \A i \in 1 .. k : p[i] = SubSeq(s, 1, k)[i]
    BY <1>2, <1>3, <1>4, <2>1, SMTT(30)
  <2>3. p = SubSeq(s, 1, k)
    BY <1>3, <2>1, <2>2, SeqSame
  <2>4. k \in 0 .. Len(s) - 1
    BY <1>2, <1>4, SMTT(30)
  <2> QED BY <2>3, <2>4 DEF p, st
<1>5. CASE k >= Len(s)
  <2> DEFINE j == k - Len(s)
             q == SubSeq(t, 1, j)
  <2>1. j \in 0 .. Len(t) - 1
    BY <1>2, <1>5, SMTT(30)
  <2>2. /\ q \in Seq(Int)
        /\ Len(q) = j
        /\ \A i \in 1 .. j : q[i] = t[i]
    <3>1. \A i \in 1 .. j : t[i] \in Int
      BY <1>2, <2>1, SMTT(30)
    <3> QED BY <1>2, <2>1, <3>1, SubSeqIs, SMTT(30)
  <2> HIDE DEF q
  <2>3. /\ s \o q \in Seq(Int)
        /\ Len(s \o q) = Len(s) + Len(q)
        /\ \A i \in 1 .. Len(s) + Len(q) :
              (s \o q)[i] = IF i <= Len(s) THEN s[i] ELSE q[i - Len(s)]
    BY <2>2, ConcatIs
  <2> DEFINE sq == s \o q
  <2> HIDE DEF sq
  <2>4. /\ sq \in Seq(Int)
        /\ Len(sq) = Len(s) + Len(q)
        /\ \A i \in 1 .. Len(s) + Len(q) :
              sq[i] = IF i <= Len(s) THEN s[i] ELSE q[i - Len(s)]
    BY <2>3 DEF sq
  <2>5. Len(sq) = Len(p)
    BY <1>2, <1>3, <1>5, <2>1, <2>2, <2>4, SMTT(30)
  <2>6. \A i \in 1 .. Len(sq) : p[i] = sq[i]
    <3> TAKE i \in 1 .. Len(sq)
    <3>1. /\ i \in 1 .. k /\ i \in 1 .. Len(s) + Len(q)
          /\ i \in 1 .. Len(s) + Len(t)
          /\ ~(i <= Len(s)) => i - Len(s) \in 1 .. j
      BY <1>2, <1>3, <1>5, <2>1, <2>2, <2>4, <2>5, SMTT(30)
    <3> HIDE DEF j
    <3> QED BY <1>2, <1>3, <2>2, <2>4, <3>1
  <2>7. p = sq
    BY <1>3, <2>4, <2>5, <2>6, SeqSame
  <2> QED BY <2>1, <2>2, <2>7 DEF p, st, sq, q
<1>6. k < Len(s) \/ k >= Len(s)
  BY <1>2, SMTT(30)
<1> QED BY <1>4, <1>5, <1>6

-----------------------------------------------------------------------------
(* What one coder packs, another one reads. *)

\* u reads what t packs, whatever follows it, in both modes, and takes no
\* part of it for the whole (XdrBuffer throws, a filter returns FALSE).
Understands(u, t) ==
    \A n \in Nat : \A c \in t.codes[n] :
        /\ c.words \in Messages
        /\ \A mode \in Modes : \A w \in Messages :
            u.reads[mode][c.words \o w] = {Got(c.v, w)}
        /\ \A k \in 0 .. Len(c.words) - 1 :
            u.reads["fail"][SubSeq(c.words, 1, k)] = {}

\* The first k words of a message.
LEMMA Prefix ==
    ASSUME NEW v \in Messages, NEW k \in 0 .. Len(v) - 1
    PROVE  /\ SubSeq(v, 1, k) \in Messages
           /\ Len(SubSeq(v, 1, k)) = k
           /\ \A i \in 1 .. k : SubSeq(v, 1, k)[i] = v[i]
<1>1. Len(v) \in Nat /\ \A i \in 1 .. k : v[i] \in Int
  BY SMTT(30) DEF Messages
<1> QED BY <1>1, SubSeqIs, SMTT(30) DEF Messages

\* As many words as are wanted are taken (get_uint32 and the like).
LEMMA TakeWhole ==
    ASSUME NEW v \in Messages, NEW w \in Messages, NEW mode, NEW kept
    PROVE  Take(mode, Len(v), v \o w, kept) = {Got(v, w)}
<1>1. Len(v) \in Nat /\ Len(w) \in Nat
  BY SMTT(30) DEF Messages
<1>2. Len(v \o w) >= Len(v)
  <2>1. Len(v \o w) = Len(v) + Len(w)
    BY Concat
  <2> DEFINE n == Len(v \o w)
  <2> HIDE DEF n
  <2>2. n = Len(v) + Len(w)
    BY <2>1 DEF n
  <2>3. n >= Len(v)
    BY <1>1, <2>2, SMTT(30)
  <2> QED BY <2>3 DEF n
<1> QED BY <1>2, Concat DEF Take

\* Too few words are not taken.
LEMMA TakeShort ==
    ASSUME NEW w \in Messages, NEW n \in Nat, Len(w) < n, NEW kept
    PROVE  Take("fail", n, w, kept) = {}
<1>1. ~(Len(w) >= n)
  BY SMTT(30) DEF Messages
<1> QED BY <1>1 DEF Take, ShortRead

\* A word in front of a message.
LEMMA Cons ==
    ASSUME NEW a \in Int, NEW v \in Messages
    PROVE  /\ <<a>> \in Messages
           /\ Len(<<a>>) = 1
           /\ <<a>> \o v \in Messages
           /\ Len(<<a>> \o v) = Len(v) + 1
           /\ <<a>> \o v # <<>>
           /\ Head(<<a>> \o v) = a
           /\ \A i \in 1 .. Len(v) : (<<a>> \o v)[i + 1] = v[i]
<1> DEFINE l == <<a>>
           m == l \o v
<1>1. l \in Seq(Int) /\ Len(l) = 1 /\ l[1] = a
  BY SMTT(30)
<1> HIDE DEF l
<1>2. /\ m \in Seq(Int)
      /\ Len(m) = Len(l) + Len(v)
      /\ \A i \in 1 .. Len(l) + Len(v) :
            m[i] = IF i <= Len(l) THEN l[i] ELSE v[i - Len(l)]
  BY <1>1, ConcatIs DEF Messages
<1> HIDE DEF m
<1>3. Len(v) \in Nat
  BY SMTT(30) DEF Messages
<1>4. Len(m) = Len(v) + 1 /\ m # <<>> /\ Head(m) = a
  BY <1>1, <1>2, <1>3, SMTT(30)
<1>5. \A i \in 1 .. Len(v) : m[i + 1] = v[i]
  <2> TAKE i \in 1 .. Len(v)
  <2> DEFINE j == i + 1
  <2>1. j \in 1 .. Len(l) + Len(v) /\ ~(j <= Len(l)) /\ j - Len(l) = i
    BY <1>1, <1>3, SMTT(30)
  <2> HIDE DEF j
  <2>2. m[j] = v[i]
    BY <1>2, <2>1
  <2> QED BY <2>2 DEF j
<1> QED BY <1>1, <1>2, <1>4, <1>5 DEF m, l, Messages

\* The words of s are the first ones of s \o t.
LEMMA Elements ==
    ASSUME NEW s \in Messages, NEW t \in Messages
    PROVE  \A i \in 1 .. Len(s) : (s \o t)[i] = s[i]
<1>1. \A i \in 1 .. Len(s) + Len(t) :
        (s \o t)[i] = IF i <= Len(s) THEN s[i] ELSE t[i - Len(s)]
  BY ConcatIs DEF Messages
<1>2. \A i \in 1 .. Len(s) : i \in 1 .. Len(s) + Len(t) /\ i <= Len(s)
  BY SMTT(30) DEF Messages
<1> QED BY <1>1, <1>2

\* Counted words are taken whole (get_opaque, get_string).
LEMMA OpaqueWhole ==
    ASSUME NEW v \in Messages, NEW w \in Messages, NEW mode, NEW kept
    PROVE  /\ <<4 * Len(v)>> \o v \in Messages
           /\ Len(<<4 * Len(v)>> \o v) = Len(v) + 1
           /\ TakeOpaque(mode, (<<4 * Len(v)>> \o v) \o w, kept) = {Got(v, w)}
<1> DEFINE m == <<4 * Len(v)>> \o v
           x == m \o w
<1>1. Len(v) \in Nat /\ Len(w) \in Nat /\ 4 * Len(v) \in Int
  BY SMTT(30) DEF Messages
<1>2. /\ m \in Messages /\ Len(m) = Len(v) + 1
      /\ m # <<>> /\ Head(m) = 4 * Len(v)
      /\ \A i \in 1 .. Len(v) : m[i + 1] = v[i]
  BY <1>1, Cons
<1> HIDE DEF m
<1>4. x \in Messages /\ Len(x) = Len(m) + Len(w) /\ Drop(x, Len(m)) = w
  BY <1>2, Concat
<1>5. \A i \in 1 .. Len(m) : x[i] = m[i]
  BY <1>2, Elements
<1> HIDE DEF x
<1>6. x # <<>> /\ Head(x) = 4 * Len(v)
  BY <1>1, <1>2, <1>4, <1>5, SMTT(30) DEF Messages
<1>7. (Head(x) + 3) \div 4 = Len(v) /\ Head(x) >= 0 /\ Len(v) <= Len(x) - 1
  BY <1>1, <1>2, <1>4, <1>6, SMTT(30)
<1>8. SubSeq(x, 2, Len(v) + 1) = v
  <2>1. \A i \in 2 .. Len(v) + 1 : x[i] \in Int
    BY <1>1, <1>2, <1>4, SMTT(30) DEF Messages
  <2>2. /\ SubSeq(x, 2, Len(v) + 1) \in Seq(Int)
        /\ Len(SubSeq(x, 2, Len(v) + 1)) = Len(v)
        /\ \A i \in 1 .. Len(v) : SubSeq(x, 2, Len(v) + 1)[i] = x[i + 1]
    BY <1>1, <2>1, SubSeqIs, SMTT(30)
  <2>3. \A i \in 1 .. Len(v) : x[i + 1] = v[i]
    <3>1. \A i \in 1 .. Len(v) : i + 1 \in 1 .. Len(m)
      BY <1>1, <1>2, SMTT(30)
    <3> QED BY <1>2, <1>5, <3>1
  <2> QED BY <2>2, <2>3, SeqSame DEF Messages
<1>9. TakeOpaque(mode, x, kept) = {Got(v, w)}
  BY <1>2, <1>4, <1>6, <1>7, <1>8 DEF TakeOpaque
<1> QED BY <1>2, <1>9 DEF x, m

\* Counted words of which some are missing are not taken.
LEMMA OpaqueShort ==
    ASSUME NEW v \in Messages, NEW k \in 0 .. Len(v), NEW kept
    PROVE  TakeOpaque("fail", SubSeq(<<4 * Len(v)>> \o v, 1, k), kept) = {}
<1> DEFINE m == <<4 * Len(v)>> \o v
           p == SubSeq(m, 1, k)
<1>1. Len(v) \in Nat /\ 4 * Len(v) \in Int
  BY SMTT(30) DEF Messages
<1>2. m \in Messages /\ Len(m) = Len(v) + 1 /\ m # <<>> /\ Head(m) = 4 * Len(v)
  BY <1>1, Cons
<1> HIDE DEF m
<1>4. k \in 0 .. Len(m) - 1
  BY <1>1, <1>2, SMTT(30)
<1>5. p \in Messages /\ Len(p) = k /\ \A i \in 1 .. k : p[i] = m[i]
  BY <1>2, <1>4, Prefix
<1> HIDE DEF p
<1> SUFFICES TakeOpaque("fail", p, kept) = {}
  BY DEF p, m
<1>6. CASE p = <<>>
  BY <1>6 DEF TakeOpaque, ShortRead
<1>7. CASE p # <<>>
  <2>1. k \in 1 .. Len(v) /\ Head(p) = 4 * Len(v)
    BY <1>1, <1>2, <1>5, <1>7, SMTT(30) DEF Messages
  <2>2. ~((Head(p) + 3) \div 4 <= Len(p) - 1)
    BY <1>1, <1>5, <2>1, SMTT(30)
  <2> QED BY <1>7, <2>2 DEF TakeOpaque, ShortRead
<1> QED BY <1>6, <1>7

\* The parts of a packed structure.
LEMMA CodeIs == \A v, w : Code(v, w).v = v /\ Code(v, w).words = w
  BY SMTT(30) DEF Code

\* The parts of an outcome.
LEMMA GotIs == \A v, w : Got(v, w).v = v /\ Got(v, w).rest = w
  BY SMTT(30) DEF Got

-----------------------------------------------------------------------------
(* Words, and words counted by a length. *)

\* t packs m words as they are.
PacksWords(t, m) ==
    \A n \in Nat : \A c \in t.codes[n] :
        \E v \in Messages : Len(v) = m /\ c = Code(v, v)

\* u takes m words as they are.
ReadsWords(u, m, kept) ==
    \A mode \in Modes : \A w \in Messages :
        u.reads[mode][w] = Take(mode, m, w, kept)

\* t packs words behind their length.
PacksCounted(t) ==
    \A n \in Nat : \A c \in t.codes[n] :
        \E v \in Messages : c = Code(v, <<4 * Len(v)>> \o v)

\* u takes words behind their length.
ReadsCounted(u, kept) ==
    \A mode \in Modes : \A w \in Messages :
        u.reads[mode][w] = TakeOpaque(mode, w, kept)

\* Words packed as they are, are read as they are.
LEMMA PlainRead ==
    ASSUME NEW u, NEW t, NEW m \in Nat, NEW kept,
           PacksWords(t, m), ReadsWords(u, m, kept)
    PROVE  Understands(u, t)
<1> SUFFICES ASSUME NEW n \in Nat, NEW c \in t.codes[n]
             PROVE  /\ c.words \in Messages
                    /\ \A mode \in Modes : \A w \in Messages :
                        u.reads[mode][c.words \o w] = {Got(c.v, w)}
                    /\ \A k \in 0 .. Len(c.words) - 1 :
                        u.reads["fail"][SubSeq(c.words, 1, k)] = {}
  BY DEF Understands
<1>1. PICK v \in Messages : Len(v) = m /\ c = Code(v, v)
  BY DEF PacksWords
<1>2. c.words = v /\ c.v = v
  BY <1>1, CodeIs
<1>3. \A mode \in Modes : \A w \in Messages : u.reads[mode][v \o w] = {Got(v, w)}
  <2> TAKE mode \in Modes
  <2> TAKE w \in Messages
  <2>1. v \o w \in Messages
    BY Concat
  <2>2. Take(mode, Len(v), v \o w, kept) = {Got(v, w)}
    BY TakeWhole
  <2> QED BY <1>1, <2>1, <2>2 DEF ReadsWords
<1>4. ASSUME NEW k \in 0 .. Len(v) - 1
      PROVE  u.reads["fail"][SubSeq(v, 1, k)] = {}
  <2>1. SubSeq(v, 1, k) \in Messages /\ Len(SubSeq(v, 1, k)) = k
    BY Prefix
  <2>2. k < m
    BY <1>1, SMTT(30)
  <2> QED BY <2>1, <2>2, TakeShort DEF Modes, ReadsWords
<1> QED BY <1>2, <1>3, <1>4

\* Words packed behind their length are read so.
LEMMA CountedRead ==
    ASSUME NEW u, NEW t, NEW kept, PacksCounted(t), ReadsCounted(u, kept)
    PROVE  Understands(u, t)
<1> SUFFICES ASSUME NEW n \in Nat, NEW c \in t.codes[n]
             PROVE  /\ c.words \in Messages
                    /\ \A mode \in Modes : \A w \in Messages :
                        u.reads[mode][c.words \o w] = {Got(c.v, w)}
                    /\ \A k \in 0 .. Len(c.words) - 1 :
                        u.reads["fail"][SubSeq(c.words, 1, k)] = {}
  BY DEF Understands
<1>1. PICK v \in Messages : c = Code(v, <<4 * Len(v)>> \o v)
  BY DEF PacksCounted
<1> DEFINE m == <<4 * Len(v)>> \o v
<1>2. c.words = m /\ c.v = v
  BY <1>1, CodeIs
<1>3. m \in Messages /\ Len(m) = Len(v) + 1
  BY OpaqueWhole
<1>4. \A mode \in Modes : \A w \in Messages : u.reads[mode][m \o w] = {Got(v, w)}
  <2> TAKE mode \in Modes
  <2> TAKE w \in Messages
  <2>1. TakeOpaque(mode, m \o w, kept) = {Got(v, w)}
    BY OpaqueWhole
  <2>2. m \o w \in Messages
    <3> HIDE DEF m
    <3> QED BY <1>3, Concat
  <2> QED BY <2>1, <2>2 DEF ReadsCounted
<1>5. ASSUME NEW k \in 0 .. Len(m) - 1
      PROVE  u.reads["fail"][SubSeq(m, 1, k)] = {}
  <2>1. SubSeq(m, 1, k) \in Messages
    BY <1>3, Prefix
  <2>2. k \in 0 .. Len(v)
    <3> HIDE DEF m
    <3> QED BY <1>3, SMTT(30) DEF Messages
  <2> QED BY <2>1, <2>2, OpaqueShort DEF Modes, ReadsCounted
<1> HIDE DEF m
<1> QED BY <1>2, <1>3, <1>4, <1>5

\* The sample values are words and messages.
LEMMA Values ==
    /\ \A n \in Nat : Word(n) \subseteq Nat /\ Contents(n) \subseteq Messages
    /\ Data \subseteq Messages
<1>1. ASSUME NEW n \in Nat PROVE Word(n) \subseteq Nat
  <2>1. \A d \in Nat : Spread * n + d \in Nat
    BY ValuesAssumption, SMTT(30)
  <2> QED BY <2>1, ValuesAssumption DEF Word
<1>2. ASSUME NEW n \in Nat, NEW s \in Texts
      PROVE  [i \in 1 .. Len(s) |-> Spread * n + s[i]] \in Messages
  <2>1. s \in Seq(Nat)
    BY ValuesAssumption
  <2>2. Len(s) \in Nat /\ \A i \in 1 .. Len(s) : Spread * n + s[i] \in Int
    BY <2>1, ValuesAssumption, SMTT(30)
  <2> QED BY <2>2, SMTT(30) DEF Messages
<1>3. Seq(Nat) \subseteq Seq(Int)
  BY SMTT(30)
<1> QED BY <1>1, <1>2, <1>3, ValuesAssumption DEF Contents, Messages

\* A tuple of sample words is a message.
LEMMA WordSeq ==
    ASSUME NEW m \in Nat, NEW n \in Nat, NEW v \in [1 .. m -> Word(n)]
    PROVE  v \in Messages /\ Len(v) = m
  BY Values, SMTT(30) DEF Messages

\* Words(m) packs and takes m words.
LEMMA WordsRead ==
    ASSUME NEW m \in Nat
    PROVE  PacksWords(Words(m), m) /\ \E kept : ReadsWords(Words(m), m, kept)
<1>1. ASSUME NEW n \in Nat, NEW c \in Words(m).codes[n]
      PROVE  \E v \in Messages : Len(v) = m /\ c = Code(v, v)
  <2>1. PICK v \in [1 .. m -> Word(n)] : c = Code(v, v)
    BY DEF Words, Coder, Plain
  <2>2. v \in Messages /\ Len(v) = m
    BY WordSeq
  <2> QED BY <2>1, <2>2
<1>2. ReadsWords(Words(m), m, {[i \in 1 .. m |-> 0]})
  BY DEF Words, Coder, ReadsWords
<1> QED BY <1>1, <1>2 DEF PacksWords

\* An enumeration is one word, in C++ and, kept in a local variable, in C.
LEMMA EnumRead ==
    ASSUME NEW S \in SUBSET Int
    PROVE  /\ PacksWords(Enum(S), 1) /\ \E kept : ReadsWords(Enum(S), 1, kept)
           /\ PacksWords(Local(S), 1) /\ \E kept : ReadsWords(Local(S), 1, kept)
<1>1. \A e \in S : <<e>> \in Messages /\ Len(<<e>>) = 1
  BY SMTT(30) DEF Messages
<1>2. PacksWords(Enum(S), 1) /\ PacksWords(Local(S), 1)
  BY <1>1 DEF Enum, Local, Coder, Plain, PacksWords
<1>3. ReadsWords(Enum(S), 1, {<< 0 >>})
  BY DEF Enum, Coder, ReadsWords
<1>4. ReadsWords(Local(S), 1, {<< 0 >>, <<Junk>>})
  BY DEF Local, Coder, ReadsWords
<1> QED BY <1>2, <1>3, <1>4

\* Handles, data and names are counted words.
LEMMA OpaqueRead ==
    /\ PacksCounted(opaque) /\ \E kept : ReadsCounted(opaque, kept)
    /\ PacksCounted(bytes) /\ \E kept : ReadsCounted(bytes, kept)
    /\ PacksCounted(string) /\ \E kept : ReadsCounted(string, kept)
<1>1. Data \subseteq Messages /\ \A n \in Nat : Contents(n) \subseteq Messages
  BY Values
<1>2. PacksCounted(opaque) /\ PacksCounted(bytes) /\ PacksCounted(string)
  BY <1>1 DEF opaque, bytes, string, Coder, Counted, PacksCounted
<1>3. /\ ReadsCounted(opaque, {<<Junk>>})
      /\ ReadsCounted(bytes, {<<Junk>>})
      /\ ReadsCounted(string, {<<>>})
  BY DEF opaque, bytes, string, Coder, ReadsCounted
<1> QED BY <1>2, <1>3

\* Any other word than 0 reads as TRUE.
LEMMA BooleanRead == Understands(boolean, boolean)
<1> SUFFICES ASSUME NEW n \in Nat, NEW c \in boolean.codes[n]
             PROVE  /\ c.words \in Messages
                    /\ \A mode \in Modes : \A w \in Messages :
                        boolean.reads[mode][c.words \o w] = {Got(c.v, w)}
                    /\ \A k \in 0 .. Len(c.words) - 1 :
                        boolean.reads["fail"][SubSeq(c.words, 1, k)] = {}
  BY DEF Understands
<1>1. PICK b \in {0, 1} : c = Code(<<b>>, <<b>>)
  BY DEF boolean, Coder, Plain
<1>2. c.words = <<b>> /\ c.v = <<b>>
  BY <1>1, CodeIs
<1>3. <<b>> \in Messages /\ Len(<<b>>) = 1 /\ (<<b>> = << 0 >> <=> b = 0)
  BY SMTT(30) DEF Messages
<1>4. \A mode \in Modes : \A w \in Messages :
        boolean.reads[mode][w] = {Got(<<IF g.v = << 0 >> THEN 0 ELSE 1>>, g.rest) :
                                     g \in Take(mode, 1, w, {<< 0 >>})}
  BY DEF boolean, Coder
<1>5. ASSUME NEW mode \in Modes, NEW w \in Messages
      PROVE  boolean.reads[mode][<<b>> \o w] = {Got(<<b>>, w)}
  <2>1. Take(mode, 1, <<b>> \o w, {<< 0 >>}) = {Got(<<b>>, w)}
    BY <1>3, TakeWhole
  <2>2. <<b>> \o w \in Messages
    BY <1>3, Concat
  <2>3. <<IF Got(<<b>>, w).v = << 0 >> THEN 0 ELSE 1>> = <<b>>
    BY <1>3, GotIs
  <2>4. {Got(<<IF g.v = << 0 >> THEN 0 ELSE 1>>, g.rest) : g \in {Got(<<b>>, w)}}
            = {Got(<<b>>, w)}
    <3> DEFINE Truth(g) == Got(<<IF g.v = << 0 >> THEN 0 ELSE 1>>, g.rest)
    <3>1. Truth(Got(<<b>>, w)) = Got(<<b>>, w)
      BY <2>3, GotIs
    <3> HIDE DEF Truth
    <3>2. {Truth(g) : g \in {Got(<<b>>, w)}} = {Truth(Got(<<b>>, w))}
      OBVIOUS
    <3> QED BY <3>1, <3>2 DEF Truth
  <2> QED BY <1>4, <2>1, <2>2, <2>4
<1>6. ASSUME NEW k \in 0 .. Len(<<b>>) - 1
      PROVE  boolean.reads["fail"][SubSeq(<<b>>, 1, k)] = {}
  <2>1. SubSeq(<<b>>, 1, k) \in Messages /\ Len(SubSeq(<<b>>, 1, k)) < 1
    <3>1. SubSeq(<<b>>, 1, k) \in Messages /\ Len(SubSeq(<<b>>, 1, k)) = k
      BY <1>3, Prefix
    <3>2. k < 1
      BY <1>3, SMTT(30)
    <3> QED BY <3>1, <3>2
  <2>2. 1 \in Nat /\ "fail" \in Modes
    BY SMTT(30) DEF Modes
  <2>3. Take("fail", 1, SubSeq(<<b>>, 1, k), {<< 0 >>}) = {}
    BY <2>1, <2>2, TakeShort
  <2> QED BY <1>4, <2>1, <2>2, <2>3
<1> QED BY <1>2, <1>3, <1>5, <1>6

-----------------------------------------------------------------------------
(* Values behind a flag. *)

\* A flag in front is taken.
LEMMA FlagTaken ==
    ASSUME NEW a \in Int, NEW w \in Messages
    PROVE  \A mode \in Modes : \A kept :
            Take(mode, 1, <<a>> \o w, kept) = {Got(<<a>>, w)}
<1>1. <<a>> \in Messages /\ Len(<<a>>) = 1
  BY SMTT(30) DEF Messages
<1> QED BY <1>1, TakeWhole

\* The parts of a flag that was taken.
LEMMA FlagIs ==
    ASSUME NEW a, NEW w
    PROVE  /\ Got(<<a>>, w).v = <<a>>
           /\ Got(<<a>>, w).v[1] = a
           /\ Got(<<a>>, w).rest = w
<1>1. <<a>>[1] = a
  BY SMTT(30)
<1> QED BY <1>1, GotIs

\* A cut message behind a flag: not even the flag, or the flag and a cut
\* message.
LEMMA FlagCut ==
    ASSUME NEW a \in Int, NEW v \in Messages, NEW k \in 0 .. Len(<<a>> \o v) - 1,
           NEW kept
    PROVE  /\ SubSeq(<<a>> \o v, 1, k) \in Messages
           /\ \/ Take("fail", 1, SubSeq(<<a>> \o v, 1, k), kept) = {}
              \/ \E j \in 0 .. Len(v) - 1 :
                    /\ SubSeq(v, 1, j) \in Messages
                    /\ SubSeq(<<a>> \o v, 1, k) = <<a>> \o SubSeq(v, 1, j)
<1>1. <<a>> \in Messages /\ Len(<<a>>) = 1 /\ 1 \in Nat
  BY SMTT(30) DEF Messages
<1>2. SubSeq(<<a>> \o v, 1, k) \in Messages
  BY Cons, Prefix
<1>3. CASE k \in 0 .. Len(<<a>>) - 1 /\ SubSeq(<<a>> \o v, 1, k) = SubSeq(<<a>>, 1, k)
  <2>1. Len(SubSeq(<<a>>, 1, k)) = k
    BY <1>1, <1>3, Prefix
  <2>2. k < 1
    BY <1>1, <1>3, SMTT(30)
  <2> QED BY <1>1, <1>2, <1>3, <2>1, <2>2, TakeShort
<1> QED BY <1>1, <1>2, <1>3, Cut

\* One outcome, as a value that is there.
LEMMA SomeRead ==
    ASSUME NEW v, NEW w
    PROVE  ReadSome({Got(v, w)}) = {Got(<<v>>, w)}
<1> DEFINE One(g) == Got(<<g.v>>, g.rest)
<1>1. One(Got(v, w)) = Got(<<v>>, w)
  BY GotIs
<1>2. ReadSome({Got(v, w)}) = {One(g) : g \in {Got(v, w)}}
  BY DEF ReadSome
<1> HIDE DEF One
<1>3. {One(g) : g \in {Got(v, w)}} = {One(Got(v, w))}
  OBVIOUS
<1> QED BY <1>1, <1>2, <1>3

\* A value behind a flag is read if the value is (post_op_attr, pre_op_attr,
\* the members of sattr3): the reader may take any flag but 0, or keep the
\* flag in a local variable.
LEMMA FlaggedRead ==
    ASSUME NEW u, NEW t, Understands(u, t), NEW on \in Int \ {0},
           NEW any1, NEW local1, NEW any2, NEW local2
    PROVE  Understands(Flagged(on, any1, local1, u), Flagged(on, any2, local2, t))
<1> DEFINE F == Flagged(on, any1, local1, u)
           kept == IF local1 THEN {<< 0 >>, <<on>>} ELSE {<< 0 >>}
           After(mode, f) == IF IsOn(on, any1, f.v[1])
                             THEN ReadSome(u.reads[mode][f.rest])
                             ELSE {Got(<<>>, f.rest)}
<1>1. ASSUME NEW mode \in Modes, NEW w \in Messages
      PROVE  F.reads[mode][w] = UNION {After(mode, f) : f \in Take(mode, 1, w, kept)}
  BY DEF Flagged, Coder
<1>2. \A n \in Nat : Flagged(on, any2, local2, t).codes[n] =
        None(<< 0 >>) \cup Some(<<on>>, t.codes[n])
  BY DEF Flagged, Coder
<1>3. /\ IsOn(on, any1, on) /\ ~IsOn(on, any1, 0)
      /\ 0 \in Int /\ on \in Int
  BY SMTT(30) DEF IsOn
<1>4. ASSUME NEW mode \in Modes, NEW w \in Messages
      PROVE  /\ F.reads[mode][<< 0 >> \o w] = {Got(<<>>, w)}
             /\ F.reads[mode][<<on>> \o w] = ReadSome(u.reads[mode][w])
  <2>1. ASSUME NEW a \in Int
        PROVE  F.reads[mode][<<a>> \o w] = After(mode, Got(<<a>>, w))
    <3> HIDE DEF F, After, kept
    <3>1. F.reads[mode][<<a>> \o w] = UNION {After(mode, f) : f \in {Got(<<a>>, w)}}
      <4>1. Take(mode, 1, <<a>> \o w, kept) = {Got(<<a>>, w)}
        BY FlagTaken
      <4>2. <<a>> \o w \in Messages
        BY Cons
      <4> QED BY <1>1, <4>1, <4>2
    <3>2. UNION {After(mode, f) : f \in {Got(<<a>>, w)}} = After(mode, Got(<<a>>, w))
      OBVIOUS
    <3> QED BY <3>1, <3>2
  <2>2. After(mode, Got(<< 0 >>, w)) = {Got(<<>>, w)}
    BY <1>3, FlagIs
  <2>3. After(mode, Got(<<on>>, w)) = ReadSome(u.reads[mode][w])
    BY <1>3, FlagIs
  <2> QED BY <1>3, <2>1, <2>2, <2>3
<1>5. ASSUME NEW a \in Int, NEW v \in Messages, NEW k \in 0 .. Len(<<a>> \o v) - 1
      PROVE  \/ F.reads["fail"][SubSeq(<<a>> \o v, 1, k)] = {}
             \/ \E j \in 0 .. Len(v) - 1 :
                    /\ SubSeq(v, 1, j) \in Messages
                    /\ SubSeq(<<a>> \o v, 1, k) = <<a>> \o SubSeq(v, 1, j)
  <2> HIDE DEF F, After, kept
  <2>1. CASE Take("fail", 1, SubSeq(<<a>> \o v, 1, k), kept) = {}
    <3>1. F.reads["fail"][SubSeq(<<a>> \o v, 1, k)] = UNION {After("fail", f) : f \in {}}
      BY <1>1, <2>1, FlagCut DEF Modes
    <3> QED BY <3>1
  <2> QED BY <2>1, FlagCut
<1> SUFFICES ASSUME NEW n \in Nat, NEW c \in None(<< 0 >>) \cup Some(<<on>>, t.codes[n])
             PROVE  /\ c.words \in Messages
                    /\ \A mode \in Modes : \A w \in Messages :
                        F.reads[mode][c.words \o w] = {Got(c.v, w)}
                    /\ \A k \in 0 .. Len(c.words) - 1 :
                        F.reads["fail"][SubSeq(c.words, 1, k)] = {}
  BY <1>2 DEF Understands
<1> HIDE DEF F
<1>6. CASE c \in None(<< 0 >>)
  <2>1. c.words = << 0 >> /\ c.v = <<>>
    BY <1>6, CodeIs DEF None
  <2>2. << 0 >> \in Messages /\ <<>> \in Messages /\ << 0 >> \o <<>> = << 0 >> /\ Len(<<>>) = 0
    BY SMTT(30) DEF Messages
  <2>3. ASSUME NEW k \in 0 .. Len(<< 0 >>) - 1 PROVE F.reads["fail"][SubSeq(<< 0 >>, 1, k)] = {}
    <3>1. 0 .. Len(<<>>) - 1 = {}
      BY SMTT(30)
    <3> QED BY <1>3, <1>5, <2>2, <3>1
  <2> QED BY <1>4, <2>1, <2>2, <2>3
<1>7. CASE c \in Some(<<on>>, t.codes[n])
  <2>1. PICK x \in t.codes[n] : c = Code(<<x.v>>, <<on>> \o x.words)
    BY <1>7 DEF Some
  <2>2. c.words = <<on>> \o x.words /\ c.v = <<x.v>>
    BY <2>1, CodeIs
  <2>3. /\ x.words \in Messages
        /\ \A mode \in Modes : \A w \in Messages :
            u.reads[mode][x.words \o w] = {Got(x.v, w)}
        /\ \A k \in 0 .. Len(x.words) - 1 :
            u.reads["fail"][SubSeq(x.words, 1, k)] = {}
    BY DEF Understands
  <2>4. ASSUME NEW mode \in Modes, NEW w \in Messages
        PROVE  F.reads[mode][(<<on>> \o x.words) \o w] = {Got(<<x.v>>, w)}
    <3>1. (<<on>> \o x.words) \o w = <<on>> \o (x.words \o w) /\ x.words \o w \in Messages
      <4>1. <<on>> \in Messages
        BY <1>3, <2>3, Cons
      <4>2. x.words \o w \in Messages
        BY <2>3, Concat
      <4> DEFINE on1 == <<on>>
      <4> HIDE DEF on1
      <4>3. (on1 \o x.words) \o w = on1 \o (x.words \o w)
        BY <2>3, <4>1, Assoc DEF on1
      <4> QED BY <4>2, <4>3 DEF on1
    <3>2. F.reads[mode][(<<on>> \o x.words) \o w] = ReadSome({Got(x.v, w)})
      BY <1>4, <2>3, <3>1
    <3>3. ReadSome({Got(x.v, w)}) = {Got(<<x.v>>, w)}
      BY SomeRead
    <3> QED BY <3>2, <3>3
  <2>5. ASSUME NEW k \in 0 .. Len(<<on>> \o x.words) - 1
        PROVE  F.reads["fail"][SubSeq(<<on>> \o x.words, 1, k)] = {}
    <3>1. CASE \E j \in 0 .. Len(x.words) - 1 :
                  /\ SubSeq(x.words, 1, j) \in Messages
                  /\ SubSeq(<<on>> \o x.words, 1, k) = <<on>> \o SubSeq(x.words, 1, j)
      <4>1. PICK j \in 0 .. Len(x.words) - 1 :
                  /\ SubSeq(x.words, 1, j) \in Messages
                  /\ SubSeq(<<on>> \o x.words, 1, k) = <<on>> \o SubSeq(x.words, 1, j)
        BY <3>1
      <4>2. F.reads["fail"][SubSeq(<<on>> \o x.words, 1, k)] = ReadSome({})
        BY <1>4, <2>3, <4>1 DEF Modes
      <4> QED BY <4>2 DEF ReadSome
    <3> QED BY <1>3, <1>5, <2>3, <3>1
  <2>6. <<on>> \o x.words \in Messages
    BY <1>3, <2>3, Cons
  <2> QED BY <2>2, <2>4, <2>5, <2>6
<1> QED BY <1>6, <1>7

\* A value without its flag is read if the value is.
LEMMA BareRead ==
    ASSUME NEW u, NEW t, Understands(u, t)
    PROVE  Understands(Bare(u), Bare(t))
<1>1. \A mode \in Modes : \A w \in Messages :
        Bare(u).reads[mode][w] = ReadSome(u.reads[mode][w])
  BY DEF Bare, Coder
<1>2. \A n \in Nat : Bare(t).codes[n] = Some(<<>>, t.codes[n])
  BY DEF Bare, Coder
<1> SUFFICES ASSUME NEW n \in Nat, NEW c \in Some(<<>>, t.codes[n])
             PROVE  /\ c.words \in Messages
                    /\ \A mode \in Modes : \A w \in Messages :
                        Bare(u).reads[mode][c.words \o w] = {Got(c.v, w)}
                    /\ \A k \in 0 .. Len(c.words) - 1 :
                        Bare(u).reads["fail"][SubSeq(c.words, 1, k)] = {}
  BY <1>2 DEF Understands
<1>3. PICK x \in t.codes[n] : c = Code(<<x.v>>, <<>> \o x.words)
  BY DEF Some
<1>4. /\ x.words \in Messages
      /\ \A mode \in Modes : \A w \in Messages :
          u.reads[mode][x.words \o w] = {Got(x.v, w)}
      /\ \A k \in 0 .. Len(x.words) - 1 :
          u.reads["fail"][SubSeq(x.words, 1, k)] = {}
  BY DEF Understands
<1>5. c.words = x.words /\ c.v = <<x.v>>
  <2>1. <<>> \o x.words = x.words
    BY <1>4, ConcatEmpty DEF Messages
  <2> QED BY <1>3, <2>1, CodeIs
<1>6. ASSUME NEW mode \in Modes, NEW w \in Messages
      PROVE  Bare(u).reads[mode][x.words \o w] = {Got(<<x.v>>, w)}
  <2>1. x.words \o w \in Messages
    BY <1>4, Concat
  <2>2. Bare(u).reads[mode][x.words \o w] = ReadSome({Got(x.v, w)})
    BY <1>1, <1>4, <2>1
  <2> QED BY <2>2, SomeRead
<1>7. ASSUME NEW k \in 0 .. Len(x.words) - 1
      PROVE  Bare(u).reads["fail"][SubSeq(x.words, 1, k)] = {}
  <2>1. SubSeq(x.words, 1, k) \in Messages
    BY <1>4, Prefix
  <2>2. Bare(u).reads["fail"][SubSeq(x.words, 1, k)] = ReadSome({})
    BY <1>1, <1>4, <2>1 DEF Modes
  <2> QED BY <2>2 DEF ReadSome
<1> QED BY <1>4, <1>5, <1>6, <1>7

\* No user, group or mode is the sentinel itself.
LEMMA SentinelRead == Understands(Sentinel(u32), Sentinel(u32))
<1> DEFINE S == Sentinel(u32)
           Valued(g) == Got(IF g.v = <<-1>> THEN <<>> ELSE <<g.v>>, g.rest)
<1>1. PICK kept : ReadsWords(u32, 1, kept)
  <2>1. 1 \in Nat
    BY SMTT(30)
  <2> QED BY <2>1, WordsRead DEF u32
<1>2. ASSUME NEW mode \in Modes, NEW w \in Messages
      PROVE  S.reads[mode][w] = {Valued(g) : g \in Take(mode, 1, w, kept)}
  <2>1. S.reads[mode][w] = {Valued(g) : g \in u32.reads[mode][w]}
    BY DEF Sentinel, Coder
  <2> QED BY <1>1, <2>1 DEF ReadsWords
<1>3. \A n \in Nat : S.codes[n] = None(<<-1>>) \cup Some(<<>>, u32.codes[n])
  BY DEF Sentinel, Coder
<1>4. ASSUME NEW n \in Nat, NEW c \in S.codes[n]
      PROVE  \E a \in Int : /\ c.words = <<a>>
                            /\ c.v = IF a = -1 THEN <<>> ELSE << <<a>> >>
  <2>1. CASE c \in None(<<-1>>)
    <3>1. c.words = <<-1>> /\ c.v = <<>> /\ -1 \in Int
      BY <2>1, CodeIs, SMTT(30) DEF None
    <3> QED BY <3>1
  <2>2. CASE c \in Some(<<>>, u32.codes[n])
    <3>1. PICK x \in u32.codes[n] : c = Code(<<x.v>>, <<>> \o x.words)
      BY <2>2 DEF Some
    <3>2. PICK v \in [1 .. 1 -> Word(n)] : x = Code(v, v)
      BY DEF u32, Words, Coder, Plain
    <3>3. v = <<v[1]>> /\ v[1] \in Int /\ v[1] # -1 /\ <<>> \o v = v
      BY Values, SMTT(30)
    <3>4. c.words = <<v[1]>> /\ c.v = << <<v[1]>> >>
      <4>1. x.v = v /\ x.words = v
        BY <3>2, CodeIs
      <4>2. c.words = <<>> \o x.words /\ c.v = <<x.v>>
        BY <3>1, CodeIs
      <4>3. c.words = v /\ c.v = <<v>>
        BY <3>3, <4>1, <4>2
      <4> QED BY <3>3, <4>3
    <3> QED BY <3>3, <3>4
  <2> QED BY <1>3, <2>1, <2>2
<1> HIDE DEF S
<1> SUFFICES ASSUME NEW n \in Nat, NEW c \in S.codes[n]
             PROVE  /\ c.words \in Messages
                    /\ \A mode \in Modes : \A w \in Messages :
                        S.reads[mode][c.words \o w] = {Got(c.v, w)}
                    /\ \A k \in 0 .. Len(c.words) - 1 :
                        S.reads["fail"][SubSeq(c.words, 1, k)] = {}
  BY DEF Understands, S
<1>5. PICK a \in Int : c.words = <<a>> /\ c.v = IF a = -1 THEN <<>> ELSE << <<a>> >>
  BY <1>4
<1>6. <<a>> \in Messages /\ Len(<<a>>) = 1 /\ (<<a>> = <<-1>> <=> a = -1) /\ 1 \in Nat
  BY SMTT(30) DEF Messages
<1>7. ASSUME NEW mode \in Modes, NEW w \in Messages
      PROVE  S.reads[mode][<<a>> \o w] = {Got(c.v, w)}
  <2>1. <<a>> \o w \in Messages /\ Take(mode, 1, <<a>> \o w, kept) = {Got(<<a>>, w)}
    BY Cons, FlagTaken
  <2>2. Valued(Got(<<a>>, w)) = Got(c.v, w)
    BY <1>5, <1>6, FlagIs
  <2> HIDE DEF Valued
  <2>3. {Valued(g) : g \in {Got(<<a>>, w)}} = {Valued(Got(<<a>>, w))}
    OBVIOUS
  <2> QED BY <1>2, <2>1, <2>2, <2>3
<1>8. ASSUME NEW k \in 0 .. Len(<<a>>) - 1
      PROVE  S.reads["fail"][SubSeq(<<a>>, 1, k)] = {}
  <2>1. SubSeq(<<a>>, 1, k) \in Messages /\ Len(SubSeq(<<a>>, 1, k)) = k
    BY <1>6, Prefix
  <2>2. k < 1
    BY <1>6, SMTT(30)
  <2>3. Take("fail", 1, SubSeq(<<a>>, 1, k), kept) = {}
    BY <1>6, <2>1, <2>2, TakeShort
  <2> HIDE DEF Valued
  <2> QED BY <1>2, <2>1, <2>3 DEF Modes
<1> QED BY <1>5, <1>6, <1>7, <1>8

\* The native coding's cookie verifier, counted, is read.
LEMMA VerfRead == Understands(verfOpaque, verfOpaque)
<1> DEFINE Eight(g) ==
             Got(IF Len(g.v) >= 2 THEN SubSeq(g.v, 1, 2) ELSE <<Junk, Junk>>, g.rest)
<1>1. ASSUME NEW mode \in Modes, NEW w \in Messages
      PROVE  verfOpaque.reads[mode][w] = {Eight(g) : g \in TakeOpaque(mode, w, {<<>>})}
  BY DEF verfOpaque, Coder
<1> SUFFICES ASSUME NEW n \in Nat, NEW c \in verfOpaque.codes[n]
             PROVE  /\ c.words \in Messages
                    /\ \A mode \in Modes : \A w \in Messages :
                        verfOpaque.reads[mode][c.words \o w] = {Got(c.v, w)}
                    /\ \A k \in 0 .. Len(c.words) - 1 :
                        verfOpaque.reads["fail"][SubSeq(c.words, 1, k)] = {}
  BY DEF Understands
<1>2. PICK v \in [1 .. 2 -> Word(n)] : c = Code(v, << 8 >> \o v)
  BY DEF verfOpaque, Coder
<1>3. v \in Messages /\ Len(v) = 2 /\ 8 = 4 * Len(v) /\ Len(v) >= 2
  <2>1. 2 \in Nat
    BY SMTT(30)
  <2>2. v \in Messages /\ Len(v) = 2
    BY <2>1, WordSeq
  <2> QED BY <2>2, SMTT(30)
<1> DEFINE m == <<4 * Len(v)>> \o v
<1>4. c.words = m /\ c.v = v
  <2>1. c.words = << 8 >> \o v /\ c.v = v
    BY <1>2, CodeIs
  <2>2. << 8 >> \o v = m
    BY <1>3
  <2> QED BY <2>1, <2>2
<1>5. m \in Messages /\ Len(m) = Len(v) + 1
  BY <1>3, OpaqueWhole
<1>6. SubSeq(v, 1, 2) = v
  BY <1>3, SubSeqAll DEF Messages
<1>7. ASSUME NEW mode \in Modes, NEW w \in Messages
      PROVE  verfOpaque.reads[mode][m \o w] = {Got(v, w)}
  <2>1. TakeOpaque(mode, m \o w, {<<>>}) = {Got(v, w)}
    BY <1>3, OpaqueWhole
  <2>2. m \o w \in Messages
    <3> HIDE DEF m
    <3> QED BY <1>5, Concat
  <2>3. Eight(Got(v, w)) = Got(v, w)
    BY <1>3, <1>6, GotIs
  <2> HIDE DEF Eight, m
  <2>4. {Eight(g) : g \in {Got(v, w)}} = {Eight(Got(v, w))}
    OBVIOUS
  <2> QED BY <1>1, <2>1, <2>2, <2>3, <2>4
<1>8. ASSUME NEW k \in 0 .. Len(m) - 1
      PROVE  verfOpaque.reads["fail"][SubSeq(m, 1, k)] = {}
  <2>1. SubSeq(m, 1, k) \in Messages
    BY <1>5, Prefix
  <2>2. k \in 0 .. Len(v)
    <3> HIDE DEF m
    <3> QED BY <1>3, <1>5, SMTT(30)
  <2>3. TakeOpaque("fail", SubSeq(m, 1, k), {<<>>}) = {}
    BY <1>3, <2>2, OpaqueShort
  <2> HIDE DEF Eight, m
  <2> QED BY <1>1, <2>1, <2>3 DEF Modes
<1> HIDE DEF m
<1> QED BY <1>4, <1>5, <1>7, <1>8

-----------------------------------------------------------------------------
(* The fields of a structure, one by one. *)

\* PackFields, unfolded.
LEMMA PackFieldsIs ==
    ASSUME NEW fields, Len(fields) \in Nat, NEW n
    PROVE  /\ PackFields(fields, n)[0] = {Code(NoFields, <<>>)}
           /\ \A i \in 1 .. Len(fields) : \A c :
                c \in PackFields(fields, n)[i] <=>
                    \E b \in PackFields(fields, n)[i - 1] :
                        c \in PackField(fields[i], 16 * n + i - 1, b)
<1> DEFINE N == Len(fields)
           base == {Code(NoFields, <<>>)}
           Step(i, S) == UNION {PackField(fields[i], 16 * n + i - 1, c) : c \in S}
           Loop(m, f) == [i \in 0 .. m |-> IF i = 0 THEN base ELSE Step(i, f[i - 1])]
           T == {m \in 0 .. N : \E f : f = Loop(m, f)}
<1> HIDE DEF base, Step, N
<1>0. N \in Nat
  BY DEF N
<1>1. 0 \in T
  <2> DEFINE f == [i \in 0 .. 0 |-> base]
  <2>1. f = Loop(0, f)
    BY SMTT(30)
  <2>2. 0 \in 0 .. N
    BY <1>0, SMTT(30)
  <2> HIDE DEF Loop, f
  <2> QED BY <2>1, <2>2
<1>2. ASSUME NEW m \in 1 .. N, m - 1 \in T PROVE m \in T
  <2>1. PICK f : f = Loop(m - 1, f)
    BY <1>2
  <2> DEFINE g == [i \in 0 .. m |-> IF i = m THEN Step(m, f[m - 1]) ELSE f[i]]
  <2>2. g = Loop(m, g)
    BY <1>0, <2>1, SMTT(30)
  <2> HIDE DEF Loop, g
  <2> QED BY <1>0, <2>2, SMTT(30)
<1>3. \E f : f = Loop(N, f)
  <2>1. N \in T
    <3> HIDE DEF T
    <3>1. \A k \in 0 .. N : k \in T
      BY <1>0, <1>1, <1>2, Induction
    <3> QED BY <1>0, <3>1, SMTT(30)
  <2> QED BY <2>1
<1> DEFINE p == PackFields(fields, n)
<1>4. p = CHOOSE f : f = Loop(N, f)
  BY DEF PackFields, N, base, Step
<1> HIDE DEF p
<1>5. p = Loop(N, p)
  <2> HIDE DEF Loop
  <2> QED BY <1>3, <1>4
<1>6. p[0] = base /\ \A i \in 1 .. N : p[i] = Step(i, p[i - 1])
  BY <1>0, <1>5, SMTT(30)
<1>7. \A i, S, c : c \in Step(i, S) <=> \E b \in S : c \in PackField(fields[i], 16 * n + i - 1, b)
  BY DEF Step
<1>8. \A i \in 1 .. N : \A c :
        c \in p[i] <=> \E b \in p[i - 1] : c \in PackField(fields[i], 16 * n + i - 1, b)
  <2> TAKE i \in 1 .. N
  <2> TAKE c
  <2>1. p[i] = Step(i, p[i - 1])
    BY <1>6
  <2>2. c \in Step(i, p[i - 1]) <=> \E b \in p[i - 1] : c \in PackField(fields[i], 16 * n + i - 1, b)
    BY <1>7
  <2> QED BY <2>1, <2>2
<1>9. p[0] = base
  BY <1>6
<1> QED BY <1>8, <1>9 DEF N, base, p

\* UnpackFields, unfolded.
LEMMA UnpackFieldsIs ==
    ASSUME NEW fields, Len(fields) \in Nat, NEW mode, NEW w
    PROVE  /\ UnpackFields(mode, fields, w)[0] = {Got(NoFields, w)}
           /\ \A i \in 1 .. Len(fields) : \A g :
                g \in UnpackFields(mode, fields, w)[i] <=>
                    \E h \in UnpackFields(mode, fields, w)[i - 1] :
                        g \in UnpackField(mode, fields[i], h)
<1> DEFINE N == Len(fields)
           base == {Got(NoFields, w)}
           Step(i, S) == UNION {UnpackField(mode, fields[i], g) : g \in S}
           Loop(m, f) == [i \in 0 .. m |-> IF i = 0 THEN base ELSE Step(i, f[i - 1])]
           T == {m \in 0 .. N : \E f : f = Loop(m, f)}
<1> HIDE DEF base, Step, N
<1>0. N \in Nat
  BY DEF N
<1>1. 0 \in T
  <2> DEFINE f == [i \in 0 .. 0 |-> base]
  <2>1. f = Loop(0, f)
    BY SMTT(30)
  <2>2. 0 \in 0 .. N
    BY <1>0, SMTT(30)
  <2> HIDE DEF Loop, f
  <2> QED BY <2>1, <2>2
<1>2. ASSUME NEW m \in 1 .. N, m - 1 \in T PROVE m \in T
  <2>1. PICK f : f = Loop(m - 1, f)
    BY <1>2
  <2> DEFINE g == [i \in 0 .. m |-> IF i = m THEN Step(m, f[m - 1]) ELSE f[i]]
  <2>2. g = Loop(m, g)
    BY <1>0, <2>1, SMTT(30)
  <2> HIDE DEF Loop, g
  <2> QED BY <1>0, <2>2, SMTT(30)
<1>3. \E f : f = Loop(N, f)
  <2>1. N \in T
    <3> HIDE DEF T
    <3>1. \A k \in 0 .. N : k \in T
      BY <1>0, <1>1, <1>2, Induction
    <3> QED BY <1>0, <3>1, SMTT(30)
  <2> QED BY <2>1
<1> DEFINE p == UnpackFields(mode, fields, w)
<1>4. p = CHOOSE f : f = Loop(N, f)
  BY DEF UnpackFields, N, base, Step
<1> HIDE DEF p
<1>5. p = Loop(N, p)
  <2> HIDE DEF Loop
  <2> QED BY <1>3, <1>4
<1>6. p[0] = base /\ \A i \in 1 .. N : p[i] = Step(i, p[i - 1])
  BY <1>0, <1>5, SMTT(30)
<1>7. \A i, S, g : g \in Step(i, S) <=> \E h \in S : g \in UnpackField(mode, fields[i], h)
  BY DEF Step
<1>8. \A i \in 1 .. N : \A g :
        g \in p[i] <=> \E h \in p[i - 1] : g \in UnpackField(mode, fields[i], h)
  <2> TAKE i \in 1 .. N
  <2> TAKE g
  <2>1. p[i] = Step(i, p[i - 1])
    BY <1>6
  <2>2. g \in Step(i, p[i - 1]) <=> \E h \in p[i - 1] : g \in UnpackField(mode, fields[i], h)
    BY <1>7
  <2> QED BY <2>1, <2>2
<1>9. p[0] = base
  BY <1>6
<1> QED BY <1>8, <1>9 DEF N, base, p

\* PackList, unfolded.
LEMMA PackListIs ==
    ASSUME NEW t, NEW n
    PROVE  /\ PackList(t, n)[0] = {Code(<<>>, << 0 >>)}
           /\ \A m \in 1 .. MaxList : \A c :
                c \in PackList(t, n)[m] <=>
                    \E b \in PackList(t, n)[m - 1] : c \in PackElement(t, 16 * n + m, b)
<1> DEFINE N == MaxList
           base == {Code(<<>>, << 0 >>)}
           Step(i, S) == UNION {PackElement(t, 16 * n + i, c) : c \in S}
           Loop(m, f) == [i \in 0 .. m |-> IF i = 0 THEN base ELSE Step(i, f[i - 1])]
           T == {m \in 0 .. N : \E f : f = Loop(m, f)}
<1> HIDE DEF base, Step, N
<1>0. N \in Nat
  BY MaxListAssumption DEF N
<1>1. 0 \in T
  <2> DEFINE f == [i \in 0 .. 0 |-> base]
  <2>1. f = Loop(0, f)
    BY SMTT(30)
  <2>2. 0 \in 0 .. N
    BY <1>0, SMTT(30)
  <2> HIDE DEF Loop, f
  <2> QED BY <2>1, <2>2
<1>2. ASSUME NEW m \in 1 .. N, m - 1 \in T PROVE m \in T
  <2>1. PICK f : f = Loop(m - 1, f)
    BY <1>2
  <2> DEFINE g == [i \in 0 .. m |-> IF i = m THEN Step(m, f[m - 1]) ELSE f[i]]
  <2>2. g = Loop(m, g)
    BY <1>0, <2>1, SMTT(30)
  <2> HIDE DEF Loop, g
  <2> QED BY <1>0, <2>2, SMTT(30)
<1>3. \E f : f = Loop(N, f)
  <2>1. N \in T
    <3> HIDE DEF T
    <3>1. \A k \in 0 .. N : k \in T
      BY <1>0, <1>1, <1>2, Induction
    <3> QED BY <1>0, <3>1, SMTT(30)
  <2> QED BY <2>1
<1> DEFINE p == PackList(t, n)
<1>4. p = CHOOSE f : f = Loop(N, f)
  BY DEF PackList, N, base, Step
<1> HIDE DEF p
<1>5. p = Loop(N, p)
  <2> HIDE DEF Loop
  <2> QED BY <1>3, <1>4
<1>6. p[0] = base /\ \A i \in 1 .. N : p[i] = Step(i, p[i - 1])
  BY <1>0, <1>5, SMTT(30)
<1>7. \A i, S, c : c \in Step(i, S) <=> \E b \in S : c \in PackElement(t, 16 * n + i, b)
  BY DEF Step
<1>8. \A i \in 1 .. N : \A c :
        c \in p[i] <=> \E b \in p[i - 1] : c \in PackElement(t, 16 * n + i, b)
  <2> TAKE i \in 1 .. N
  <2> TAKE c
  <2>1. p[i] = Step(i, p[i - 1])
    BY <1>6
  <2>2. c \in Step(i, p[i - 1]) <=> \E b \in p[i - 1] : c \in PackElement(t, 16 * n + i, b)
    BY <1>7
  <2> QED BY <2>1, <2>2
<1>9. p[0] = base
  BY <1>6
<1> QED BY <1>8, <1>9 DEF N, base, p

\* UnpackList, unfolded.
LEMMA UnpackListIs ==
    ASSUME NEW mode, NEW t, NEW most \in Nat
    PROVE  /\ \A w \in Messages : UnpackList(mode, t, most)[0][w] = {}
           /\ \A k \in 1 .. most : \A w \in Messages : \A g :
                g \in UnpackList(mode, t, most)[k][w] <=>
                    \E f \in Flag(mode, most - k, w) :
                        g \in UnpackElement(mode, t, UnpackList(mode, t, most)[k - 1], f)
<1> DEFINE N == most
           base == [w \in Messages |-> {}]
           Step(i, S) == [w \in Messages |->
                            UNION {UnpackElement(mode, t, S, f) :
                                      f \in Flag(mode, most - i, w)}]
           Loop(m, f) == [i \in 0 .. m |-> IF i = 0 THEN base ELSE Step(i, f[i - 1])]
           T == {m \in 0 .. N : \E f : f = Loop(m, f)}
<1> HIDE DEF base, Step, N
<1>0. N \in Nat
  BY DEF N
<1>1. 0 \in T
  <2> DEFINE f == [i \in 0 .. 0 |-> base]
  <2>1. f = Loop(0, f)
    BY SMTT(30)
  <2>2. 0 \in 0 .. N
    BY <1>0, SMTT(30)
  <2> HIDE DEF Loop, f
  <2> QED BY <2>1, <2>2
<1>2. ASSUME NEW m \in 1 .. N, m - 1 \in T PROVE m \in T
  <2>1. PICK f : f = Loop(m - 1, f)
    BY <1>2
  <2> DEFINE g == [i \in 0 .. m |-> IF i = m THEN Step(m, f[m - 1]) ELSE f[i]]
  <2>2. g = Loop(m, g)
    BY <1>0, <2>1, SMTT(30)
  <2> HIDE DEF Loop, g
  <2> QED BY <1>0, <2>2, SMTT(30)
<1>3. \E f : f = Loop(N, f)
  <2>1. N \in T
    <3> HIDE DEF T
    <3>1. \A k \in 0 .. N : k \in T
      BY <1>0, <1>1, <1>2, Induction
    <3> QED BY <1>0, <3>1, SMTT(30)
  <2> QED BY <2>1
<1> DEFINE p == UnpackList(mode, t, most)
<1>4. p = CHOOSE f : f = Loop(N, f)
  BY DEF UnpackList, N, base, Step
<1> HIDE DEF p
<1>5. p = Loop(N, p)
  <2> HIDE DEF Loop
  <2> QED BY <1>3, <1>4
<1>6. p[0] = base /\ \A i \in 1 .. N : p[i] = Step(i, p[i - 1])
  BY <1>0, <1>5, SMTT(30)
<1>7. \A i, S : \A w \in Messages : \A g :
        g \in Step(i, S)[w] <=>
            \E f \in Flag(mode, most - i, w) : g \in UnpackElement(mode, t, S, f)
  BY DEF Step
<1>8. \A w \in Messages : p[0][w] = {}
  BY <1>6 DEF base
<1>9. \A k \in 1 .. N : \A w \in Messages : \A g :
        g \in p[k][w] <=>
            \E f \in Flag(mode, most - k, w) : g \in UnpackElement(mode, t, p[k - 1], f)
  <2> TAKE k \in 1 .. N
  <2>1. p[k] = Step(k, p[k - 1])
    BY <1>6
  <2> QED BY <1>7, <2>1
<1> QED BY <1>8, <1>9 DEF N, p

-----------------------------------------------------------------------------
(* Structures. *)

\* One more field of a structure, after one outcome or none.
LEMMA FieldRead ==
    ASSUME NEW fields, Len(fields) \in Nat, NEW mode, NEW w,
           NEW i \in 1 .. Len(fields)
    PROVE  /\ UnpackFields(mode, fields, w)[i - 1] = {} =>
                UnpackFields(mode, fields, w)[i] = {}
           /\ \A g : UnpackFields(mode, fields, w)[i - 1] = {g} =>
                UnpackFields(mode, fields, w)[i] = UnpackField(mode, fields[i], g)
<1> DEFINE r == UnpackFields(mode, fields, w)
<1>1. \A g : g \in r[i] <=> \E h \in r[i - 1] : g \in UnpackField(mode, fields[i], h)
  <2>1. \A j \in 1 .. Len(fields) : \A g :
          g \in r[j] <=> \E h \in r[j - 1] : g \in UnpackField(mode, fields[j], h)
    BY UnpackFieldsIs, SMTT(30)
  <2> HIDE DEF r
  <2> QED BY <2>1
<1> HIDE DEF r
<1>2. r[i - 1] = {} => r[i] = {}
  BY <1>1
<1>3. ASSUME NEW g, r[i - 1] = {g} PROVE r[i] = UnpackField(mode, fields[i], g)
  BY <1>1, <1>3
<1> QED BY <1>2, <1>3 DEF r

\* A field that is on the wire, read.
LEMMA CodedFieldIs ==
    ASSUME NEW mode, NEW field, NEW v, NEW w, IsCoded(field, v)
    PROVE  UnpackField(mode, field, Got(v, w)) =
            {Got(With(v, field[1], y.v), y.rest) : y \in field[2].reads[mode][w]}
  BY GotIs DEF UnpackField

\* Its one outcome is put under its name.
LEMMA CodedFieldRead ==
    ASSUME NEW mode, NEW field, NEW v, NEW w, IsCoded(field, v), NEW x, NEW u,
           field[2].reads[mode][w] = {Got(x, u)}
    PROVE  UnpackField(mode, field, Got(v, w)) = {Got(With(v, field[1], x), u)}
<1> DEFINE Put(y) == Got(With(v, field[1], y.v), y.rest)
<1>1. UnpackField(mode, field, Got(v, w)) = {Put(y) : y \in field[2].reads[mode][w]}
  BY CodedFieldIs, SMTT(30)
<1>2. Put(Got(x, u)) = Got(With(v, field[1], x), u)
  BY GotIs
<1> HIDE DEF Put
<1>3. UnpackField(mode, field, Got(v, w)) = {Put(Got(x, u))}
  BY <1>1
<1> QED BY <1>2, <1>3

\* When it is cut, there is no outcome.
LEMMA CodedFieldCut ==
    ASSUME NEW mode, NEW field, NEW v, NEW w, IsCoded(field, v),
           field[2].reads[mode][w] = {}
    PROVE  UnpackField(mode, field, Got(v, w)) = {}
<1> DEFINE Put(y) == Got(With(v, field[1], y.v), y.rest)
<1>1. UnpackField(mode, field, Got(v, w)) = {Put(y) : y \in field[2].reads[mode][w]}
  BY CodedFieldIs, SMTT(30)
<1> HIDE DEF Put
<1> QED BY <1>1

\* Field by field, the reader has the writer's names and conditions.
Matches(F, G) ==
    /\ Len(F) \in Nat
    /\ Len(F) = Len(G)
    /\ \A i \in 1 .. Len(G) :
        /\ F[i][1] = G[i][1]
        /\ \A v : IsCoded(F[i], v) <=> IsCoded(G[i], v)
        /\ Understands(F[i][2], G[i][2])

\* A structure is read if each of its fields is, by a reader with the same
\* fields under the same conditions.  By induction on the fields.
LEMMA StructRead ==
    ASSUME NEW F, NEW G, Matches(F, G)
    PROVE  Understands(Struct(F), Struct(G))
<1> DEFINE N == Len(G)
<1>0. Len(F) = N /\ N \in Nat /\ Len(F) \in Nat /\ Len(G) \in Nat
  BY DEF Matches
<1> HIDE DEF N
<1> SUFFICES ASSUME NEW n \in Nat
             PROVE  \A c \in PackFields(G, n)[N] :
                      /\ c.words \in Messages
                      /\ \A mode \in Modes : \A w \in Messages :
                          UnpackFields(mode, F, c.words \o w)[N] = {Got(c.v, w)}
                      /\ \A k \in 0 .. Len(c.words) - 1 :
                          UnpackFields("fail", F, SubSeq(c.words, 1, k))[N] = {}
  <2>1. \A n \in Nat : Struct(G).codes[n] = PackFields(G, n)[N]
    BY DEF Struct, Coder, N
  <2>2. \A mode \in Modes : \A w \in Messages :
          Struct(F).reads[mode][w] = UnpackFields(mode, F, w)[N]
    BY <1>0 DEF Struct, Coder
  <2>3. ASSUME NEW n \in Nat, NEW c \in Struct(G).codes[n]
        PROVE  /\ c.words \in Messages
               /\ \A mode \in Modes : \A w \in Messages :
                   Struct(F).reads[mode][c.words \o w] = {Got(c.v, w)}
               /\ \A k \in 0 .. Len(c.words) - 1 :
                   Struct(F).reads["fail"][SubSeq(c.words, 1, k)] = {}
    <3>1. /\ c.words \in Messages
          /\ \A mode \in Modes : \A w \in Messages :
              UnpackFields(mode, F, c.words \o w)[N] = {Got(c.v, w)}
          /\ \A k \in 0 .. Len(c.words) - 1 :
              UnpackFields("fail", F, SubSeq(c.words, 1, k))[N] = {}
      BY <2>1
    <3>2. \A w \in Messages : c.words \o w \in Messages
      BY <3>1, Concat
    <3>3. \A k \in 0 .. Len(c.words) - 1 : SubSeq(c.words, 1, k) \in Messages
      BY <3>1, Prefix
    <3>4. "fail" \in Modes
      BY DEF Modes
    <3>5. ASSUME NEW mode \in Modes, NEW w \in Messages
          PROVE  Struct(F).reads[mode][c.words \o w] = {Got(c.v, w)}
      <4>1. c.words \o w \in Messages
        BY <3>2
      <4>2. Struct(F).reads[mode][c.words \o w] = UnpackFields(mode, F, c.words \o w)[N]
        BY <2>2, <4>1
      <4> QED BY <3>1, <4>2
    <3>6. ASSUME NEW k \in 0 .. Len(c.words) - 1
          PROVE  Struct(F).reads["fail"][SubSeq(c.words, 1, k)] = {}
      <4>1. SubSeq(c.words, 1, k) \in Messages
        BY <3>3
      <4>2. Struct(F).reads["fail"][SubSeq(c.words, 1, k)] =
              UnpackFields("fail", F, SubSeq(c.words, 1, k))[N]
        BY <2>2, <3>4, <4>1
      <4> QED BY <3>1, <4>2
    <3> QED BY <3>1, <3>5, <3>6
  <2> QED BY <2>3 DEF Understands
<1> DEFINE P == PackFields(G, n)
           R(mode, w) == UnpackFields(mode, F, w)
           Read(i, c) ==
              /\ c.words \in Messages
              /\ \A mode \in Modes : \A w \in Messages :
                  R(mode, c.words \o w)[i] = {Got(c.v, w)}
              /\ \A k \in 0 .. Len(c.words) - 1 :
                  R("fail", SubSeq(c.words, 1, k))[i] = {}
           S == {i \in 0 .. N : \A c \in P[i] : Read(i, c)}
<1>1. P[0] = {Code(NoFields, <<>>)}
  BY <1>0, PackFieldsIs
<1>2. \A mode, w : R(mode, w)[0] = {Got(NoFields, w)}
  BY <1>0, UnpackFieldsIs
<1>3. \A i \in 1 .. N : \A c :
        c \in P[i] <=> \E b \in P[i - 1] : c \in PackField(G[i], 16 * n + i - 1, b)
  BY <1>0, PackFieldsIs DEF N
<1>4. ASSUME NEW mode, NEW w, NEW i \in 1 .. N
      PROVE  /\ R(mode, w)[i - 1] = {} => R(mode, w)[i] = {}
             /\ \A g : R(mode, w)[i - 1] = {g} => R(mode, w)[i] = UnpackField(mode, F[i], g)
  BY <1>0, FieldRead
<1> HIDE DEF P, R
<1>5. 0 \in S
  <2>1. ASSUME NEW c \in P[0] PROVE Read(0, c)
    <3>0. c = Code(NoFields, <<>>)
      BY <1>1
    <3>1. c.v = NoFields /\ c.words = <<>>
      BY <3>0, CodeIs
    <3>2. <<>> \in Messages /\ Len(<<>>) = 0
      BY SMTT(30) DEF Messages
    <3>3. \A w \in Messages : <<>> \o w = w
      BY ConcatEmpty DEF Messages
    <3>4. 0 .. Len(<<>>) - 1 = {}
      BY <3>2, SMTT(30)
    <3> QED BY <1>2, <3>1, <3>2, <3>3, <3>4
  <2>2. 0 \in 0 .. N
    BY <1>0, SMTT(30)
  <2> HIDE DEF Read
  <2> QED BY <2>1, <2>2
<1>6. ASSUME NEW i \in 1 .. N, i - 1 \in S PROVE i \in S
  <2> HIDE DEF Read
  <2>0. \A b \in P[i - 1] : Read(i - 1, b)
    BY <1>6
  <2> HIDE DEF S
  <2>1. i \in 0 .. N /\ 16 * n + i - 1 \in Nat
    BY <1>0, SMTT(30)
  <2>2. /\ F[i][1] = G[i][1]
        /\ \A v : IsCoded(F[i], v) <=> IsCoded(G[i], v)
        /\ Understands(F[i][2], G[i][2])
    BY DEF Matches, N
  <2>3. ASSUME NEW c \in P[i] PROVE Read(i, c)
    <3>1. PICK b \in P[i - 1] : c \in PackField(G[i], 16 * n + i - 1, b)
      BY <1>3
    <3>2. Read(i - 1, b)
      BY <2>0
    <3>3. b.words \in Messages
      BY <3>2 DEF Read
    <3>4. \A mode \in Modes : \A w \in Messages :
            R(mode, b.words \o w)[i] = UnpackField(mode, F[i], Got(b.v, w))
      <4>1. \A mode \in Modes : \A w \in Messages :
              R(mode, b.words \o w)[i - 1] = {Got(b.v, w)}
        BY <3>2 DEF Read
      <4> TAKE mode \in Modes
      <4> TAKE w \in Messages
      <4>2. R(mode, b.words \o w)[i - 1] = {Got(b.v, w)}
        BY <4>1
      <4> QED BY <1>4, <4>2
    <3>5. \A k \in 0 .. Len(b.words) - 1 : R("fail", SubSeq(b.words, 1, k))[i] = {}
      <4> TAKE k \in 0 .. Len(b.words) - 1
      <4>1. R("fail", SubSeq(b.words, 1, k))[i - 1] = {}
        BY <3>2 DEF Read
      <4> QED BY <1>4, <4>1
    <3>6. CASE ~IsCoded(G[i], b.v)
      <4>1. c = b
        BY <3>1, <3>6 DEF PackField
      <4>2. \A mode \in Modes : \A w \in Messages :
              UnpackField(mode, F[i], Got(b.v, w)) = {Got(b.v, w)}
        BY <2>2, <3>6, GotIs DEF UnpackField
      <4> QED BY <3>3, <3>4, <3>5, <4>1, <4>2 DEF Read
    <3>7. CASE IsCoded(G[i], b.v)
      <4>1. PICK x \in G[i][2].codes[16 * n + i - 1] :
              c = Code(With(b.v, G[i][1], x.v), b.words \o x.words)
        BY <3>1, <3>7 DEF PackField
      <4>2. c.v = With(b.v, F[i][1], x.v) /\ c.words = b.words \o x.words
        BY <2>2, <4>1, CodeIs
      <4>3. x.words \in Messages
        BY <2>1, <2>2 DEF Understands
      <4>8. \A mode \in Modes : \A w \in Messages :
              F[i][2].reads[mode][x.words \o w] = {Got(x.v, w)}
        BY <2>1, <2>2 DEF Understands
      <4>9. \A k \in 0 .. Len(x.words) - 1 :
              F[i][2].reads["fail"][SubSeq(x.words, 1, k)] = {}
        BY <2>1, <2>2 DEF Understands
      <4>4. IsCoded(F[i], b.v)
        BY <2>2, <3>7
      <4>5. ASSUME NEW mode \in Modes, NEW w \in Messages
            PROVE  R(mode, c.words \o w)[i] = {Got(c.v, w)}
        <5>1. x.words \o w \in Messages
          BY <4>3, Concat
        <5>2. c.words \o w = b.words \o (x.words \o w)
          <6>1. (b.words \o x.words) \o w = b.words \o (x.words \o w)
            BY <3>3, <4>3, Assoc
          <6> QED BY <4>2, <6>1
        <5>3. R(mode, c.words \o w)[i] = UnpackField(mode, F[i], Got(b.v, x.words \o w))
          BY <3>4, <5>1, <5>2
        <5>4. F[i][2].reads[mode][x.words \o w] = {Got(x.v, w)}
          BY <4>8
        <5>5. UnpackField(mode, F[i], Got(b.v, x.words \o w))
                = {Got(With(b.v, F[i][1], x.v), w)}
          <6> DEFINE field == F[i]
                     xw == x.words \o w
          <6> HIDE DEF field, xw
          <6>1. field[2].reads[mode][xw] = {Got(x.v, w)} /\ IsCoded(field, b.v)
            BY <4>4, <5>4 DEF field, xw
          <6>2. UnpackField(mode, field, Got(b.v, xw)) = {Got(With(b.v, field[1], x.v), w)}
            BY <6>1, CodedFieldRead, SMTT(30)
          <6> QED BY <6>2 DEF field, xw
        <5> QED BY <4>2, <5>3, <5>5
      <4>6. ASSUME NEW k \in 0 .. Len(c.words) - 1
            PROVE  R("fail", SubSeq(c.words, 1, k))[i] = {}
        <5>1. k \in 0 .. Len(b.words \o x.words) - 1
          BY <4>2
        <5>2. \/ k \in 0 .. Len(b.words) - 1 /\ SubSeq(c.words, 1, k) = SubSeq(b.words, 1, k)
              \/ /\ k - Len(b.words) \in 0 .. Len(x.words) - 1
                 /\ SubSeq(c.words, 1, k) = b.words \o SubSeq(x.words, 1, k - Len(b.words))
                 /\ SubSeq(x.words, 1, k - Len(b.words)) \in Messages
          <6> DEFINE s == b.words
                     u == x.words
          <6>1. s \in Messages /\ u \in Messages /\ k \in 0 .. Len(s \o u) - 1
            BY <3>3, <4>3, <5>1
          <6> HIDE DEF s, u
          <6>2. \/ k \in 0 .. Len(s) - 1 /\ SubSeq(s \o u, 1, k) = SubSeq(s, 1, k)
                \/ /\ k - Len(s) \in 0 .. Len(u) - 1
                   /\ SubSeq(s \o u, 1, k) = s \o SubSeq(u, 1, k - Len(s))
                   /\ SubSeq(u, 1, k - Len(s)) \in Messages
            BY <6>1, Cut
          <6> QED BY <4>2, <6>2 DEF s, u
        <5>3. CASE k \in 0 .. Len(b.words) - 1 /\ SubSeq(c.words, 1, k) = SubSeq(b.words, 1, k)
          BY <3>5, <5>3
        <5>4. CASE /\ k - Len(b.words) \in 0 .. Len(x.words) - 1
                   /\ SubSeq(c.words, 1, k) = b.words \o SubSeq(x.words, 1, k - Len(b.words))
                   /\ SubSeq(x.words, 1, k - Len(b.words)) \in Messages
          <6> DEFINE p == SubSeq(x.words, 1, k - Len(b.words))
          <6>1. F[i][2].reads["fail"][p] = {}
            BY <4>9, <5>4
          <6>2. R("fail", b.words \o p)[i] = UnpackField("fail", F[i], Got(b.v, p))
            BY <3>4, <5>4 DEF Modes
          <6>3. UnpackField("fail", F[i], Got(b.v, p)) = {}
            BY <4>4, <6>1, CodedFieldCut
          <6> QED BY <5>4, <6>2, <6>3
        <5> QED BY <5>2, <5>3, <5>4
      <4>7. c.words \in Messages
        <5>1. b.words \o x.words \in Messages
          BY <3>3, <4>3, Concat
        <5> QED BY <4>2, <5>1
      <4> QED BY <4>5, <4>6, <4>7 DEF Read
    <3> QED BY <3>6, <3>7
  <2> QED BY <2>1, <2>3 DEF S
<1>7. N \in S
  <2> HIDE DEF S
  <2>1. \A k \in 0 .. N : k \in S
    BY <1>0, <1>5, <1>6, Induction
  <2> QED BY <1>0, <2>1, SMTT(30)
<1> QED BY <1>7 DEF P, R

-----------------------------------------------------------------------------
(* Lists. *)

\* The one outcome, as a predicate.
Only(S, g) == S = {g}

\* One more element of a list, behind its flag.
LEMMA ListStep ==
    ASSUME NEW t, NEW most \in Nat, NEW mode \in Modes, NEW k \in 1 .. most,
           NEW a \in Int, NEW w \in Messages
    PROVE  UnpackList(mode, t, most)[k][<<a>> \o w] =
            UnpackElement(mode, t, UnpackList(mode, t, most)[k - 1], Got(<<a>>, w))
<1> DEFINE r == UnpackList(mode, t, most)
<1>1. <<a>> \o w \in Messages
  BY Cons
<1>2. Flag(mode, most - k, <<a>> \o w) = {Got(<<a>>, w)}
  BY FlagTaken DEF Flag
<1>3. \A v \in Messages : \A g :
        g \in r[k][v] <=> \E f \in Flag(mode, most - k, v) :
                              g \in UnpackElement(mode, t, r[k - 1], f)
  BY UnpackListIs, SMTT(30)
<1> HIDE DEF r
<1>4. \A g : g \in r[k][<<a>> \o w] <=> g \in UnpackElement(mode, t, r[k - 1], Got(<<a>>, w))
  BY <1>1, <1>2, <1>3
<1>5. r[k][<<a>> \o w] = UnpackElement(mode, t, r[k - 1], Got(<<a>>, w))
  BY <1>4
<1> QED BY <1>5 DEF r

\* The flag 0 ends a list.
LEMMA ListEnd ==
    ASSUME NEW mode, NEW t, NEW more, NEW w
    PROVE  UnpackElement(mode, t, more, Got(<< 0 >>, w)) = {Got(<<>>, w)}
  BY GotIs DEF UnpackElement

\* An element and the list behind it.
LEMMA ElementIs ==
    ASSUME NEW mode, NEW t, NEW more, NEW w
    PROVE  \A g : g \in UnpackElement(mode, t, more, Got(<< 1 >>, w)) <=>
            \E x \in t.reads[mode][w] : \E y \in more[x.rest] :
                g = Got(<<x.v>> \o y.v, y.rest)
<1> TAKE g
<1>1. << 1 >> # << 0 >>
  BY SMTT(30)
<1> DEFINE Both(x) == {Got(<<x.v>> \o y.v, y.rest) : y \in more[x.rest]}
<1>2. UnpackElement(mode, t, more, Got(<< 1 >>, w)) = UNION {Both(x) : x \in t.reads[mode][w]}
  BY <1>1, GotIs DEF UnpackElement
<1>3. \A x : g \in Both(x) <=> \E y \in more[x.rest] : g = Got(<<x.v>> \o y.v, y.rest)
  OBVIOUS
<1> HIDE DEF Both
<1> QED BY <1>2, <1>3

\* Their one outcome is one list.
LEMMA ElementRead ==
    ASSUME NEW mode, NEW t, NEW more, NEW w, NEW x, NEW u, NEW y, NEW z,
           Only(t.reads[mode][w], Got(x, u)), Only(more[u], Got(y, z))
    PROVE  Only(UnpackElement(mode, t, more, Got(<< 1 >>, w)), Got(<<x>> \o y, z))
<1>0. \A g : g \in UnpackElement(mode, t, more, Got(<< 1 >>, w)) <=>
            \E x1 \in t.reads[mode][w] : \E y1 \in more[x1.rest] :
                g = Got(<<x1.v>> \o y1.v, y1.rest)
  BY ElementIs, SMTT(30)
<1> DEFINE E == UnpackElement(mode, t, more, Got(<< 1 >>, w))
           e == Got(<<x>> \o y, z)
           gx == Got(x, u)
           gy == Got(y, z)
<1>1. \A g : g \in E <=> \E x1 \in t.reads[mode][w] : \E y1 \in more[x1.rest] :
                            g = Got(<<x1.v>> \o y1.v, y1.rest)
  BY <1>0
<1>2. gx.rest = u /\ gx.v = x /\ gy.v = y /\ gy.rest = z
  BY GotIs
<1>3. t.reads[mode][w] = {gx} /\ more[u] = {gy} /\ Got(<<x>> \o y, z) = e
  BY DEF Only
<1> HIDE DEF E, e, gx, gy
<1>4. \A g : g \in E <=> g = e
  <2>1. \A g : g \in E <=> \E y1 \in more[gx.rest] : g = Got(<<gx.v>> \o y1.v, y1.rest)
    BY <1>1, <1>3
  <2>2. \A g : g \in E <=> g = Got(<<gx.v>> \o gy.v, gy.rest)
    BY <1>2, <1>3, <2>1
  <2> QED BY <1>2, <1>3, <2>2
<1>5. E = {e}
  BY <1>4, SMTT(30)
<1> QED BY <1>5 DEF E, e, Only

\* When all that follows fails, so does the list.
LEMMA ElementCut ==
    ASSUME NEW mode, NEW t, NEW more, NEW w,
           \A x \in t.reads[mode][w] : more[x.rest] = {}
    PROVE  UnpackElement(mode, t, more, Got(<< 1 >>, w)) = {}
<1>1. \A g : g \notin UnpackElement(mode, t, more, Got(<< 1 >>, w))
  BY ElementIs
<1> QED BY <1>1

\* A list is read if its elements are (the while loops of nfs3_types.hpp and
\* nfs3_xdr.c, the recursive filters of nfs3_xdr.cpp).  By induction on the
\* elements.
LEMMA ListRead ==
    ASSUME NEW u, NEW t, Understands(u, t)
    PROVE  Understands(List(u), List(t))
<1>0. MaxList \in Nat /\ "fail" \in Modes
  BY MaxListAssumption DEF Modes
<1> SUFFICES ASSUME NEW n \in Nat, NEW q \in 0 .. MaxList, NEW c \in PackList(t, n)[q]
             PROVE  /\ c.words \in Messages
                    /\ \A most \in Nat : \A mode \in Modes : \A w \in Messages :
                        most > MaxList =>
                            UnpackList(mode, u, most)[most][c.words \o w] = {Got(c.v, w)}
                    /\ \A most \in Nat : \A l \in 0 .. Len(c.words) - 1 :
                        UnpackList("fail", u, most)[most][SubSeq(c.words, 1, l)] = {}
  <2>1. ASSUME NEW n \in Nat
        PROVE  \A c : c \in List(t).codes[n] => \E q \in 0 .. MaxList : c \in PackList(t, n)[q]
    <3>1. List(t).codes[n] = UNION {PackList(t, n)[q] : q \in 0 .. MaxList}
      BY DEF List, Coder
    <3> QED BY <3>1
  <2>2. \A mode \in Modes : \A w \in Messages :
          List(u).reads[mode][w] = UnpackList(mode, u, Most(w))[Most(w)][w]
    BY DEF List, Coder
  <2>3. \A w \in Messages : Most(w) \in Nat /\ Most(w) > MaxList
    <3> TAKE w \in Messages
    <3>1. Len(w) \in Nat
      BY SMTT(30) DEF Messages
    <3> QED BY <1>0, <3>1, SMTT(30) DEF Most
  <2>4. ASSUME NEW n \in Nat, NEW c \in List(t).codes[n]
        PROVE  /\ c.words \in Messages
               /\ \A mode \in Modes : \A w \in Messages :
                   List(u).reads[mode][c.words \o w] = {Got(c.v, w)}
               /\ \A k \in 0 .. Len(c.words) - 1 :
                   List(u).reads["fail"][SubSeq(c.words, 1, k)] = {}
    <3>1. PICK q \in 0 .. MaxList : c \in PackList(t, n)[q]
      BY <2>1
    <3>2. c.words \in Messages
      BY <3>1
    <3>a. \A most \in Nat : \A mode \in Modes : \A w \in Messages :
            most > MaxList => UnpackList(mode, u, most)[most][c.words \o w] = {Got(c.v, w)}
      BY <3>1
    <3>b. \A most \in Nat : \A l \in 0 .. Len(c.words) - 1 :
            UnpackList("fail", u, most)[most][SubSeq(c.words, 1, l)] = {}
      BY <3>1
    <3>3. ASSUME NEW mode \in Modes, NEW w \in Messages
          PROVE  List(u).reads[mode][c.words \o w] = {Got(c.v, w)}
      <4>1. c.words \o w \in Messages
        BY <3>2, Concat
      <4> DEFINE cw == c.words \o w
      <4>2. \A most \in Nat : most > MaxList => UnpackList(mode, u, most)[most][cw] = {Got(c.v, w)}
        BY <3>a
      <4> HIDE DEF cw
      <4>3. cw \in Messages
        BY <4>1 DEF cw
      <4>4. UnpackList(mode, u, Most(cw))[Most(cw)][cw] = {Got(c.v, w)}
        BY <2>3, <4>2, <4>3
      <4>5. List(u).reads[mode][cw] = {Got(c.v, w)}
        BY <2>2, <4>3, <4>4
      <4> QED BY <4>5 DEF cw
    <3>4. ASSUME NEW k \in 0 .. Len(c.words) - 1
          PROVE  List(u).reads["fail"][SubSeq(c.words, 1, k)] = {}
      <4> DEFINE p == SubSeq(c.words, 1, k)
      <4>1. p \in Messages
        BY <3>2, Prefix
      <4>2. \A most \in Nat : UnpackList("fail", u, most)[most][p] = {}
        BY <3>b
      <4> HIDE DEF p
      <4>3. UnpackList("fail", u, Most(p))[Most(p)][p] = {}
        BY <2>3, <4>1, <4>2
      <4>4. List(u).reads["fail"][p] = {}
        BY <1>0, <2>2, <4>1, <4>3
      <4> QED BY <4>4 DEF p
    <3> QED BY <3>2, <3>3, <3>4
  <2> QED BY <2>4 DEF Understands
<1> DEFINE P == PackList(t, n)
           R(mode, most) == UnpackList(mode, u, most)
           Full(m, b) ==
              \A most \in Nat : \A mode \in Modes : \A w \in Messages :
                \A k \in 0 .. most : k > m => R(mode, most)[k][b.words \o w] = {Got(b.v, w)}
           Short(b) ==
              \A most \in Nat : \A k \in 0 .. most : \A l \in 0 .. Len(b.words) - 1 :
                R("fail", most)[k][SubSeq(b.words, 1, l)] = {}
           Read(m, b) == b.words \in Messages /\ Full(m, b) /\ Short(b)
           S == {m \in 0 .. MaxList : \A b \in P[m] : Read(m, b)}
<1>1. P[0] = {Code(<<>>, << 0 >>)}
  BY PackListIs
<1>2. \A m \in 1 .. MaxList : \A b :
        b \in P[m] <=> \E d \in P[m - 1] : b \in PackElement(t, 16 * n + m, d)
  BY PackListIs
<1>3. \A most \in Nat : \A mode \in Modes : \A k \in 1 .. most : \A a \in Int : \A w \in Messages :
        R(mode, most)[k][<<a>> \o w] =
            UnpackElement(mode, u, R(mode, most)[k - 1], Got(<<a>>, w))
  <2> TAKE most \in Nat
  <2> TAKE mode \in Modes
  <2> TAKE k \in 1 .. most
  <2> TAKE a \in Int
  <2> TAKE w \in Messages
  <2> QED BY ListStep, SMTT(30)
<1>4. \A most \in Nat : \A w \in Messages : R("fail", most)[0][w] = {}
  BY UnpackListIs, SMTT(30)
<1>5. ASSUME NEW a \in Int, NEW v \in Messages, NEW l \in 0 .. Len(<<a>> \o v) - 1,
             NEW most \in Nat, NEW k \in 1 .. most
      PROVE  \/ R("fail", most)[k][SubSeq(<<a>> \o v, 1, l)] = {}
             \/ \E j \in 0 .. Len(v) - 1 :
                    /\ SubSeq(v, 1, j) \in Messages
                    /\ SubSeq(<<a>> \o v, 1, l) = <<a>> \o SubSeq(v, 1, j)
  <2> DEFINE p == SubSeq(<<a>> \o v, 1, l)
             r == R("fail", most)
  <2>1. p \in Messages /\ \A kept : \/ Take("fail", 1, p, kept) = {}
                                    \/ \E j \in 0 .. Len(v) - 1 :
                                          /\ SubSeq(v, 1, j) \in Messages
                                          /\ p = <<a>> \o SubSeq(v, 1, j)
    BY FlagCut
  <2>2. \A w \in Messages : \A g :
          g \in r[k][w] <=> \E f \in Flag("fail", most - k, w) :
                              g \in UnpackElement("fail", u, r[k - 1], f)
    BY UnpackListIs, SMTT(30)
  <2> HIDE DEF p, r
  <2>3. CASE Flag("fail", most - k, p) = {}
    <3>1. r[k][p] = {}
      BY <2>1, <2>2, <2>3
    <3> QED BY <3>1 DEF r, p
  <2>4. CASE \E j \in 0 .. Len(v) - 1 :
                  /\ SubSeq(v, 1, j) \in Messages
                  /\ p = <<a>> \o SubSeq(v, 1, j)
    BY <2>4 DEF p
  <2> QED BY <2>1, <2>3, <2>4 DEF Flag
<1> HIDE DEF P, R
<1>6. 0 \in S
  <2>1. ASSUME NEW b \in P[0] PROVE Read(0, b)
    <3>0. b = Code(<<>>, << 0 >>)
      BY <1>1
    <3>1. b.v = <<>> /\ b.words = << 0 >>
      BY <3>0, CodeIs
    <3>2. << 0 >> \in Messages /\ <<>> \in Messages /\ << 0 >> \o <<>> = << 0 >> /\ Len(<<>>) = 0 /\ 0 \in Int
      BY SMTT(30) DEF Messages
    <3>3. ASSUME NEW most \in Nat, NEW mode \in Modes, NEW w \in Messages,
                 NEW k \in 0 .. most, k > 0
          PROVE  R(mode, most)[k][b.words \o w] = {Got(b.v, w)}
      <4>1. k \in 1 .. most
        BY <3>3, SMTT(30)
      <4>2. R(mode, most)[k][<< 0 >> \o w] =
              UnpackElement(mode, u, R(mode, most)[k - 1], Got(<< 0 >>, w))
        BY <1>3, <3>2, <4>1
      <4>3. R(mode, most)[k][<< 0 >> \o w] = {Got(<<>>, w)}
        BY <4>2, ListEnd
      <4> QED BY <3>1, <4>3
    <3>4. ASSUME NEW most \in Nat, NEW k \in 0 .. most, NEW l \in 0 .. Len(<< 0 >>) - 1
          PROVE  R("fail", most)[k][SubSeq(<< 0 >>, 1, l)] = {}
      <4>1. 0 .. Len(<<>>) - 1 = {}
        BY SMTT(30)
      <4>2. CASE k = 0
        <5>1. SubSeq(<< 0 >>, 1, l) \in Messages
          BY <3>2, Prefix
        <5> QED BY <1>4, <4>2, <5>1
      <4>3. CASE k \in 1 .. most
        BY <1>5, <3>2, <4>1, <4>3
      <4>4. k = 0 \/ k \in 1 .. most
        BY SMTT(30)
      <4> QED BY <4>2, <4>3, <4>4
    <3>5. Full(0, b)
      BY <3>3
    <3>6. Short(b)
      BY <3>1, <3>4
    <3> HIDE DEF Full, Short
    <3> QED BY <3>1, <3>2, <3>5, <3>6
  <2>2. 0 \in 0 .. MaxList
    BY <1>0, SMTT(30)
  <2> HIDE DEF Read
  <2> QED BY <2>1, <2>2

<1>7. ASSUME NEW m \in 1 .. MaxList, m - 1 \in S PROVE m \in S
  <2> HIDE DEF Read
  <2>0. \A d \in P[m - 1] : Read(m - 1, d)
    BY <1>7
  <2> HIDE DEF S
  <2>1. m \in 0 .. MaxList /\ 16 * n + m \in Nat
    BY <1>0, SMTT(30)
  <2>2. ASSUME NEW b \in P[m] PROVE Read(m, b)
    <3>1. PICK d \in P[m - 1] : b \in PackElement(t, 16 * n + m, d)
      BY <1>2
    <3>2. PICK x \in t.codes[16 * n + m] :
            b = Code(<<x.v>> \o d.v, << 1 >> \o (x.words \o d.words))
      BY <3>1 DEF PackElement
    <3>3. b.v = <<x.v>> \o d.v /\ b.words = << 1 >> \o (x.words \o d.words)
      BY <3>2, CodeIs
    <3>4. d.words \in Messages
      BY <2>0 DEF Read
    <3>5. x.words \in Messages
      BY <2>1 DEF Understands
    <3>6. \A mode \in Modes : \A w \in Messages :
            u.reads[mode][x.words \o w] = {Got(x.v, w)}
      BY <2>1 DEF Understands
    <3>7. \A l \in 0 .. Len(x.words) - 1 : u.reads["fail"][SubSeq(x.words, 1, l)] = {}
      BY <2>1 DEF Understands
    <3> DEFINE body == x.words \o d.words
    <3>8. body \in Messages /\ 1 \in Int
      <4>1. body \in Messages
        BY <3>4, <3>5, Concat
      <4> QED BY <4>1, SMTT(30)
    <3>9. ASSUME NEW most \in Nat, NEW mode \in Modes, NEW w \in Messages,
                 NEW k \in 0 .. most, k > m
          PROVE  R(mode, most)[k][b.words \o w] = {Got(b.v, w)}
      <4>1. k \in 1 .. most /\ k - 1 \in 0 .. most /\ k - 1 > m - 1
        BY <3>9, <1>0, SMTT(30)
      <4>2. d.words \o w \in Messages
        BY <3>4, Concat
      <4>3. body \o w = x.words \o (d.words \o w)
        BY <3>4, <3>5, Assoc
      <4>4. b.words \o w = << 1 >> \o (body \o w)
        <5> HIDE DEF body
        <5>1. << 1 >> \in Messages
          BY <3>8, Cons
        <5> DEFINE one == << 1 >>
        <5> HIDE DEF one
        <5>2. (one \o body) \o w = one \o (body \o w)
          BY <3>8, <5>1, Assoc DEF one
        <5> QED BY <3>3, <5>2 DEF one, body
      <4>5. body \o w \in Messages
        BY <3>8, Concat
      <4>6. R(mode, most)[k][b.words \o w] =
              UnpackElement(mode, u, R(mode, most)[k - 1], Got(<< 1 >>, body \o w))
        <5> DEFINE bw == body \o w
        <5> HIDE DEF bw
        <5>1. bw \in Messages /\ b.words \o w = << 1 >> \o bw
          BY <4>4, <4>5 DEF bw
        <5>2. R(mode, most)[k][<< 1 >> \o bw] =
                UnpackElement(mode, u, R(mode, most)[k - 1], Got(<< 1 >>, bw))
          BY <1>3, <3>8, <4>1, <5>1
        <5> QED BY <5>1, <5>2 DEF bw
      <4>7. u.reads[mode][body \o w] = {Got(x.v, d.words \o w)}
        BY <3>6, <4>2, <4>3
      <4>8. R(mode, most)[k - 1][d.words \o w] = {Got(d.v, w)}
        <5>1. Full(m - 1, d)
          BY <2>0 DEF Read
        <5>2. \A j \in 0 .. most : j > m - 1 => R(mode, most)[j][d.words \o w] = {Got(d.v, w)}
          BY <5>1
        <5> QED BY <4>1, <5>2
      <4> HIDE DEF body
      <4>9. UnpackElement(mode, u, R(mode, most)[k - 1], Got(<< 1 >>, body \o w))
              = {Got(<<x.v>> \o d.v, w)}
        <5> DEFINE more == R(mode, most)[k - 1]
                   dw == d.words \o w
                   bw == body \o w
        <5>1. Only(u.reads[mode][bw], Got(x.v, dw)) /\ Only(more[dw], Got(d.v, w))
          BY <4>7, <4>8 DEF Only
        <5> HIDE DEF more, dw, bw
        <5>2. Only(UnpackElement(mode, u, more, Got(<< 1 >>, bw)), Got(<<x.v>> \o d.v, w))
          BY <5>1, ElementRead
        <5> QED BY <5>2 DEF more, bw, Only
      <4> QED BY <3>3, <4>6, <4>9
    <3>10. ASSUME NEW most \in Nat, NEW k \in 0 .. most, NEW l \in 0 .. Len(b.words) - 1
           PROVE  R("fail", most)[k][SubSeq(b.words, 1, l)] = {}
      <4>1. l \in 0 .. Len(<< 1 >> \o body) - 1
        BY <3>3
      <4>2. CASE k = 0
        <5>1. b.words \in Messages
          BY <3>3, <3>8, Cons
        <5>2. SubSeq(b.words, 1, l) \in Messages
          BY <5>1, Prefix
        <5> QED BY <1>4, <4>2, <5>2
      <4>3. CASE k \in 1 .. most
        <5>1. CASE \E j \in 0 .. Len(body) - 1 :
                    /\ SubSeq(body, 1, j) \in Messages
                    /\ SubSeq(<< 1 >> \o body, 1, l) = << 1 >> \o SubSeq(body, 1, j)
          <6>1. PICK j \in 0 .. Len(body) - 1 :
                    /\ SubSeq(body, 1, j) \in Messages
                    /\ SubSeq(<< 1 >> \o body, 1, l) = << 1 >> \o SubSeq(body, 1, j)
            BY <5>1
          <6> DEFINE p == SubSeq(body, 1, j)
          <6>2. R("fail", most)[k][SubSeq(b.words, 1, l)] =
                  UnpackElement("fail", u, R("fail", most)[k - 1], Got(<< 1 >>, p))
            <7>1. SubSeq(b.words, 1, l) = << 1 >> \o p
              BY <3>3, <6>1
            <7>2. p \in Messages
              BY <6>1
            <7> HIDE DEF p
            <7>3. R("fail", most)[k][<< 1 >> \o p] =
                    UnpackElement("fail", u, R("fail", most)[k - 1], Got(<< 1 >>, p))
              BY <1>0, <1>3, <3>8, <4>3, <7>2
            <7> QED BY <7>1, <7>3
          <6>3. \A y \in u.reads["fail"][p] : R("fail", most)[k - 1][y.rest] = {}
            <7>1. \/ j \in 0 .. Len(x.words) - 1 /\ p = SubSeq(x.words, 1, j)
                  \/ /\ j - Len(x.words) \in 0 .. Len(d.words) - 1
                     /\ p = x.words \o SubSeq(d.words, 1, j - Len(x.words))
                     /\ SubSeq(d.words, 1, j - Len(x.words)) \in Messages
              BY <3>4, <3>5, Cut
            <7>2. CASE j \in 0 .. Len(x.words) - 1 /\ p = SubSeq(x.words, 1, j)
              <8>1. u.reads["fail"][p] = {}
                BY <3>7, <7>2
              <8> QED BY <8>1
            <7>3. CASE /\ j - Len(x.words) \in 0 .. Len(d.words) - 1
                       /\ p = x.words \o SubSeq(d.words, 1, j - Len(x.words))
                       /\ SubSeq(d.words, 1, j - Len(x.words)) \in Messages
              <8> DEFINE z == SubSeq(d.words, 1, j - Len(x.words))
              <8>1. u.reads["fail"][p] = {Got(x.v, z)}
                BY <1>0, <3>6, <7>3
              <8>2. k - 1 \in 0 .. most
                BY <4>3, SMTT(30)
              <8>3. R("fail", most)[k - 1][z] = {}
                <9>1. Short(d)
                  BY <2>0 DEF Read
                <9> QED BY <7>3, <8>2, <9>1
              <8>4. Got(x.v, z).rest = z
                BY GotIs
              <8> DEFINE g == Got(x.v, z)
              <8> HIDE DEF z, p, g
              <8>5. u.reads["fail"][p] = {g} /\ g.rest = z
                BY <8>1, <8>4 DEF g
              <8> QED BY <8>3, <8>5
            <7> QED BY <7>1, <7>2, <7>3
          <6> HIDE DEF p
          <6>4. UnpackElement("fail", u, R("fail", most)[k - 1], Got(<< 1 >>, p)) = {}
            BY <6>3, ElementCut
          <6> QED BY <6>2, <6>4
        <5> QED BY <1>5, <3>3, <3>8, <4>1, <4>3, <5>1
      <4>4. k = 0 \/ k \in 1 .. most
        BY SMTT(30)
      <4> QED BY <4>2, <4>3, <4>4
    <3>11. b.words \in Messages
      BY <3>3, <3>8, Cons
    <3> QED BY <3>9, <3>10, <3>11 DEF Read
  <2> QED BY <2>1, <2>2 DEF S
<1>8. q \in S
  <2> HIDE DEF S
  <2>1. \A k \in 0 .. MaxList : k \in S
    BY <1>0, <1>6, <1>7, Induction
  <2> QED BY <2>1
<1>9. Read(q, c)
  <2> HIDE DEF Read
  <2> QED BY <1>8 DEF P
<1>10. ASSUME NEW most \in Nat, NEW mode \in Modes, NEW w \in Messages, most > MaxList
       PROVE  R(mode, most)[most][c.words \o w] = {Got(c.v, w)}
  <2>1. most \in 0 .. most /\ most > q
    BY <1>0, <1>10, SMTT(30)
  <2>2. \A k \in 0 .. most : k > q => R(mode, most)[k][c.words \o w] = {Got(c.v, w)}
    BY <1>9
  <2> QED BY <2>1, <2>2
<1>11. ASSUME NEW most \in Nat, NEW l \in 0 .. Len(c.words) - 1
       PROVE  R("fail", most)[most][SubSeq(c.words, 1, l)] = {}
  <2>1. most \in 0 .. most
    BY SMTT(30)
  <2> QED BY <1>9, <2>1
<1> QED BY <1>9, <1>10, <1>11 DEF R

-----------------------------------------------------------------------------
(* A reader that keeps what it finds never fails. *)

\* A read of w comes to some outcome, and goes on behind it.
Goes(S, w) == S # {} /\ \A g \in S : g.rest \in Messages /\ Len(g.rest) <= Len(w)

\* Reading for good or ill, as the C unpackers do, always comes to an
\* outcome, whatever the words are.
Total(t) == \A w \in Messages : Goes(t.reads["keep"][w], w)

\* What remains of a message when n words are taken.
LEMMA Rest ==
    ASSUME NEW w \in Messages, NEW n \in 0 .. Len(w)
    PROVE  Drop(w, n) \in Messages /\ Len(Drop(w, n)) <= Len(w) /\ Len(Drop(w, n)) = Len(w) - n
<1>1. Len(w) \in Nat /\ \A i \in n + 1 .. Len(w) : w[i] \in Int
  BY SMTT(30) DEF Messages
<1>2. SubSeq(w, n + 1, Len(w)) \in Seq(Int) /\ Len(SubSeq(w, n + 1, Len(w))) = Len(w) - n
  BY <1>1, SubSeqIs, SMTT(30)
<1> QED BY <1>1, <1>2, SMTT(30) DEF Messages, Drop

\* One outcome is an outcome.
LEMMA OneGoes ==
    ASSUME NEW v, NEW r \in Messages, NEW w, Len(r) <= Len(w)
    PROVE  Goes({Got(v, r)}, w)
<1> DEFINE g == Got(v, r)
<1>1. g.rest = r
  BY GotIs
<1> HIDE DEF g
<1>2. Goes({g}, w)
  BY <1>1 DEF Goes
<1> QED BY <1>2 DEF g

\* A short read that keeps something comes to an outcome.
LEMMA KeptGoes ==
    ASSUME NEW w \in Messages, NEW kept, kept # {}
    PROVE  Goes(ShortRead("keep", kept, w), w)
<1>1. Len(w) <= Len(w)
  BY SMTT(30) DEF Messages
<1>2. ShortRead("keep", kept, w) = {Got(v, w) : v \in kept}
  BY DEF ShortRead
<1> QED BY <1>1, <1>2, GotIs DEF Goes

\* So does a read of m words.
LEMMA TakeGoes ==
    ASSUME NEW w \in Messages, NEW m \in Nat, NEW kept, kept # {}
    PROVE  Goes(Take("keep", m, w, kept), w)
<1>1. CASE Len(w) >= m
  <2>1. m \in 0 .. Len(w)
    BY <1>1, SMTT(30) DEF Messages
  <2>2. Take("keep", m, w, kept) = {Got(SubSeq(w, 1, m), Drop(w, m))}
    BY <1>1 DEF Take
  <2> QED BY <2>1, <2>2, Rest, OneGoes
<1>2. CASE ~(Len(w) >= m)
  <2>1. Take("keep", m, w, kept) = ShortRead("keep", kept, w)
    BY <1>2 DEF Take
  <2> QED BY <2>1, KeptGoes
<1> QED BY <1>1, <1>2

\* So does a read of counted words.
LEMMA OpaqueGoes ==
    ASSUME NEW w \in Messages, NEW kept, kept # {}
    PROVE  Goes(TakeOpaque("keep", w, kept), w)
<1>1. CASE w = <<>>
  BY <1>1, KeptGoes DEF TakeOpaque
<1>2. CASE w # <<>>
  <2> DEFINE n == (Head(w) + 3) \div 4
  <2>1. Len(w) \in Nat /\ Len(w) >= 1 /\ Head(w) \in Int
    BY <1>2, SMTT(30) DEF Messages
  <2>2. CASE Head(w) >= 0 /\ n <= Len(w) - 1
    <3>1. n + 1 \in 0 .. Len(w)
      BY <2>1, <2>2, SMTT(30)
    <3>2. TakeOpaque("keep", w, kept) = {Got(SubSeq(w, 2, n + 1), Drop(w, n + 1))}
      BY <1>2, <2>2 DEF TakeOpaque
    <3> HIDE DEF n
    <3> QED BY <3>1, <3>2, Rest, OneGoes
  <2>3. CASE ~(Head(w) >= 0 /\ n <= Len(w) - 1)
    <3>1. TakeOpaque("keep", w, kept) = ShortRead("keep", kept, Tail(w))
      BY <1>2, <2>3 DEF TakeOpaque
    <3>2. Tail(w) \in Messages /\ \A k \in Int : k <= Len(Tail(w)) => k <= Len(w)
      BY <1>2, SMTT(30) DEF Messages
    <3>3. Goes(ShortRead("keep", kept, Tail(w)), Tail(w))
      BY <3>2, KeptGoes
    <3>4. \A v \in Messages : Len(v) \in Int
      BY SMTT(30) DEF Messages
    <3> QED BY <3>1, <3>2, <3>3, <3>4 DEF Goes
  <2> QED BY <2>2, <2>3
<1> QED BY <1>1, <1>2

\* Words and enumerations always come to an outcome.
LEMMA WordsTotal ==
    /\ \A m \in Nat : Total(Words(m))
    /\ \A S : Total(Enum(S)) /\ Total(Local(S))
<1>1. "keep" \in Modes /\ 1 \in Nat
  BY DEF Modes
<1>2. ASSUME NEW m \in Nat PROVE Total(Words(m))
  <2> DEFINE kept == {[i \in 1 .. m |-> 0]}
  <2>1. \A w \in Messages : Words(m).reads["keep"][w] = Take("keep", m, w, kept)
    BY <1>1 DEF Words, Coder
  <2>2. kept # {}
    OBVIOUS
  <2> HIDE DEF kept
  <2> QED BY <2>1, <2>2, TakeGoes DEF Total
<1>3. ASSUME NEW S PROVE Total(Enum(S)) /\ Total(Local(S))
  <2>1. \A w \in Messages :
          /\ Enum(S).reads["keep"][w] = Take("keep", 1, w, {<< 0 >>})
          /\ Local(S).reads["keep"][w] = Take("keep", 1, w, {<< 0 >>, <<Junk>>})
    BY <1>1 DEF Enum, Local, Coder
  <2>2. {<< 0 >>} # {} /\ {<< 0 >>, <<Junk>>} # {}
    OBVIOUS
  <2> QED BY <1>1, <2>1, <2>2, TakeGoes DEF Total
<1> QED BY <1>2, <1>3

\* Counted words always come to an outcome.
LEMMA OpaqueTotal == Total(opaque) /\ Total(bytes) /\ Total(string)
<1>1. "keep" \in Modes
  BY DEF Modes
<1>2. \A w \in Messages :
        /\ opaque.reads["keep"][w] = TakeOpaque("keep", w, {<<Junk>>})
        /\ bytes.reads["keep"][w] = TakeOpaque("keep", w, {<<Junk>>})
        /\ string.reads["keep"][w] = TakeOpaque("keep", w, {<<>>})
  BY <1>1 DEF opaque, bytes, string, Coder
<1>3. {<<Junk>>} # {} /\ {<<>>} # {}
  OBVIOUS
<1> QED BY <1>2, <1>3, OpaqueGoes DEF Total

\* A function of what was read goes as far.
LEMMA BooleanTotal == Total(boolean)
<1>1. "keep" \in Modes /\ 1 \in Nat /\ {<< 0 >>} # {}
  BY DEF Modes
<1> DEFINE Put(g) == Got(<<IF g.v = << 0 >> THEN 0 ELSE 1>>, g.rest)
<1>2. \A w \in Messages :
        boolean.reads["keep"][w] = {Put(g) : g \in Take("keep", 1, w, {<< 0 >>})}
  BY <1>1 DEF boolean, Coder
<1>3. \A g : Put(g).rest = g.rest
  BY GotIs
<1> HIDE DEF Put
<1>4. \A w \in Messages : Goes(Take("keep", 1, w, {<< 0 >>}), w)
  BY <1>1, TakeGoes
<1> SUFFICES ASSUME NEW w \in Messages PROVE Goes(boolean.reads["keep"][w], w)
  BY DEF Total
<1> DEFINE S == Take("keep", 1, w, {<< 0 >>})
<1>5. boolean.reads["keep"][w] = {Put(g) : g \in S} /\ Goes(S, w)
  BY <1>2, <1>4
<1> HIDE DEF S
<1> QED BY <1>3, <1>5 DEF Goes

\* Putting the values into an option changes nothing of that.
LEMMA SomeGoes ==
    ASSUME NEW S, NEW w, Goes(S, w)
    PROVE  Goes(ReadSome(S), w)
<1> DEFINE Put(g) == Got(<<g.v>>, g.rest)
<1>1. ReadSome(S) = {Put(g) : g \in S}
  BY DEF ReadSome
<1>2. \A g : Put(g).rest = g.rest
  BY GotIs
<1> HIDE DEF Put
<1> QED BY <1>1, <1>2 DEF Goes

\* Nor does the absence of a flag.
LEMMA BareTotal ==
    ASSUME NEW t, Total(t)
    PROVE  Total(Bare(t))
<1>1. \A w \in Messages : Bare(t).reads["keep"][w] = ReadSome(t.reads["keep"][w])
  BY DEF Bare, Coder, Modes
<1> SUFFICES ASSUME NEW w \in Messages PROVE Goes(Bare(t).reads["keep"][w], w)
  BY DEF Total
<1>2. Goes(t.reads["keep"][w], w)
  BY DEF Total
<1> QED BY <1>1, <1>2, SomeGoes

\* Nor does a sentinel.
LEMMA SentinelTotal ==
    ASSUME NEW t, Total(t)
    PROVE  Total(Sentinel(t))
<1> DEFINE Put(g) == Got(IF g.v = <<-1>> THEN <<>> ELSE <<g.v>>, g.rest)
<1>1. \A w \in Messages :
        Sentinel(t).reads["keep"][w] = {Put(g) : g \in t.reads["keep"][w]}
  BY DEF Sentinel, Coder, Modes
<1>2. \A g : Put(g).rest = g.rest
  BY GotIs
<1> HIDE DEF Put
<1> SUFFICES ASSUME NEW w \in Messages PROVE Goes(Sentinel(t).reads["keep"][w], w)
  BY DEF Total
<1> DEFINE S == t.reads["keep"][w]
<1>3. Sentinel(t).reads["keep"][w] = {Put(g) : g \in S} /\ Goes(S, w)
  BY <1>1 DEF Total
<1> HIDE DEF S
<1> QED BY <1>2, <1>3 DEF Goes

\* The native coding's cookie verifier always comes to an outcome.
LEMMA VerfTotal == Total(verfOpaque)
<1> DEFINE Put(g) == Got(IF Len(g.v) >= 2 THEN SubSeq(g.v, 1, 2) ELSE <<Junk, Junk>>, g.rest)
<1>1. \A w \in Messages :
        verfOpaque.reads["keep"][w] = {Put(g) : g \in TakeOpaque("keep", w, {<<>>})}
  BY DEF verfOpaque, Coder, Modes
<1>2. \A g : Put(g).rest = g.rest
  BY GotIs
<1> HIDE DEF Put
<1>3. {<<>>} # {}
  OBVIOUS
<1>4. \A w \in Messages : Goes(TakeOpaque("keep", w, {<<>>}), w)
  BY <1>3, OpaqueGoes
<1> SUFFICES ASSUME NEW w \in Messages PROVE Goes(verfOpaque.reads["keep"][w], w)
  BY DEF Total
<1> DEFINE S == TakeOpaque("keep", w, {<<>>})
<1>5. verfOpaque.reads["keep"][w] = {Put(g) : g \in S} /\ Goes(S, w)
  BY <1>1, <1>4
<1> HIDE DEF S
<1> QED BY <1>2, <1>5 DEF Goes

\* A value behind a flag comes to an outcome if the value does.
LEMMA FlaggedTotal ==
    ASSUME NEW t, Total(t), NEW on, NEW onAny, NEW local
    PROVE  Total(Flagged(on, onAny, local, t))
<1> DEFINE F == Flagged(on, onAny, local, t)
           kept == IF local THEN {<< 0 >>, <<on>>} ELSE {<< 0 >>}
           After(f) == IF IsOn(on, onAny, f.v[1])
                       THEN ReadSome(t.reads["keep"][f.rest])
                       ELSE {Got(<<>>, f.rest)}
<1>1. \A w \in Messages :
        F.reads["keep"][w] = UNION {After(f) : f \in Take("keep", 1, w, kept)}
  BY DEF Flagged, Coder, Modes
<1>2. kept # {} /\ 1 \in Nat
  OBVIOUS
<1>3. ASSUME NEW f, f.rest \in Messages
      PROVE  Goes(After(f), f.rest)
  <2>1. Len(f.rest) <= Len(f.rest)
    BY <1>3, SMTT(30) DEF Messages
  <2>2. Goes(ReadSome(t.reads["keep"][f.rest]), f.rest)
    BY <1>3, SomeGoes DEF Total
  <2>3. Goes({Got(<<>>, f.rest)}, f.rest)
    BY <1>3, <2>1, OneGoes
  <2> QED BY <2>2, <2>3
<1> HIDE DEF F, kept, After
<1> SUFFICES ASSUME NEW w \in Messages
             PROVE  Goes(F.reads["keep"][w], w)
  BY DEF Total, F
<1> DEFINE S == Take("keep", 1, w, kept)
<1>4. Goes(S, w)
  BY <1>2, TakeGoes
<1> HIDE DEF S
<1>5. \A g : g \in F.reads["keep"][w] <=> \E f \in S : g \in After(f)
  <2>1. F.reads["keep"][w] = UNION {After(f) : f \in S}
    BY <1>1 DEF S
  <2> QED BY <2>1
<1>6. \A f \in S : Goes(After(f), f.rest)
  BY <1>3, <1>4 DEF Goes
<1>7. \A f \in S : \A g \in After(f) : g.rest \in Messages /\ Len(g.rest) <= Len(w)
  <2> TAKE f \in S
  <2> TAKE g \in After(f)
  <2>1. g.rest \in Messages /\ Len(g.rest) <= Len(f.rest) /\ f.rest \in Messages
        /\ Len(f.rest) <= Len(w)
    BY <1>4, <1>6 DEF Goes
  <2> QED BY <2>1, SMTT(30) DEF Messages
<1> QED BY <1>4, <1>5, <1>6, <1>7 DEF Goes

\* A structure comes to an outcome if each of its fields does.
LEMMA StructTotal ==
    ASSUME NEW F, Len(F) \in Nat, \A i \in 1 .. Len(F) : Total(F[i][2])
    PROVE  Total(Struct(F))
<1> DEFINE N == Len(F)
<1>0. N \in Nat /\ \A i \in 1 .. N : Total(F[i][2])
  OBVIOUS
<1>1. \A w \in Messages : Struct(F).reads["keep"][w] = UnpackFields("keep", F, w)[N]
  BY DEF Struct, Coder, Modes
<1> SUFFICES ASSUME NEW w \in Messages PROVE Goes(UnpackFields("keep", F, w)[N], w)
  BY <1>1 DEF Total
<1> DEFINE R == UnpackFields("keep", F, w)
           S == {i \in 0 .. N : Goes(R[i], w)}
<1>2. R[0] = {Got(NoFields, w)}
  BY UnpackFieldsIs
<1>3. \A i \in 1 .. N : \A g : g \in R[i] <=> \E h \in R[i - 1] : g \in UnpackField("keep", F[i], h)
  BY UnpackFieldsIs, SMTT(30)
<1> HIDE DEF N, R
<1>4. 0 \in S
  <2>1. Len(w) <= Len(w) /\ 0 \in 0 .. N
    BY <1>0, SMTT(30) DEF Messages
  <2> QED BY <1>2, <2>1, OneGoes
<1>5. ASSUME NEW i \in 1 .. N, i - 1 \in S PROVE i \in S
  <2> DEFINE After(h) == UnpackField("keep", F[i], h)
  <2>1. Goes(R[i - 1], w)
    BY <1>5
  <2>2. ASSUME NEW h \in R[i - 1] PROVE Goes(After(h), h.rest)
    <3>1. h.rest \in Messages
      BY <2>1 DEF Goes
    <3>2. CASE IsCoded(F[i], h.v)
      <4> DEFINE T == F[i][2].reads["keep"][h.rest]
                 Put(x) == Got(With(h.v, F[i][1], x.v), x.rest)
      <4>1. After(h) = {Put(x) : x \in T}
        BY <3>2 DEF UnpackField
      <4>2. \A x : Put(x).rest = x.rest
        BY GotIs
      <4>3. Goes(T, h.rest)
        BY <1>0, <3>1 DEF Total
      <4> HIDE DEF After, Put, T
      <4> QED BY <4>1, <4>2, <4>3 DEF Goes
    <3>3. CASE ~IsCoded(F[i], h.v)
      <4>1. After(h) = {h}
        BY <3>3 DEF UnpackField
      <4>2. Len(h.rest) <= Len(h.rest)
        BY <3>1, SMTT(30) DEF Messages
      <4> HIDE DEF After
      <4> QED BY <3>1, <4>1, <4>2 DEF Goes
    <3> QED BY <3>2, <3>3
  <2>3. \A g : g \in R[i] <=> \E h \in R[i - 1] : g \in After(h)
    BY <1>3
  <2> HIDE DEF After
  <2>4. \A f \in R[i - 1] : Goes(After(f), f.rest)
    BY <2>2
  <2>5. ASSUME NEW g \in R[i] PROVE g.rest \in Messages /\ Len(g.rest) <= Len(w)
    <3>1. PICK f \in R[i - 1] : g \in After(f)
      BY <2>3
    <3>2. g.rest \in Messages /\ Len(g.rest) <= Len(f.rest) /\ f.rest \in Messages
          /\ Len(f.rest) <= Len(w)
      BY <2>1, <2>4, <3>1 DEF Goes
    <3> QED BY <3>2, SMTT(30) DEF Messages
  <2>6. R[i] # {}
    BY <2>1, <2>3, <2>4 DEF Goes
  <2>7. i \in 0 .. N
    BY <1>0, SMTT(30)
  <2> QED BY <2>5, <2>6, <2>7 DEF Goes
<1>6. N \in S
  <2> HIDE DEF S
  <2>1. \A k \in 0 .. N : k \in S
    BY <1>0, <1>4, <1>5, Induction
  <2> QED BY <1>0, <2>1, SMTT(30)
<1> QED BY <1>6 DEF R

\* The flag read from w, or a flag kept when there is none.
LEMMA FlagGoes ==
    ASSUME NEW w \in Messages, NEW m
    PROVE  /\ Goes(Flag("keep", m, w), w)
           /\ \E f \in Flag("keep", m, w) :
                f.v = << 0 >> \/ (Len(f.rest) < Len(w) /\ f.rest \in Messages)
<1> DEFINE kept == {<< 0 >>} \cup IF m < MaxList THEN {<< 1 >>} ELSE {}
<1>1. Flag("keep", m, w) = Take("keep", 1, w, kept)
  BY DEF Flag
<1>2. << 0 >> \in kept
  OBVIOUS
<1> HIDE DEF kept
<1>3. kept # {} /\ 1 \in Nat
  BY <1>2
<1>4. Goes(Flag("keep", m, w), w)
  BY <1>1, <1>3, TakeGoes
<1>5. CASE Len(w) >= 1
  <2> DEFINE f == Got(SubSeq(w, 1, 1), Drop(w, 1))
  <2>1. f \in Flag("keep", m, w)
    BY <1>1, <1>5 DEF Take
  <2>2. 1 \in 0 .. Len(w) /\ Len(w) \in Nat
    BY <1>5, SMTT(30) DEF Messages
  <2>3. Drop(w, 1) \in Messages /\ Len(Drop(w, 1)) = Len(w) - 1
    BY <2>2, Rest
  <2>4. Len(Drop(w, 1)) < Len(w)
    BY <2>2, <2>3, SMTT(30)
  <2>5. f.rest = Drop(w, 1)
    BY GotIs
  <2> HIDE DEF f
  <2> QED BY <1>4, <2>1, <2>3, <2>4, <2>5
<1>6. CASE ~(Len(w) >= 1)
  <2> DEFINE f == Got(<< 0 >>, w)
  <2>1. Flag("keep", m, w) = {Got(v, w) : v \in kept}
    BY <1>1, <1>6 DEF Take, ShortRead
  <2>2. f \in Flag("keep", m, w)
    BY <1>2, <2>1
  <2>3. f.v = << 0 >>
    BY GotIs
  <2> HIDE DEF f
  <2> QED BY <1>4, <2>2, <2>3
<1> QED BY <1>5, <1>6

\* The elements behind a flag that is not 0.
LEMMA MoreIs ==
    ASSUME NEW mode, NEW t, NEW more, NEW f, f.v # << 0 >>
    PROVE  \A g : g \in UnpackElement(mode, t, more, f) <=>
            \E x \in t.reads[mode][f.rest] : \E y \in more[x.rest] :
                g = Got(<<x.v>> \o y.v, y.rest)
<1> TAKE g
<1> DEFINE Both(x) == {Got(<<x.v>> \o y.v, y.rest) : y \in more[x.rest]}
<1>2. UnpackElement(mode, t, more, f) = UNION {Both(x) : x \in t.reads[mode][f.rest]}
  BY DEF UnpackElement
<1>3. \A x : g \in Both(x) <=> \E y \in more[x.rest] : g = Got(<<x.v>> \o y.v, y.rest)
  OBVIOUS
<1> HIDE DEF Both
<1> QED BY <1>2, <1>3

\* A list comes to an outcome if its elements do: each one takes its flag,
\* so that the message ends before the list can grow beyond Most(w).
LEMMA ListTotal ==
    ASSUME NEW t, Total(t)
    PROVE  Total(List(t))
<1>0. MaxList \in Nat
  BY MaxListAssumption
<1>1. \A w \in Messages : List(t).reads["keep"][w] = UnpackList("keep", t, Most(w))[Most(w)][w]
  BY DEF List, Coder, Modes
<1> SUFFICES ASSUME NEW most \in Nat, NEW v \in Messages, most > Len(v)
             PROVE  Goes(UnpackList("keep", t, most)[most][v], v)
  <2>1. \A w \in Messages : Most(w) \in Nat /\ Most(w) > Len(w)
    <3> TAKE w \in Messages
    <3>1. Len(w) \in Nat
      BY SMTT(30) DEF Messages
    <3> QED BY <1>0, <3>1, SMTT(30) DEF Most
  <2> QED BY <1>1, <2>1 DEF Total
<1> DEFINE R == UnpackList("keep", t, most)
           Within(k, w) == \A g \in R[k][w] : g.rest \in Messages /\ Len(g.rest) <= Len(w)
           S == {k \in 0 .. most : \A w \in Messages :
                                      Within(k, w) /\ (k > Len(w) => R[k][w] # {})}
<1>2. \A k \in 1 .. most : \A w \in Messages : \A g :
        g \in R[k][w] <=> \E f \in Flag("keep", most - k, w) :
                              g \in UnpackElement("keep", t, R[k - 1], f)
  BY UnpackListIs, SMTT(30)
<1>3. \A w \in Messages : R[0][w] = {}
  BY UnpackListIs, SMTT(30)
<1> HIDE DEF R
<1>4. 0 \in S
  <2>1. \A w \in Messages : ~(0 > Len(w))
    BY SMTT(30) DEF Messages
  <2>2. 0 \in 0 .. most
    BY SMTT(30)
  <2> QED BY <1>3, <2>1, <2>2
<1>5. ASSUME NEW k \in 1 .. most, k - 1 \in S PROVE k \in S
  <2>1. \A w \in Messages : Within(k - 1, w) /\ (k - 1 > Len(w) => R[k - 1][w] # {})
    BY <1>5
  <2> HIDE DEF S
  <2>2. ASSUME NEW w \in Messages PROVE Within(k, w) /\ (k > Len(w) => R[k][w] # {})
    <3> DEFINE more == R[k - 1]
               T == Flag("keep", most - k, w)
               After(f) == UnpackElement("keep", t, more, f)
    <3>1. \A g : g \in R[k][w] <=> \E f \in T : g \in After(f)
      BY <1>2
    <3>2. Goes(T, w) /\ \E f \in T : f.v = << 0 >> \/ (Len(f.rest) < Len(w) /\ f.rest \in Messages)
      BY FlagGoes
    <3>3. \A f : f.v = << 0 >> => After(f) = {Got(<<>>, f.rest)}
      BY DEF UnpackElement
    <3>4. \A f : f.v # << 0 >> =>
            \A g : g \in After(f) <=> \E x \in t.reads["keep"][f.rest] : \E y \in more[x.rest] :
                                          g = Got(<<x.v>> \o y.v, y.rest)
      BY MoreIs, SMTT(30)
    <3>5. \A f \in T : f.rest \in Messages /\ Len(f.rest) <= Len(w)
      BY <3>2 DEF Goes
    <3>6. \A z \in Messages : Goes(t.reads["keep"][z], z)
      BY DEF Total
    <3> HIDE DEF T, After
    <3>7. ASSUME NEW g \in R[k][w] PROVE g.rest \in Messages /\ Len(g.rest) <= Len(w)
      <4>1. PICK f \in T : g \in After(f)
        BY <3>1
      <4>2. CASE f.v = << 0 >>
        <5>1. g = Got(<<>>, f.rest)
          BY <3>3, <4>1, <4>2
        <5>2. g.rest = f.rest
          BY <5>1, GotIs
        <5> QED BY <3>5, <5>2
      <4>3. CASE f.v # << 0 >>
        <5>1. PICK x \in t.reads["keep"][f.rest] : \E y \in more[x.rest] :
                      g = Got(<<x.v>> \o y.v, y.rest)
          BY <3>4, <4>1, <4>3, SMTT(30)
        <5>2. PICK y \in more[x.rest] : g = Got(<<x.v>> \o y.v, y.rest)
          BY <5>1
        <5>3. x.rest \in Messages /\ Len(x.rest) <= Len(f.rest)
          BY <3>5, <3>6 DEF Goes
        <5>4. y.rest \in Messages /\ Len(y.rest) <= Len(x.rest)
          BY <2>1, <5>3
        <5>5. g.rest = y.rest
          BY <5>2, GotIs
        <5>6. f.rest \in Messages /\ Len(f.rest) <= Len(w)
          BY <3>5
        <5> QED BY <5>3, <5>4, <5>5, <5>6, SMTT(30) DEF Messages
      <4> QED BY <4>2, <4>3
    <3>8. ASSUME k > Len(w) PROVE R[k][w] # {}
      <4>1. PICK f \in T : f.v = << 0 >> \/ (Len(f.rest) < Len(w) /\ f.rest \in Messages)
        BY <3>2
      <4>2. CASE f.v = << 0 >>
        BY <3>1, <3>3, <4>2
      <4>3. CASE f.v # << 0 >>
        <5>1. PICK x \in t.reads["keep"][f.rest] : TRUE
          BY <3>5, <3>6 DEF Goes
        <5>2. x.rest \in Messages /\ Len(x.rest) <= Len(f.rest)
          BY <3>5, <3>6 DEF Goes
        <5>3. f.rest \in Messages /\ Len(f.rest) < Len(w)
          BY <4>1, <4>3
        <5>4. k - 1 > Len(x.rest)
          BY <3>8, <5>2, <5>3, SMTT(30) DEF Messages
        <5>5. PICK y \in more[x.rest] : TRUE
          BY <2>1, <5>2, <5>4
        <5>6. Got(<<x.v>> \o y.v, y.rest) \in After(f)
          BY <3>4, <4>3, <5>1, <5>5
        <5> QED BY <3>1, <5>6
      <4> QED BY <4>2, <4>3
    <3> QED BY <3>7, <3>8
  <2>3. k \in 0 .. most
    BY SMTT(30)
  <2> QED BY <2>2, <2>3 DEF S
<1>6. most \in S
  <2> HIDE DEF S
  <2>1. \A k \in 0 .. most : k \in S
    BY <1>4, <1>5, Induction
  <2> QED BY <2>1, SMTT(30)
<1>7. Within(most, v) /\ R[most][v] # {}
  BY <1>6
<1> QED BY <1>7 DEF R, Goes

\* A condition changes nothing of what is read when it holds.
LEMMA WhenRead ==
    ASSUME NEW u, NEW t, NEW on1, NEW S1, NEW on2, NEW S2, Understands(u, t)
    PROVE  Understands(When(on1, S1, u), When(on2, S2, t))
<1> DEFINE reader == When(on1, S1, u)
           writer == When(on2, S2, t)
<1>1. reader.reads = u.reads /\ writer.codes = t.codes
  BY DEF When
<1> HIDE DEF reader, writer
<1>2. ASSUME NEW n \in Nat, NEW c \in writer.codes[n]
      PROVE  /\ c.words \in Messages
             /\ \A mode \in Modes : \A w \in Messages :
                    reader.reads[mode][c.words \o w] = {Got(c.v, w)}
             /\ \A k \in 0 .. Len(c.words) - 1 :
                    reader.reads["fail"][SubSeq(c.words, 1, k)] = {}
  <2>1. c \in t.codes[n]
    BY <1>1
  <2>2. /\ c.words \in Messages
        /\ \A mode \in Modes : \A w \in Messages :
             u.reads[mode][c.words \o w] = {Got(c.v, w)}
        /\ \A k \in 0 .. Len(c.words) - 1 :
             u.reads["fail"][SubSeq(c.words, 1, k)] = {}
    BY <2>1 DEF Understands
  <2> QED BY <1>1, <2>2
<1>3. Understands(reader, writer)
  BY <1>2 DEF Understands
<1> QED BY <1>3 DEF reader, writer

\* Nor whether there is an outcome.
LEMMA WhenTotal ==
    ASSUME NEW t, NEW on, NEW S, Total(t)
    PROVE  Total(When(on, S, t))
<1>1. When(on, S, t).reads = t.reads
  BY DEF When
<1> QED BY <1>1 DEF Total

-----------------------------------------------------------------------------
(* Types that are read back, and the structures made of them. *)

\* t reads back what it packs, takes no part of it for the whole, and, when
\* it keeps what it has, always comes to an outcome.
Good(t) == Understands(t, t) /\ Total(t)

\* The primitive types are good.
LEMMA Primitives ==
    /\ \A m \in Nat : Good(Words(m))
    /\ \A S \in SUBSET Int : Good(Enum(S)) /\ Good(Local(S))
    /\ Good(u32) /\ Good(u64) /\ Good(boolean)
    /\ Good(opaque) /\ Good(bytes) /\ Good(string) /\ Good(verfOpaque)
    /\ Good(Sentinel(u32)) /\ Good(dataCount)
<1>1. 1 \in Nat /\ 2 \in Nat
  BY SMTT(30)
<1>2. ASSUME NEW m \in Nat PROVE Good(Words(m))
  BY WordsRead, WordsTotal, PlainRead DEF Good
<1>3. ASSUME NEW S \in SUBSET Int PROVE Good(Enum(S)) /\ Good(Local(S))
  BY <1>1, EnumRead, WordsTotal, PlainRead DEF Good
<1>4. Good(u32) /\ Good(u64)
  BY <1>1, <1>2 DEF u32, u64
<1>5. Good(boolean)
  BY BooleanRead, BooleanTotal DEF Good
<1>6. Good(opaque) /\ Good(bytes) /\ Good(string)
  BY OpaqueRead, OpaqueTotal, CountedRead DEF Good
<1>7. Good(verfOpaque)
  BY VerfRead, VerfTotal DEF Good
<1>8. Good(Sentinel(u32))
  BY <1>4, SentinelRead, SentinelTotal DEF Good
<1>9. {4 * Len(b) : b \in Data} \in SUBSET Int
  <2>1. \A b \in Data : 4 * Len(b) \in Int
    BY ValuesAssumption, SMTT(30)
  <2> QED BY <2>1
<1>10. Good(dataCount)
  BY <1>3, <1>9 DEF dataCount
<1> QED BY <1>2, <1>3, <1>4, <1>5, <1>6, <1>7, <1>8, <1>10

\* Options, flags, lists and conditional fields of a good type are good.
LEMMA Composites ==
    ASSUME NEW t, Good(t)
    PROVE  /\ Good(Opt(t)) /\ Good(OptLocal(t))
           /\ Good(Flagged(2, FALSE, TRUE, t))
           /\ Good(Bare(t)) /\ Good(List(t))
           /\ \A on, S : Good(When(on, S, t))
<1>1. 1 \in Int \ {0} /\ 2 \in Int \ {0}
  BY SMTT(30)
<1>2. \A on \in Int \ {0} : \A any, local : Good(Flagged(on, any, local, t))
  BY FlaggedRead, FlaggedTotal DEF Good
<1>3. Good(Opt(t)) /\ Good(OptLocal(t)) /\ Good(Flagged(2, FALSE, TRUE, t))
  BY <1>1, <1>2 DEF Opt, OptLocal
<1>4. Good(Bare(t)) /\ Good(List(t))
  BY BareRead, BareTotal, ListRead, ListTotal DEF Good
<1>5. \A on, S : Good(When(on, S, t))
  BY WhenRead, WhenTotal DEF Good
<1> QED BY <1>3, <1>4, <1>5

\* A list of fields whose types are good.
Fields(F) == (\E S : F \in Seq(S)) /\ \A i \in 1 .. Len(F) : Good(F[i][2])

\* Every structure laid out from good fields is good: what xdr_codec.hpp,
\* nfs3_xdr.cpp and nfs3_xdr.c pack of it they read back, field by field,
\* and they reject it wherever it is cut.  For any number of fields and any
\* values.
THEOREM StructGood ==
    ASSUME NEW F, Fields(F)
    PROVE  Good(Struct(F))
<1>0. PICK S : F \in Seq(S)
  BY DEF Fields
<1>1. Len(F) \in Nat /\ \A i \in 1 .. Len(F) : Good(F[i][2])
  BY <1>0, SeqIs DEF Fields
<1>2. Matches(F, F)
  BY <1>1 DEF Matches, Good
<1>3. Understands(Struct(F), Struct(F))
  BY <1>2, StructRead
<1>4. \A i \in 1 .. Len(F) : Total(F[i][2])
  BY <1>1 DEF Good
<1>5. Total(Struct(F))
  BY <1>1, <1>4, StructTotal
<1> QED BY <1>3, <1>5 DEF Good

\* Fields before other fields.
LEMMA FieldsConcat ==
    ASSUME NEW F, NEW G, Fields(F), Fields(G)
    PROVE  Fields(F \o G)
<1>1. PICK S : F \in Seq(S)
  BY DEF Fields
<1>2. PICK T : G \in Seq(T)
  BY DEF Fields
<1> DEFINE U == S \cup T
<1>3. F \in Seq(U) /\ G \in Seq(U)
  BY <1>1, <1>2, SMTT(30)
<1> HIDE DEF U
<1>4. /\ F \o G \in Seq(U)
      /\ Len(F) \in Nat /\ Len(G) \in Nat
      /\ Len(F \o G) = Len(F) + Len(G)
      /\ \A i \in 1 .. Len(F) + Len(G) :
            (F \o G)[i] = IF i <= Len(F) THEN F[i] ELSE G[i - Len(F)]
  BY <1>3, ConcatIs, SeqIs
<1>5. ASSUME NEW i \in 1 .. Len(F \o G) PROVE Good((F \o G)[i][2])
  <2>1. CASE i <= Len(F)
    <3>1. i \in 1 .. Len(F) /\ i \in 1 .. Len(F) + Len(G)
      BY <1>4, <2>1, SMTT(30)
    <3>2. (F \o G)[i] = F[i]
      BY <1>4, <2>1, <3>1
    <3> QED BY <3>1, <3>2 DEF Fields
  <2>2. CASE ~(i <= Len(F))
    <3>1. i - Len(F) \in 1 .. Len(G) /\ i \in 1 .. Len(F) + Len(G)
      BY <1>4, <2>2, SMTT(30)
    <3>2. (F \o G)[i] = G[i - Len(F)]
      BY <1>4, <2>2, <3>1
    <3> QED BY <3>1, <3>2 DEF Fields
  <2> QED BY <2>1, <2>2
<1> QED BY <1>4, <1>5 DEF Fields

\* No fields at all.
LEMMA NoField == Fields(<<>>)
<1>1. <<>> \in Seq({}) /\ Len(<<>>) = 0
  BY SMTT(30)
<1>2. \A i \in 1 .. Len(<<>>) : FALSE
  BY <1>1, SMTT(30)
<1> QED BY <1>1, <1>2 DEF Fields

\* 1 field of good types.
LEMMA Fields1 ==
    ASSUME NEW a1, NEW t1, Good(t1)
    PROVE  Fields(<< <<a1, t1>> >>)
<1> DEFINE F == << <<a1, t1>> >>
           S == {<<a1, t1>>}
<1>1. F \in Seq(S) /\ Len(F) = 1
  BY SMTT(30)
<1>2. F[1][2] = t1
  BY SMTT(30)
<1> HIDE DEF F, S
<1>3. \A i \in 1 .. Len(F) : Good(F[i][2])
  BY <1>1, <1>2, SMTT(30)
<1> QED BY <1>1, <1>3 DEF Fields, F

\* 2 fields of good types.
LEMMA Fields2 ==
    ASSUME NEW a1, NEW t1, NEW a2, NEW t2, Good(t1), Good(t2)
    PROVE  Fields(<< <<a1, t1>>, <<a2, t2>> >>)
<1> DEFINE F == << <<a1, t1>>, <<a2, t2>> >>
           S == {<<a1, t1>>, <<a2, t2>>}
<1>1. F \in Seq(S) /\ Len(F) = 2
  BY SMTT(30)
<1>2. F[1][2] = t1 /\ F[2][2] = t2
  BY SMTT(30)
<1> HIDE DEF F, S
<1>3. \A i \in 1 .. Len(F) : Good(F[i][2])
  BY <1>1, <1>2, SMTT(30)
<1> QED BY <1>1, <1>3 DEF Fields, F

\* 3 fields of good types.
LEMMA Fields3 ==
    ASSUME NEW a1, NEW t1, NEW a2, NEW t2, NEW a3, NEW t3, Good(t1), Good(t2),
           Good(t3)
    PROVE  Fields(<< <<a1, t1>>, <<a2, t2>>, <<a3, t3>> >>)
<1> DEFINE F == << <<a1, t1>>, <<a2, t2>>, <<a3, t3>> >>
           S == {<<a1, t1>>, <<a2, t2>>, <<a3, t3>>}
<1>1. F \in Seq(S) /\ Len(F) = 3
  BY SMTT(30)
<1>2. F[1][2] = t1 /\ F[2][2] = t2 /\ F[3][2] = t3
  BY SMTT(30)
<1> HIDE DEF F, S
<1>3. \A i \in 1 .. Len(F) : Good(F[i][2])
  BY <1>1, <1>2, SMTT(30)
<1> QED BY <1>1, <1>3 DEF Fields, F

\* 4 fields of good types.
LEMMA Fields4 ==
    ASSUME NEW a1, NEW t1, NEW a2, NEW t2, NEW a3, NEW t3, NEW a4, NEW t4,
           Good(t1), Good(t2), Good(t3), Good(t4)
    PROVE  Fields(<< <<a1, t1>>, <<a2, t2>>, <<a3, t3>>, <<a4, t4>> >>)
<1> DEFINE F == << <<a1, t1>>, <<a2, t2>>, <<a3, t3>>, <<a4, t4>> >>
           S == {<<a1, t1>>, <<a2, t2>>, <<a3, t3>>, <<a4, t4>>}
<1>1. F \in Seq(S) /\ Len(F) = 4
  BY SMTT(30)
<1>2. F[1][2] = t1 /\ F[2][2] = t2 /\ F[3][2] = t3 /\ F[4][2] = t4
  BY SMTT(30)
<1> HIDE DEF F, S
<1>3. \A i \in 1 .. Len(F) : Good(F[i][2])
  BY <1>1, <1>2, SMTT(30)
<1> QED BY <1>1, <1>3 DEF Fields, F

\* 5 fields of good types.
LEMMA Fields5 ==
    ASSUME NEW a1, NEW t1, NEW a2, NEW t2, NEW a3, NEW t3, NEW a4, NEW t4, NEW
           a5, NEW t5, Good(t1), Good(t2), Good(t3), Good(t4), Good(t5)
    PROVE  Fields(<< <<a1, t1>>, <<a2, t2>>, <<a3, t3>>, <<a4, t4>>, <<a5,
                  t5>> >>)
<1> DEFINE F == << <<a1, t1>>, <<a2, t2>>, <<a3, t3>>, <<a4, t4>>, <<a5, t5>>
                 >>
           S == {<<a1, t1>>, <<a2, t2>>, <<a3, t3>>, <<a4, t4>>, <<a5, t5>>}
<1>1. F \in Seq(S) /\ Len(F) = 5
  BY SMTT(30)
<1>2. F[1][2] = t1 /\ F[2][2] = t2 /\ F[3][2] = t3 /\ F[4][2] = t4 /\ F[5][2]
      = t5
  BY SMTT(30)
<1> HIDE DEF F, S
<1>3. \A i \in 1 .. Len(F) : Good(F[i][2])
  BY <1>1, <1>2, SMTT(30)
<1> QED BY <1>1, <1>3 DEF Fields, F

\* 6 fields of good types.
LEMMA Fields6 ==
    ASSUME NEW a1, NEW t1, NEW a2, NEW t2, NEW a3, NEW t3, NEW a4, NEW t4, NEW
           a5, NEW t5, NEW a6, NEW t6, Good(t1), Good(t2), Good(t3), Good(t4),
           Good(t5), Good(t6)
    PROVE  Fields(<< <<a1, t1>>, <<a2, t2>>, <<a3, t3>>, <<a4, t4>>, <<a5,
                  t5>>, <<a6, t6>> >>)
<1> DEFINE F == << <<a1, t1>>, <<a2, t2>>, <<a3, t3>>, <<a4, t4>>, <<a5,
                 t5>>, <<a6, t6>> >>
           S == {<<a1, t1>>, <<a2, t2>>, <<a3, t3>>, <<a4, t4>>, <<a5, t5>>,
                 <<a6, t6>>}
<1>1. F \in Seq(S) /\ Len(F) = 6
  BY SMTT(30)
<1>2. F[1][2] = t1 /\ F[2][2] = t2 /\ F[3][2] = t3 /\ F[4][2] = t4 /\ F[5][2]
      = t5 /\ F[6][2] = t6
  BY SMTT(30)
<1> HIDE DEF F, S
<1>3. \A i \in 1 .. 6 :
        i = 1 \/ i = 2 \/ i = 3 \/ i = 4 \/ i = 5 \/ i = 6
  BY SMTT(30)
<1>4. \A i \in 1 .. Len(F) : Good(F[i][2])
  BY <1>1, <1>2, <1>3
<1> QED BY <1>1, <1>4 DEF Fields, F

\* 7 fields of good types.
LEMMA Fields7 ==
    ASSUME NEW a1, NEW t1, NEW a2, NEW t2, NEW a3, NEW t3, NEW a4, NEW t4, NEW
           a5, NEW t5, NEW a6, NEW t6, NEW a7, NEW t7, Good(t1), Good(t2),
           Good(t3), Good(t4), Good(t5), Good(t6), Good(t7)
    PROVE  Fields(<< <<a1, t1>>, <<a2, t2>>, <<a3, t3>>, <<a4, t4>>, <<a5,
                  t5>>, <<a6, t6>>, <<a7, t7>> >>)
<1> DEFINE F == << <<a1, t1>>, <<a2, t2>>, <<a3, t3>>, <<a4, t4>>, <<a5,
                 t5>>, <<a6, t6>>, <<a7, t7>> >>
           S == {<<a1, t1>>, <<a2, t2>>, <<a3, t3>>, <<a4, t4>>, <<a5, t5>>,
                 <<a6, t6>>, <<a7, t7>>}
<1>1. F \in Seq(S) /\ Len(F) = 7
  BY SMTT(30)
<1>2. F[1][2] = t1 /\ F[2][2] = t2 /\ F[3][2] = t3 /\ F[4][2] = t4 /\ F[5][2]
      = t5 /\ F[6][2] = t6 /\ F[7][2] = t7
  BY SMTT(30)
<1> HIDE DEF F, S
<1>3. \A i \in 1 .. 7 :
        i = 1 \/ i = 2 \/ i = 3 \/ i = 4 \/ i = 5 \/ i = 6 \/ i = 7
  BY SMTT(30)
<1>4. \A i \in 1 .. Len(F) : Good(F[i][2])
  BY <1>1, <1>2, <1>3
<1> QED BY <1>1, <1>4 DEF Fields, F

\* 8 fields of good types.
LEMMA Fields8 ==
    ASSUME NEW a1, NEW t1, NEW a2, NEW t2, NEW a3, NEW t3, NEW a4, NEW t4, NEW
           a5, NEW t5, NEW a6, NEW t6, NEW a7, NEW t7, NEW a8, NEW t8,
           Good(t1), Good(t2), Good(t3), Good(t4), Good(t5), Good(t6),
           Good(t7), Good(t8)
    PROVE  Fields(<< <<a1, t1>>, <<a2, t2>>, <<a3, t3>>, <<a4, t4>>, <<a5,
                  t5>>, <<a6, t6>>, <<a7, t7>>, <<a8, t8>> >>)
<1> DEFINE F == << <<a1, t1>>, <<a2, t2>>, <<a3, t3>>, <<a4, t4>>, <<a5,
                 t5>>, <<a6, t6>>, <<a7, t7>>, <<a8, t8>> >>
           S == {<<a1, t1>>, <<a2, t2>>, <<a3, t3>>, <<a4, t4>>, <<a5, t5>>,
                 <<a6, t6>>, <<a7, t7>>, <<a8, t8>>}
<1>1. F \in Seq(S) /\ Len(F) = 8
  BY SMTT(30)
<1>2. F[1][2] = t1 /\ F[2][2] = t2 /\ F[3][2] = t3 /\ F[4][2] = t4 /\ F[5][2]
      = t5 /\ F[6][2] = t6 /\ F[7][2] = t7 /\ F[8][2] = t8
  BY SMTT(30)
<1> HIDE DEF F, S
<1>3. \A i \in 1 .. 8 :
        i = 1 \/ i = 2 \/ i = 3 \/ i = 4 \/ i = 5 \/ i = 6 \/ i = 7 \/ i = 8
  BY SMTT(30)
<1>4. \A i \in 1 .. Len(F) : Good(F[i][2])
  BY <1>1, <1>2, <1>3
<1> QED BY <1>1, <1>4 DEF Fields, F

\* 11 fields of good types.
LEMMA Fields11 ==
    ASSUME NEW a1, NEW t1, NEW a2, NEW t2, NEW a3, NEW t3, NEW a4, NEW t4, NEW
           a5, NEW t5, NEW a6, NEW t6, NEW a7, NEW t7, NEW a8, NEW t8, NEW a9,
           NEW t9, NEW a10, NEW t10, NEW a11, NEW t11, Good(t1), Good(t2),
           Good(t3), Good(t4), Good(t5), Good(t6), Good(t7), Good(t8),
           Good(t9), Good(t10), Good(t11)
    PROVE  Fields(<< <<a1, t1>>, <<a2, t2>>, <<a3, t3>>, <<a4, t4>>, <<a5,
                  t5>>, <<a6, t6>>, <<a7, t7>>, <<a8, t8>>, <<a9, t9>>, <<a10,
                  t10>>, <<a11, t11>> >>)
<1> DEFINE F == << <<a1, t1>>, <<a2, t2>>, <<a3, t3>>, <<a4, t4>>, <<a5,
                 t5>>, <<a6, t6>>, <<a7, t7>>, <<a8, t8>>, <<a9, t9>>, <<a10,
                 t10>>, <<a11, t11>> >>
           S == {<<a1, t1>>, <<a2, t2>>, <<a3, t3>>, <<a4, t4>>, <<a5, t5>>,
                 <<a6, t6>>, <<a7, t7>>, <<a8, t8>>, <<a9, t9>>, <<a10, t10>>,
                 <<a11, t11>>}
<1>1. F \in Seq(S) /\ Len(F) = 11
  BY SMTT(30)
<1>2. F[1][2] = t1 /\ F[2][2] = t2 /\ F[3][2] = t3 /\ F[4][2] = t4 /\ F[5][2]
      = t5 /\ F[6][2] = t6 /\ F[7][2] = t7 /\ F[8][2] = t8 /\ F[9][2] = t9 /\
      F[10][2] = t10 /\ F[11][2] = t11
  BY SMTT(30)
<1> HIDE DEF F, S
<1>3. \A i \in 1 .. 11 :
        i = 1 \/ i = 2 \/ i = 3 \/ i = 4 \/ i = 5 \/ i = 6 \/ i = 7 \/ i = 8
        \/ i = 9 \/ i = 10 \/ i = 11
  BY SMTT(30)
<1>4. \A i \in 1 .. Len(F) : Good(F[i][2])
  BY <1>1, <1>2, <1>3
<1> QED BY <1>1, <1>4 DEF Fields, F

\* 12 fields of good types.
LEMMA Fields12 ==
    ASSUME NEW a1, NEW t1, NEW a2, NEW t2, NEW a3, NEW t3, NEW a4, NEW t4, NEW
           a5, NEW t5, NEW a6, NEW t6, NEW a7, NEW t7, NEW a8, NEW t8, NEW a9,
           NEW t9, NEW a10, NEW t10, NEW a11, NEW t11, NEW a12, NEW t12,
           Good(t1), Good(t2), Good(t3), Good(t4), Good(t5), Good(t6),
           Good(t7), Good(t8), Good(t9), Good(t10), Good(t11), Good(t12)
    PROVE  Fields(<< <<a1, t1>>, <<a2, t2>>, <<a3, t3>>, <<a4, t4>>, <<a5,
                  t5>>, <<a6, t6>>, <<a7, t7>>, <<a8, t8>>, <<a9, t9>>, <<a10,
                  t10>>, <<a11, t11>>, <<a12, t12>> >>)
<1> DEFINE F == << <<a1, t1>>, <<a2, t2>>, <<a3, t3>>, <<a4, t4>>, <<a5,
                 t5>>, <<a6, t6>>, <<a7, t7>>, <<a8, t8>>, <<a9, t9>>, <<a10,
                 t10>>, <<a11, t11>>, <<a12, t12>> >>
           S == {<<a1, t1>>, <<a2, t2>>, <<a3, t3>>, <<a4, t4>>, <<a5, t5>>,
                 <<a6, t6>>, <<a7, t7>>, <<a8, t8>>, <<a9, t9>>, <<a10, t10>>,
                 <<a11, t11>>, <<a12, t12>>}
<1>1. F \in Seq(S) /\ Len(F) = 12
  BY SMTT(30)
<1>2. F[1][2] = t1 /\ F[2][2] = t2 /\ F[3][2] = t3 /\ F[4][2] = t4 /\ F[5][2]
      = t5 /\ F[6][2] = t6 /\ F[7][2] = t7 /\ F[8][2] = t8 /\ F[9][2] = t9 /\
      F[10][2] = t10 /\ F[11][2] = t11 /\ F[12][2] = t12
  BY SMTT(30)
<1> HIDE DEF F, S
<1>3. \A i \in 1 .. 12 :
        i = 1 \/ i = 2 \/ i = 3 \/ i = 4 \/ i = 5 \/ i = 6 \/ i = 7 \/ i = 8
        \/ i = 9 \/ i = 10 \/ i = 11 \/ i = 12
  BY SMTT(30)
<1>4. \A i \in 1 .. Len(F) : Good(F[i][2])
  BY <1>1, <1>2, <1>3
<1> QED BY <1>1, <1>4 DEF Fields, F

\* 13 fields of good types.
LEMMA Fields13 ==
    ASSUME NEW a1, NEW t1, NEW a2, NEW t2, NEW a3, NEW t3, NEW a4, NEW t4, NEW
           a5, NEW t5, NEW a6, NEW t6, NEW a7, NEW t7, NEW a8, NEW t8, NEW a9,
           NEW t9, NEW a10, NEW t10, NEW a11, NEW t11, NEW a12, NEW t12, NEW
           a13, NEW t13, Good(t1), Good(t2), Good(t3), Good(t4), Good(t5),
           Good(t6), Good(t7), Good(t8), Good(t9), Good(t10), Good(t11),
           Good(t12), Good(t13)
    PROVE  Fields(<< <<a1, t1>>, <<a2, t2>>, <<a3, t3>>, <<a4, t4>>, <<a5,
                  t5>>, <<a6, t6>>, <<a7, t7>>, <<a8, t8>>, <<a9, t9>>, <<a10,
                  t10>>, <<a11, t11>>, <<a12, t12>>, <<a13, t13>> >>)
<1> DEFINE F == << <<a1, t1>>, <<a2, t2>>, <<a3, t3>>, <<a4, t4>>, <<a5,
                 t5>>, <<a6, t6>>, <<a7, t7>>, <<a8, t8>>, <<a9, t9>>, <<a10,
                 t10>>, <<a11, t11>>, <<a12, t12>>, <<a13, t13>> >>
           S == {<<a1, t1>>, <<a2, t2>>, <<a3, t3>>, <<a4, t4>>, <<a5, t5>>,
                 <<a6, t6>>, <<a7, t7>>, <<a8, t8>>, <<a9, t9>>, <<a10, t10>>,
                 <<a11, t11>>, <<a12, t12>>, <<a13, t13>>}
<1>1. F \in Seq(S) /\ Len(F) = 13
  BY SMTT(30)
<1>2. F[1][2] = t1 /\ F[2][2] = t2 /\ F[3][2] = t3 /\ F[4][2] = t4 /\ F[5][2]
      = t5 /\ F[6][2] = t6 /\ F[7][2] = t7 /\ F[8][2] = t8 /\ F[9][2] = t9 /\
      F[10][2] = t10 /\ F[11][2] = t11 /\ F[12][2] = t12 /\ F[13][2] = t13
  BY SMTT(30)
<1> HIDE DEF F, S
<1>3. \A i \in 1 .. 13 :
        i = 1 \/ i = 2 \/ i = 3 \/ i = 4 \/ i = 5 \/ i = 6 \/ i = 7 \/ i = 8
        \/ i = 9 \/ i = 10 \/ i = 11 \/ i = 12 \/ i = 13
  BY SMTT(30)
<1>4. \A i \in 1 .. Len(F) : Good(F[i][2])
  BY <1>1, <1>2, <1>3
<1> QED BY <1>1, <1>4 DEF Fields, F

-----------------------------------------------------------------------------
(* The status is the first word. *)

\* The structure v has the status x.
HasStatus(v, x) == "status" \in DOMAIN v /\ v.status = x

\* The status, once put, is there.
LEMMA StatusPut ==
    ASSUME NEW v, NEW x
    PROVE  HasStatus(With(v, "status", x), x)
  BY SMTT(30) DEF HasStatus, With

\* Later fields leave the status alone.
LEMMA StatusKept ==
    ASSUME NEW v, NEW x, NEW a, a # "status", NEW y, HasStatus(v, x)
    PROVE  HasStatus(With(v, a, y), x)
  BY SMTT(30) DEF HasStatus, With

\* The first field is the status, and no other has its name.
StatusFirst(F) ==
    /\ 1 \in 1 .. Len(F)
    /\ F[1][1] = "status"
    /\ F[1][2].k = "always"
    /\ PacksWords(F[1][2], 1)
    /\ \E kept : ReadsWords(F[1][2], 1, kept)
    /\ \A i \in 2 .. Len(F) : F[i][1] # "status"

\* Whatever follows the first word, and however short the message is, a
\* reader that goes on has that word for its status.
LEMMA StatusRead ==
    ASSUME NEW F, Fields(F), StatusFirst(F), NEW w \in Messages, w # <<>>
    PROVE  \A g \in Struct(F).reads["keep"][w] : HasStatus(g.v, SubSeq(w, 1, 1))
<1> DEFINE N == Len(F)
           R == UnpackFields("keep", F, w)
           x == SubSeq(w, 1, 1)
           S == {k \in 0 .. N : k # 0 => \A g \in R[k] : HasStatus(g.v, x)}
<1>1. N \in Nat /\ 1 \in 1 .. N
  BY SeqIs DEF Fields, StatusFirst
<1>2. Struct(F).reads["keep"][w] = R[N]
  BY DEF Struct, Coder, Modes
<1>3. R[0] = {Got(NoFields, w)}
  BY <1>1, UnpackFieldsIs, SMTT(30)
<1>4. \A i \in 1 .. N : \A g : g \in R[i] <=>
        \E h \in R[i - 1] : g \in UnpackField("keep", F[i], h)
  BY <1>1, UnpackFieldsIs, SMTT(30)
<1> HIDE DEF R, N
<1>5. 0 \in S
  BY <1>1, SMTT(30)
<1>6. \A g \in R[1] : HasStatus(g.v, x)
  <2>1. PICK kept : ReadsWords(F[1][2], 1, kept)
    BY DEF StatusFirst
  <2>2. F[1][2].reads["keep"][w] = Take("keep", 1, w, kept)
    BY <2>1 DEF ReadsWords, Modes
  <2>3. Len(w) >= 1
    BY SMTT(30) DEF Messages
  <2>4. \A y \in F[1][2].reads["keep"][w] : y.v = x
    BY <2>2, <2>3, GotIs DEF Take
  <2>5. F[1][1] = "status" /\ \A v : IsCoded(F[1], v)
    BY DEF StatusFirst, IsCoded
  <2>6. \A g \in UnpackField("keep", F[1], Got(NoFields, w)) :
            \E y \in F[1][2].reads["keep"][w] : g = Got(With(NoFields, "status", y.v), y.rest)
    BY <2>5, CodedFieldIs, SMTT(30)
  <2> SUFFICES ASSUME NEW g \in R[1] PROVE HasStatus(g.v, x)
    OBVIOUS
  <2>7. 1 - 1 = 0
    BY SMTT(30)
  <2>8. g \in UnpackField("keep", F[1], Got(NoFields, w))
    BY <1>1, <1>3, <1>4, <2>7, SMTT(30)
  <2>9. PICK y \in F[1][2].reads["keep"][w] : g = Got(With(NoFields, "status", y.v), y.rest)
    BY <2>6, <2>8
  <2>10. g.v = With(NoFields, "status", y.v)
    BY <2>9, GotIs
  <2> QED BY <2>4, <2>10, StatusPut
<1>7. ASSUME NEW k \in 1 .. N, k - 1 \in S PROVE k \in S
  <2>1. k \in 0 .. N
    BY SMTT(30)
  <2> SUFFICES ASSUME NEW g \in R[k] PROVE HasStatus(g.v, x)
    BY <2>1
  <2>2. CASE k = 1
    BY <1>6, <2>2
  <2>3. CASE k # 1
    <3>1. k \in 2 .. N /\ k - 1 # 0
      BY <1>1, <2>3, SMTT(30)
    <3>2. F[k][1] # "status"
      BY <3>1 DEF StatusFirst, N
    <3>3. PICK h \in R[k - 1] : g \in UnpackField("keep", F[k], h)
      BY <1>4
    <3>4. HasStatus(h.v, x)
      BY <1>7, <3>1
    <3> HIDE DEF S, x
    <3>5. g = h \/ \E y : g = Got(With(h.v, F[k][1], y.v), y.rest)
      BY <3>3 DEF UnpackField
    <3>6. ASSUME NEW y, g = Got(With(h.v, F[k][1], y.v), y.rest)
          PROVE  HasStatus(g.v, x)
      <4>1. g.v = With(h.v, F[k][1], y.v)
        BY <3>6, GotIs
      <4> QED BY <3>2, <3>4, <4>1, StatusKept
    <3> QED BY <3>4, <3>5, <3>6
  <2> QED BY <2>2, <2>3
<1>8. N \in S
  <2> HIDE DEF S
  <2>1. \A k \in 0 .. N : k \in S
    BY <1>1, <1>5, <1>7, Induction
  <2> QED BY <1>1, <2>1, SMTT(30)
<1>9. N # 0
  BY <1>1, SMTT(30)
<1> QED BY <1>2, <1>8, <1>9

\* The first word of what is packed is the status.
LEMMA StatusPacked ==
    ASSUME NEW F, Fields(F), StatusFirst(F), NEW n \in Nat, NEW c \in Struct(F).codes[n]
    PROVE  c.words \in Messages /\ c.words # <<>> /\ HasStatus(c.v, SubSeq(c.words, 1, 1))
<1> DEFINE N == Len(F)
           P == PackFields(F, n)
           Holds(b) == /\ b.words \in Messages
                       /\ b.words # <<>>
                       /\ HasStatus(b.v, SubSeq(b.words, 1, 1))
           S == {k \in 0 .. N : k # 0 => \A b \in P[k] : Holds(b)}
<1>1. N \in Nat /\ 1 \in 1 .. N
  BY SeqIs DEF Fields, StatusFirst
<1>2. c \in P[N]
  BY DEF Struct, Coder
<1>3. P[0] = {Code(NoFields, <<>>)}
  BY <1>1, PackFieldsIs, SMTT(30)
<1>4. \A i \in 1 .. N : \A b : b \in P[i] <=>
        \E a \in P[i - 1] : b \in PackField(F[i], 16 * n + i - 1, a)
  BY <1>1, PackFieldsIs, SMTT(30)
<1> HIDE DEF P, N
<1>5. 0 \in S
  BY <1>1, SMTT(30)
<1>6. \A b \in P[1] : Holds(b)
  <2> SUFFICES ASSUME NEW b \in P[1] PROVE Holds(b)
    OBVIOUS
  <2>1. F[1][1] = "status" /\ \A v : IsCoded(F[1], v)
    BY DEF StatusFirst, IsCoded
  <2>2. 1 - 1 = 0 /\ 16 * n + 1 - 1 \in Nat
    BY SMTT(30)
  <2>3. b \in PackField(F[1], 16 * n + 1 - 1, Code(NoFields, <<>>))
    <3>1. PICK a \in P[1 - 1] : b \in PackField(F[1], 16 * n + 1 - 1, a)
      BY <1>1, <1>4
    <3>2. a = Code(NoFields, <<>>)
      BY <1>3, <2>2
    <3> QED BY <3>1, <3>2
  <2> DEFINE m == 16 * n + 1 - 1
  <2> HIDE DEF m
  <2>4. m \in Nat /\ b \in PackField(F[1], m, Code(NoFields, <<>>))
    BY <2>2, <2>3 DEF m
  <2>5. PICK y \in F[1][2].codes[m] :
            b = Code(With(NoFields, "status", y.v), <<>> \o y.words)
    BY <2>1, <2>4, CodeIs DEF PackField
  <2>6. PacksWords(F[1][2], 1)
    BY DEF StatusFirst
  <2>7. PICK z \in Messages : Len(z) = 1 /\ y = Code(z, z)
    BY <2>4, <2>6 DEF PacksWords
  <2>8. y.v = z /\ y.words = z
    BY <2>7, CodeIs
  <2>9. <<>> \o z = z
    BY ConcatEmpty DEF Messages
  <2>10. b.v = With(NoFields, "status", z) /\ b.words = z
    BY <2>5, <2>8, <2>9, CodeIs
  <2>11. SubSeq(z, 1, 1) = z /\ z # <<>>
    <3>1. <<>> \in Messages /\ Len(<<>>) # 1
      BY SMTT(30) DEF Messages
    <3>2. z \o <<>> = z
      BY ConcatEmpty DEF Messages
    <3>3. SubSeq(z \o <<>>, 1, Len(z)) = z
      BY <3>1, Concat
    <3> QED BY <2>7, <3>1, <3>2, <3>3
  <2> QED BY <2>10, <2>11, StatusPut
<1>7. ASSUME NEW k \in 1 .. N, k - 1 \in S PROVE k \in S
  <2>1. k \in 0 .. N /\ 16 * n + k - 1 \in Nat
    BY SMTT(30)
  <2> SUFFICES ASSUME NEW b \in P[k] PROVE Holds(b)
    BY <2>1
  <2>2. CASE k = 1
    BY <1>6, <2>2
  <2>3. CASE k # 1
    <3>1. k \in 2 .. N /\ k - 1 # 0
      BY <1>1, <2>3, SMTT(30)
    <3>2. F[k][1] # "status" /\ Good(F[k][2])
      BY <3>1 DEF StatusFirst, Fields, N
    <3>3. PICK a \in P[k - 1] : b \in PackField(F[k], 16 * n + k - 1, a)
      BY <1>4
    <3>4. Holds(a)
      BY <1>7, <3>1
    <3> DEFINE m == 16 * n + k - 1
    <3> HIDE DEF S, m
    <3>5. m \in Nat /\ b \in PackField(F[k], m, a)
      BY <2>1, <3>3 DEF m
    <3>6. CASE b = a
      BY <3>4, <3>6
    <3>7. CASE b # a
      <4>1. PICK y \in F[k][2].codes[m] : b = Code(With(a.v, F[k][1], y.v), a.words \o y.words)
        BY <3>5, <3>7 DEF PackField
      <4>2. y.words \in Messages
        BY <3>2, <3>5 DEF Good, Understands
      <4>3. b.v = With(a.v, F[k][1], y.v) /\ b.words = a.words \o y.words
        BY <4>1, CodeIs
      <4> DEFINE s == a.words
                 t == y.words
      <4>4. s \in Messages /\ t \in Messages /\ s # <<>>
        BY <3>4, <4>2
      <4> HIDE DEF s, t
      <4>5. s \o t \in Messages /\ s \o t # <<>> /\ SubSeq(s \o t, 1, 1) = SubSeq(s, 1, 1)
        BY <4>4, SMTT(30) DEF Messages
      <4>6. HasStatus(b.v, SubSeq(s, 1, 1))
        BY <3>2, <3>4, <4>3, StatusKept DEF s
      <4>7. b.words = s \o t
        BY <4>3 DEF s, t
      <4> QED BY <4>5, <4>6, <4>7
    <3> QED BY <3>6, <3>7
  <2> QED BY <2>2, <2>3
<1>8. N \in S
  <2> HIDE DEF S
  <2>1. \A k \in 0 .. N : k \in S
    BY <1>1, <1>5, <1>7, Induction
  <2> QED BY <1>1, <2>1, SMTT(30)
<1>9. N # 0
  BY <1>1, SMTT(30)
<1> QED BY <1>2, <1>8, <1>9

-----------------------------------------------------------------------------
(* What the filters drop in decoding: the entries of a listing and the data
   of WRITE.  What they pack is what a type without it packs. *)

\* What Lost(t) reads, as if it had been written.
Blank(t) ==
    Coder(LAMBDA n : {Code(<<>>, c.words) : c \in t.codes[n]}, LAMBDA mode, w : {})

\* A filter that drops what it decodes reads every value as an empty one.
LEMMA LostRead ==
    ASSUME NEW t, Understands(t, t)
    PROVE  Understands(Lost(t), Blank(t))
<1> DEFINE Put(g) == Got(<<>>, g.rest)
<1>1. \A mode \in Modes : \A w \in Messages :
        Lost(t).reads[mode][w] = {Put(g) : g \in t.reads[mode][w]}
  BY DEF Lost, Coder
<1>2. \A n \in Nat : Blank(t).codes[n] = {Code(<<>>, c.words) : c \in t.codes[n]}
  BY DEF Blank, Coder
<1> SUFFICES ASSUME NEW n \in Nat, NEW c \in Blank(t).codes[n]
             PROVE  /\ c.words \in Messages
                    /\ \A mode \in Modes : \A w \in Messages :
                        Lost(t).reads[mode][c.words \o w] = {Got(c.v, w)}
                    /\ \A k \in 0 .. Len(c.words) - 1 :
                        Lost(t).reads["fail"][SubSeq(c.words, 1, k)] = {}
  BY DEF Understands
<1>3. PICK x \in t.codes[n] : c = Code(<<>>, x.words)
  BY <1>2
<1>4. c.v = <<>> /\ c.words = x.words
  BY <1>3, CodeIs
<1>5. /\ x.words \in Messages
      /\ \A mode \in Modes : \A w \in Messages :
            t.reads[mode][x.words \o w] = {Got(x.v, w)}
      /\ \A k \in 0 .. Len(x.words) - 1 :
            t.reads["fail"][SubSeq(x.words, 1, k)] = {}
  BY DEF Understands
<1> DEFINE s == x.words
<1>6. s \in Messages /\ c.words = s
  BY <1>4, <1>5
<1> HIDE DEF s
<1>7. ASSUME NEW mode \in Modes, NEW w \in Messages
      PROVE  Lost(t).reads[mode][s \o w] = {Got(<<>>, w)}
  <2>1. s \o w \in Messages
    BY <1>6, Concat
  <2>2. t.reads[mode][s \o w] = {Got(x.v, w)}
    BY <1>5 DEF s
  <2>3. Put(Got(x.v, w)) = Got(<<>>, w)
    BY GotIs
  <2>4. Lost(t).reads[mode][s \o w] = {Put(g) : g \in t.reads[mode][s \o w]}
    BY <1>1, <2>1
  <2> HIDE DEF Put
  <2> QED BY <2>2, <2>3, <2>4, SMTT(30)
<1>8. ASSUME NEW k \in 0 .. Len(s) - 1
      PROVE  Lost(t).reads["fail"][SubSeq(s, 1, k)] = {}
  <2>1. SubSeq(s, 1, k) \in Messages /\ "fail" \in Modes
    BY <1>6, Prefix DEF Modes
  <2>2. t.reads["fail"][SubSeq(s, 1, k)] = {}
    BY <1>5 DEF s
  <2> HIDE DEF Put
  <2>3. Lost(t).reads["fail"][SubSeq(s, 1, k)] = {Put(g) : g \in t.reads["fail"][SubSeq(s, 1, k)]}
    BY <1>1, <2>1
  <2> QED BY <2>2, <2>3
<1> QED BY <1>4, <1>6, <1>7, <1>8

\* v without what the path p leads to.
Erased(p, v) ==
    CASE p = "all" -> <<>>
      [] p = "data" -> [v EXCEPT !.data = <<>>]
      [] p = "entries" -> [v EXCEPT !.entries = <<>>]
      [] p = "reply" -> [v EXCEPT !.reply.entries = <<>>]
      [] p = "resok" -> [v EXCEPT !.resok.reply.entries = <<>>]

\* What t packs, u packs too, but for what p erases.
Turns(t, u, p) ==
    \A n \in Nat : \A x \in t.codes[n] :
        x \in u.codes[n] \/ Code(Erased(p, x.v), x.words) \in u.codes[n]

\* Erasing, one step of the path at a time.
LEMMA ErasedIs ==
    ASSUME NEW v
    PROVE  /\ Erased("all", v) = <<>>
           /\ Erased("data", v) = [v EXCEPT !["data"] = Erased("all", v["data"])]
           /\ Erased("entries", v) = [v EXCEPT !["entries"] = Erased("all", v["entries"])]
           /\ Erased("reply", v) = [v EXCEPT !["reply"] = Erased("entries", v["reply"])]
           /\ Erased("resok", v) = [v EXCEPT !["resok"] = Erased("reply", v["resok"])]
<1>1. \A w : Erased("all", w) = <<>>
  BY DEF Erased
<1>2. \A w : Erased("data", w) = [w EXCEPT !.data = <<>>]
  BY DEF Erased
<1>3. \A w : Erased("entries", w) = [w EXCEPT !.entries = <<>>]
  BY DEF Erased
<1>4. \A w : Erased("reply", w) = [w EXCEPT !.reply.entries = <<>>]
  BY DEF Erased
<1>5. \A w : Erased("resok", w) = [w EXCEPT !.resok.reply.entries = <<>>]
  BY DEF Erased
<1>6. Erased("reply", v) = [v EXCEPT !["reply"] = Erased("entries", v["reply"])]
  BY <1>3, <1>4
<1>7. Erased("resok", v) = [v EXCEPT !["resok"] = Erased("reply", v["resok"])]
  BY <1>4, <1>5
<1> QED BY <1>1, <1>2, <1>3, <1>6, <1>7

\* What Lost(t) packs is packed by Blank(t), but for the value.
LEMMA LostTurns ==
    ASSUME NEW t
    PROVE  Turns(Lost(t), Blank(t), "all")
<1>1. \A n \in Nat : Lost(t).codes[n] = t.codes[n]
  BY DEF Lost, Coder
<1>2. \A n \in Nat : Blank(t).codes[n] = {Code(<<>>, c.words) : c \in t.codes[n]}
  BY DEF Blank, Coder
<1>3. \A v : Erased("all", v) = <<>>
  BY ErasedIs
<1> QED BY <1>1, <1>2, <1>3 DEF Turns

\* Erasing in a field that was just put.
LEMMA WithErased ==
    ASSUME NEW v, NEW a, NEW x, NEW p
    PROVE  [With(v, a, x) EXCEPT ![a] = Erased(p, With(v, a, x)[a])] = With(v, a, Erased(p, x))
<1>1. With(v, a, x)[a] = x
  BY DEF With
<1>2. [With(v, a, x) EXCEPT ![a] = Erased(p, x)] = With(v, a, Erased(p, x))
  BY DEF With
<1> QED BY <1>1, <1>2

\* Erasing in a field before another one is put.
LEMMA ErasedWith ==
    ASSUME NEW v, NEW a, NEW x, NEW p, NEW b, a # b
    PROVE  With([v EXCEPT ![b] = Erased(p, v[b])], a, x) =
                [With(v, a, x) EXCEPT ![b] = Erased(p, With(v, a, x)[b])]
<1>1. CASE b \in DOMAIN v
  <2>1. With(v, a, x)[b] = v[b]
    BY <1>1 DEF With
  <2> DEFINE e == Erased(p, v[b])
  <2> HIDE DEF e
  <2>2. With([v EXCEPT ![b] = e], a, x) = [With(v, a, x) EXCEPT ![b] = e]
    BY <1>1 DEF With
  <2> QED BY <2>1, <2>2 DEF e
<1>2. CASE b \notin DOMAIN v
  <2> DEFINE e == Erased(p, v[b])
             f == Erased(p, With(v, a, x)[b])
  <2> HIDE DEF e, f
  <2>1. With([v EXCEPT ![b] = e], a, x) = [With(v, a, x) EXCEPT ![b] = f]
    BY <1>2, SMTT(30) DEF With
  <2> QED BY <2>1 DEF e, f
<1> QED BY <1>1, <1>2

\* F and G have the same fields but for the type of the jth, whose values
\* differ by what p erases, which is what q erases of the structure.
Differ(F, G, j, p, q) ==
    /\ Len(F) \in Nat
    /\ Len(F) = Len(G)
    /\ j \in 1 .. Len(F)
    /\ F[j][1] = G[j][1]
    /\ \A v : IsCoded(F[j], v) <=> IsCoded(G[j], v)
    /\ Turns(F[j][2], G[j][2], p)
    /\ \A i \in 1 .. Len(F) : i # j => F[i] = G[i]
    /\ \A i \in j + 1 .. Len(F) : F[i][1] # F[j][1] /\ F[i][2].k = "always"
    /\ \A v : Erased(q, v) = [v EXCEPT ![F[j][1]] = Erased(p, v[F[j][1]])]

\* Then their structures differ by what q erases.  By induction on the
\* fields.
LEMMA StructTurns ==
    ASSUME NEW F, NEW G, NEW j, NEW p, NEW q, Differ(F, G, j, p, q)
    PROVE  Turns(Struct(F), Struct(G), q)
<1> SUFFICES ASSUME NEW n \in Nat, NEW z \in Struct(F).codes[n]
             PROVE  \/ z \in Struct(G).codes[n]
                    \/ Code(Erased(q, z.v), z.words) \in Struct(G).codes[n]
  BY DEF Turns
<1> DEFINE N == Len(F)
           P == PackFields(F, n)
           Q == PackFields(G, n)
           E(b) == Code(Erased(q, b.v), b.words)
           S == {i \in 0 .. N : \A b \in P[i] : b \in Q[i] \/ (i >= j /\ E(b) \in Q[i])}
<1>1. N \in Nat /\ N = Len(G) /\ j \in 1 .. N /\ Len(F) \in Nat /\ Len(G) \in Nat
  BY DEF Differ
<1>2. Struct(F).codes[n] = P[N] /\ Struct(G).codes[n] = Q[N]
  BY <1>1 DEF Struct, Coder
<1>3. P[0] = {Code(NoFields, <<>>)} /\ Q[0] = {Code(NoFields, <<>>)}
  BY <1>1, PackFieldsIs, SMTT(30)
<1>4. \A i \in 1 .. N : \A b : b \in P[i] <=>
        \E a \in P[i - 1] : b \in PackField(F[i], 16 * n + i - 1, a)
  BY <1>1, PackFieldsIs
<1>5. \A i \in 1 .. N : \A b : b \in Q[i] <=>
        \E a \in Q[i - 1] : b \in PackField(G[i], 16 * n + i - 1, a)
  <2>1. \A i \in 1 .. Len(G) : \A b : b \in Q[i] <=>
          \E a \in Q[i - 1] : b \in PackField(G[i], 16 * n + i - 1, a)
    BY <1>1, PackFieldsIs
  <2> HIDE DEF N, Q
  <2> QED BY <1>1, <2>1
<1> HIDE DEF P, Q, N
<1>6. 0 \in S
  BY <1>1, <1>3, SMTT(30)
<1>7. ASSUME NEW i \in 1 .. N, i - 1 \in S PROVE i \in S
  <2>1. i \in 0 .. N /\ 16 * n + i - 1 \in Nat
    BY SMTT(30)
  <2> DEFINE m == 16 * n + i - 1
             name == F[j][1]
  <2> SUFFICES ASSUME NEW b \in P[i] PROVE b \in Q[i] \/ (i >= j /\ E(b) \in Q[i])
    BY <2>1
  <2>2. PICK a \in P[i - 1] : b \in PackField(F[i], m, a)
    BY <1>4
  <2>3. a \in Q[i - 1] \/ (i - 1 >= j /\ E(a) \in Q[i - 1])
    BY <1>7
  <2>4. \A c : (\E d \in Q[i - 1] : c \in PackField(G[i], m, d)) => c \in Q[i]
    BY <1>5
  <2>5. m \in Nat
    BY <2>1
  <2> HIDE DEF m, S
  <2>6. CASE a \in Q[i - 1] /\ i # j
    <3>1. F[i] = G[i]
      BY <2>6 DEF Differ, N
    <3> QED BY <2>2, <2>4, <2>6, <3>1
  <2>7. CASE a \in Q[i - 1] /\ i = j
    <3>1. name = G[j][1] /\ \A v : IsCoded(F[j], v) <=> IsCoded(G[j], v)
      BY DEF Differ
    <3>2. CASE ~IsCoded(F[j], a.v)
      <4>1. b = a /\ PackField(G[j], m, a) = {a}
        BY <2>2, <2>7, <3>1, <3>2 DEF PackField
      <4> QED BY <2>4, <2>7, <4>1
    <3>3. CASE IsCoded(F[j], a.v)
      <4>1. PICK x \in F[j][2].codes[m] : b = Code(With(a.v, name, x.v), a.words \o x.words)
        BY <2>2, <2>7, <3>3 DEF PackField
      <4>2. PackField(G[j], m, a) = {Code(With(a.v, name, y.v), a.words \o y.words) : y \in G[j][2].codes[m]}
        BY <3>1, <3>3 DEF PackField
      <4>3. x \in G[j][2].codes[m] \/ Code(Erased(p, x.v), x.words) \in G[j][2].codes[m]
        BY <2>5 DEF Differ, Turns
      <4>4. CASE x \in G[j][2].codes[m]
        BY <2>4, <2>7, <4>1, <4>2, <4>4
      <4>5. CASE Code(Erased(p, x.v), x.words) \in G[j][2].codes[m]
        <5>1. Code(With(a.v, name, Erased(p, x.v)), a.words \o x.words) \in PackField(G[j], m, a)
          BY <4>2, <4>5, CodeIs, SMTT(30)
        <5>2. b.v = With(a.v, name, x.v) /\ b.words = a.words \o x.words
          BY <4>1, CodeIs
        <5>3. Erased(q, b.v) = [b.v EXCEPT ![name] = Erased(p, b.v[name])]
          BY DEF Differ
        <5>4. Erased(q, b.v) = With(a.v, name, Erased(p, x.v))
          BY <5>2, <5>3, WithErased, SMTT(30)
        <5>5. E(b) \in PackField(G[j], m, a)
          BY <5>1, <5>2, <5>4
        <5>6. i >= j
          BY <2>7, <1>1, SMTT(30)
        <5> QED BY <2>4, <2>7, <5>5, <5>6
      <4> QED BY <4>3, <4>4, <4>5
    <3> QED BY <3>2, <3>3
  <2>8. CASE i - 1 >= j /\ E(a) \in Q[i - 1]
    <3>1. i \in j + 1 .. N /\ i # j /\ i >= j
      BY <1>1, <2>8, SMTT(30)
    <3>2. F[i] = G[i] /\ F[i][1] # name /\ F[i][2].k = "always"
      BY <3>1 DEF Differ, N
    <3>3. \A v : IsCoded(F[i], v)
      BY <3>2 DEF IsCoded
    <3>4. PICK x \in F[i][2].codes[m] : b = Code(With(a.v, F[i][1], x.v), a.words \o x.words)
      BY <2>2, <3>3 DEF PackField
    <3>5. E(a).v = Erased(q, a.v) /\ E(a).words = a.words
      BY CodeIs
    <3>6. Code(With(Erased(q, a.v), F[i][1], x.v), a.words \o x.words) \in PackField(G[i], m, E(a))
      BY <3>2, <3>3, <3>5 DEF PackField
    <3>7. b.v = With(a.v, F[i][1], x.v) /\ b.words = a.words \o x.words
      BY <3>4, CodeIs
    <3>8. \A v : Erased(q, v) = [v EXCEPT ![name] = Erased(p, v[name])]
      BY DEF Differ
    <3>9. Erased(q, b.v) = With(Erased(q, a.v), F[i][1], x.v)
      <4> DEFINE u == a.v
                 f == F[i][1]
                 y == x.v
      <4>1. f # name /\ b.v = With(u, f, y)
        BY <3>2, <3>7
      <4> HIDE DEF u, f, y, name
      <4>2. With([u EXCEPT ![name] = Erased(p, u[name])], f, y) =
              [With(u, f, y) EXCEPT ![name] = Erased(p, With(u, f, y)[name])]
        BY <4>1, ErasedWith, SMTT(30)
      <4>3. Erased(q, u) = [u EXCEPT ![name] = Erased(p, u[name])]
        BY <3>8
      <4>4. Erased(q, With(u, f, y)) =
              [With(u, f, y) EXCEPT ![name] = Erased(p, With(u, f, y)[name])]
        BY <3>8
      <4>5. Erased(q, With(u, f, y)) = With(Erased(q, u), f, y)
        BY <4>2, <4>3, <4>4
      <4> QED BY <4>1, <4>5 DEF u, f, y
    <3>10. E(b) \in PackField(G[i], m, E(a))
      BY <3>6, <3>7, <3>9
    <3> QED BY <2>4, <2>8, <3>1, <3>10
  <2> QED BY <2>3, <2>6, <2>7, <2>8
<1>8. N \in S
  <2> HIDE DEF S
  <2>1. \A k \in 0 .. N : k \in S
    BY <1>1, <1>6, <1>7, Induction
  <2> QED BY <1>1, <2>1, SMTT(30)
<1>9. z \in P[N]
  BY <1>2
<1> QED BY <1>2, <1>8, <1>9

\* t reads what it packed, but for what p erases: as what u packs is read.
Forgets(t, u, p) == Understands(t, u) /\ Turns(t, u, p) /\ t.k = u.k

\* A structure forgets what one of its fields does.
LEMMA StructForgets ==
    ASSUME NEW F, NEW G, NEW j, NEW p, NEW q, Differ(F, G, j, p, q),
           Understands(F[j][2], G[j][2]),
           \A i \in 1 .. Len(F) : i # j => Good(F[i][2])
    PROVE  Forgets(Struct(F), Struct(G), q)
<1>1. \A i \in 1 .. Len(F) : i # j => F[i] = G[i] /\ Understands(F[i][2], F[i][2])
  BY DEF Differ, Good
<1>2. Len(F) \in Nat /\ Len(F) = Len(G) /\ j \in 1 .. Len(F)
  BY DEF Differ
<1>3. F[j][1] = G[j][1] /\ \A v : IsCoded(F[j], v) <=> IsCoded(G[j], v)
  BY DEF Differ
<1>4. ASSUME NEW i \in 1 .. Len(G)
      PROVE  /\ F[i][1] = G[i][1]
             /\ \A v : IsCoded(F[i], v) <=> IsCoded(G[i], v)
             /\ Understands(F[i][2], G[i][2])
  <2>1. CASE i = j
    BY <1>3, <2>1
  <2>2. CASE i # j
    <3>1. F[i] = G[i] /\ Understands(F[i][2], F[i][2])
      BY <1>1, <1>2, <2>2
    <3> QED BY <3>1
  <2> QED BY <2>1, <2>2
<1>5. Matches(F, G)
  BY <1>2, <1>4 DEF Matches
<1>6. Understands(Struct(F), Struct(G))
  BY <1>5, StructRead
<1>7. Turns(Struct(F), Struct(G), q)
  BY StructTurns
<1>8. Struct(F).k = Struct(G).k
  BY DEF Struct, Coder
<1> QED BY <1>6, <1>7, <1>8 DEF Forgets

\* A dropped value is forgotten.
LEMMA LostForgets ==
    ASSUME NEW t, Good(t)
    PROVE  Forgets(Lost(t), Blank(t), "all")
<1>1. Lost(t).k = Blank(t).k
  BY DEF Lost, Blank, Coder
<1> QED BY <1>1, LostRead, LostTurns DEF Forgets, Good

\* A listing forgets its entries (xdr_dirlist3).
LEMMA DirlistForgets ==
    ASSUME NEW t, NEW u, Forgets(t, u, "all"), t.k = "always"
    PROVE  Forgets(Struct(<< <<"entries", t>>, <<"eof", boolean>> >>),
                   Struct(<< <<"entries", u>>, <<"eof", boolean>> >>), "entries")
<1> DEFINE F == << <<"entries", t>>, <<"eof", boolean>> >>
           G == << <<"entries", u>>, <<"eof", boolean>> >>
<1>1. /\ Len(F) = 2 /\ Len(G) = 2
      /\ F[1][1] = "entries" /\ F[1][2] = t /\ G[1][1] = "entries" /\ G[1][2] = u
      /\ F[2] = G[2] /\ F[2][1] = "eof" /\ F[2][2] = boolean
  BY SMTT(30)
<1>2. boolean.k = "always"
  BY DEF boolean, Coder
<1>3. Good(boolean)
  BY Primitives
<1> HIDE DEF F, G
<1>4. \A v : IsCoded(F[1], v) <=> IsCoded(G[1], v)
  BY <1>1 DEF IsCoded, Forgets
<1>5. \A v : Erased("entries", v) = [v EXCEPT ![F[1][1]] = Erased("all", v[F[1][1]])]
  BY <1>1, ErasedIs
<1>6. /\ Len(F) \in Nat /\ 1 \in 1 .. Len(F)
      /\ \A i \in 1 .. Len(F) : i = 1 \/ i = 2
      /\ \A i \in 1 + 1 .. Len(F) : i = 2
  BY <1>1, SMTT(30)
<1>7. Turns(F[1][2], G[1][2], "all") /\ Understands(F[1][2], G[1][2])
  BY <1>1 DEF Forgets
<1>8. /\ \A i \in 1 .. Len(F) : i # 1 => F[i] = G[i] /\ Good(F[i][2])
      /\ \A i \in 1 + 1 .. Len(F) : F[i][1] # F[1][1] /\ F[i][2].k = "always"
  <2>1. "eof" # "entries"
    OBVIOUS
  <2> QED BY <1>1, <1>2, <1>3, <1>6, <2>1
<1>9. Differ(F, G, 1, "all", "entries")
  BY <1>1, <1>4, <1>5, <1>6, <1>7, <1>8 DEF Differ
<1>10. Forgets(Struct(F), Struct(G), "entries")
  BY <1>7, <1>8, <1>9, StructForgets
<1> QED BY <1>10 DEF F, G

\* So does the structure that ends with it.
LEMMA ReplyForgets ==
    ASSUME NEW t, NEW u, Forgets(t, u, "entries"), t.k = "always",
           NEW a, NEW A, NEW b, NEW B, Good(A), Good(B)
    PROVE  Forgets(Struct(<< <<a, A>>, <<b, B>>, <<"reply", t>> >>),
                   Struct(<< <<a, A>>, <<b, B>>, <<"reply", u>> >>), "reply")
<1> DEFINE F == << <<a, A>>, <<b, B>>, <<"reply", t>> >>
           G == << <<a, A>>, <<b, B>>, <<"reply", u>> >>
<1>1. /\ Len(F) = 3 /\ Len(G) = 3
      /\ F[3][1] = "reply" /\ F[3][2] = t /\ G[3][1] = "reply" /\ G[3][2] = u
      /\ F[1] = G[1] /\ F[1][2] = A
      /\ F[2] = G[2] /\ F[2][2] = B
  BY SMTT(30)
<1> HIDE DEF F, G
<1>4. \A v : IsCoded(F[3], v) <=> IsCoded(G[3], v)
  BY <1>1 DEF IsCoded, Forgets
<1>5. \A v : Erased("reply", v) = [v EXCEPT ![F[3][1]] = Erased("entries", v[F[3][1]])]
  BY <1>1, ErasedIs
<1>6. /\ Len(F) \in Nat /\ 3 \in 1 .. Len(F)
      /\ \A i \in 1 .. Len(F) : i = 3 \/ i = 2 \/ i = 1
      /\ \A i \in 3 + 1 .. Len(F) : FALSE
  BY <1>1, SMTT(30)
<1>7. Turns(F[3][2], G[3][2], "entries") /\ Understands(F[3][2], G[3][2])
  BY <1>1 DEF Forgets
<1>8. \A i \in 1 .. Len(F) : i # 3 => F[i] = G[i] /\ Good(F[i][2])
  BY <1>1, <1>6
<1>9. Differ(F, G, 3, "entries", "reply")
  BY <1>1, <1>4, <1>5, <1>6, <1>7, <1>8 DEF Differ
<1>10. Forgets(Struct(F), Struct(G), "reply")
  BY <1>7, <1>8, <1>9, StructForgets
<1> QED BY <1>10 DEF F, G

\* So does the result, which has that structure only if the status is right.
LEMMA ResForgets ==
    ASSUME NEW t, NEW u, Forgets(t, u, "reply"), NEW A, Good(A), NEW S
    PROVE  Forgets(Struct(<< <<"status", A>>, <<"resok", When("status", S, t)>> >>),
                   Struct(<< <<"status", A>>, <<"resok", When("status", S, u)>> >>), "resok")
<1> DEFINE T == When("status", S, t)
           U == When("status", S, u)
<1>0. /\ T.k = "when" /\ U.k = "when" /\ T.on = "status" /\ U.on = "status"
      /\ T.of = S /\ U.of = S /\ T.codes = t.codes /\ U.codes = u.codes
  BY DEF When
<1>1. Understands(T, U)
  BY WhenRead DEF Forgets
<1> HIDE DEF T, U
<1>2. Turns(T, U, "reply")
  BY <1>0 DEF Forgets, Turns
<1> DEFINE F == << <<"status", A>>, <<"resok", T>> >>
           G == << <<"status", A>>, <<"resok", U>> >>
<1>3. /\ Len(F) = 2 /\ Len(G) = 2
      /\ F[2][1] = "resok" /\ F[2][2] = T /\ G[2][1] = "resok" /\ G[2][2] = U
      /\ F[1] = G[1] /\ F[1][2] = A
  BY SMTT(30)
<1> HIDE DEF F, G
<1>4. \A v : IsCoded(F[2], v) <=> IsCoded(G[2], v)
  BY <1>0, <1>3 DEF IsCoded
<1>5. \A v : Erased("resok", v) = [v EXCEPT ![F[2][1]] = Erased("reply", v[F[2][1]])]
  BY <1>3, ErasedIs
<1>6. /\ Len(F) \in Nat /\ 2 \in 1 .. Len(F)
      /\ \A i \in 1 .. Len(F) : i = 2 \/ i = 1
      /\ \A i \in 2 + 1 .. Len(F) : FALSE
  BY <1>3, SMTT(30)
<1>7. Turns(F[2][2], G[2][2], "reply") /\ Understands(F[2][2], G[2][2])
  BY <1>1, <1>2, <1>3
<1>8. \A i \in 1 .. Len(F) : i # 2 => F[i] = G[i] /\ Good(F[i][2])
  BY <1>3, <1>6
<1>9. Differ(F, G, 2, "reply", "resok")
  BY <1>3, <1>4, <1>5, <1>6, <1>7, <1>8 DEF Differ
<1>10. Forgets(Struct(F), Struct(G), "resok")
  BY <1>7, <1>8, <1>9, StructForgets
<1> QED BY <1>10 DEF F, G, T, U

\* The arguments of WRITE forget the data (xdr_WRITE3args).
LEMMA WriteForgets ==
    ASSUME NEW t, NEW u, Forgets(t, u, "all"), t.k = "always", NEW a, NEW A, NEW b, NEW B,
           NEW c, NEW D, NEW d, NEW E, Good(A), Good(B), Good(D), Good(E)
    PROVE  Forgets(Struct(<< <<a, A>>, <<b, B>>, <<c, D>>, <<d, E>>, <<"data", t>> >>),
                   Struct(<< <<a, A>>, <<b, B>>, <<c, D>>, <<d, E>>, <<"data", u>> >>), "data")
<1> DEFINE F == << <<a, A>>, <<b, B>>, <<c, D>>, <<d, E>>, <<"data", t>> >>
           G == << <<a, A>>, <<b, B>>, <<c, D>>, <<d, E>>, <<"data", u>> >>
<1>1. /\ Len(F) = 5 /\ Len(G) = 5
      /\ F[5][1] = "data" /\ F[5][2] = t /\ G[5][1] = "data" /\ G[5][2] = u
      /\ F[1] = G[1] /\ F[1][2] = A
      /\ F[2] = G[2] /\ F[2][2] = B
      /\ F[3] = G[3] /\ F[3][2] = D
      /\ F[4] = G[4] /\ F[4][2] = E
  BY SMTT(30)
<1> HIDE DEF F, G
<1>4. \A v : IsCoded(F[5], v) <=> IsCoded(G[5], v)
  BY <1>1 DEF IsCoded, Forgets
<1>5. \A v : Erased("data", v) = [v EXCEPT ![F[5][1]] = Erased("all", v[F[5][1]])]
  BY <1>1, ErasedIs
<1>6. /\ Len(F) \in Nat /\ 5 \in 1 .. Len(F)
      /\ \A i \in 1 .. Len(F) : i = 5 \/ i = 4 \/ i = 3 \/ i = 2 \/ i = 1
      /\ \A i \in 5 + 1 .. Len(F) : FALSE
  BY <1>1, SMTT(30)
<1>7. Turns(F[5][2], G[5][2], "all") /\ Understands(F[5][2], G[5][2])
  BY <1>1 DEF Forgets
<1>8. \A i \in 1 .. Len(F) : i # 5 => F[i] = G[i] /\ Good(F[i][2])
  BY <1>1, <1>6
<1>9. Differ(F, G, 5, "all", "data")
  BY <1>1, <1>4, <1>5, <1>6, <1>7, <1>8 DEF Differ
<1>10. Forgets(Struct(F), Struct(G), "data")
  BY <1>7, <1>8, <1>9, StructForgets
<1> QED BY <1>10 DEF F, G

-----------------------------------------------------------------------------
(* Results. *)

\* A result: its first word is the status, in writing and in reading.
Result(t) ==
    /\ Good(t)
    /\ \A n \in Nat : \A c \in t.codes[n] :
        c.words \in Messages /\ c.words # <<>> /\ HasStatus(c.v, SubSeq(c.words, 1, 1))
    /\ \A w \in Messages : w # <<>> =>
        \A g \in t.reads["keep"][w] : HasStatus(g.v, SubSeq(w, 1, 1))

\* A type that can be the status of a result: one word, as it is.
Status(t) ==
    /\ t.k = "always" /\ Good(t) /\ PacksWords(t, 1)
    /\ \E kept : ReadsWords(t, 1, kept)

\* An enumeration is such a type.
LEMMA EnumStatus ==
    ASSUME NEW S \in SUBSET Int
    PROVE  Status(Enum(S)) /\ Status(Local(S))
<1>1. Enum(S).k = "always" /\ Local(S).k = "always"
  BY DEF Enum, Local, Coder
<1> QED BY <1>1, Primitives, EnumRead DEF Status

\* A structure that starts with a status is a result.
LEMMA ResultFields ==
    ASSUME NEW F, Fields(F), StatusFirst(F)
    PROVE  Result(Struct(F))
<1>1. Good(Struct(F))
  BY StructGood
<1>2. ASSUME NEW n \in Nat, NEW c \in Struct(F).codes[n]
      PROVE  c.words \in Messages /\ c.words # <<>> /\ HasStatus(c.v, SubSeq(c.words, 1, 1))
  BY StatusPacked
<1>3. ASSUME NEW w \in Messages, w # <<>>
      PROVE  \A g \in Struct(F).reads["keep"][w] : HasStatus(g.v, SubSeq(w, 1, 1))
  BY <1>3, StatusRead
<1> QED BY <1>1, <1>2, <1>3 DEF Result

\* A result with nothing behind an error.
LEMMA Result2 ==
    ASSUME NEW s, NEW t, Status(s), Good(t)
    PROVE  Result(Struct(<< <<"status", s>>, <<"resok", t>> >>))
<1> DEFINE F == << <<"status", s>>, <<"resok", t>> >>
<1>1. Fields(F)
  BY Fields2 DEF Status
<1>2. Len(F) = 2 /\ F[1][1] = "status" /\ F[1][2] = s /\ F[2][1] = "resok"
  BY SMTT(30)
<1> HIDE DEF F
<1>3. 1 \in 1 .. Len(F) /\ \A i \in 2 .. Len(F) : F[i][1] # "status"
  BY <1>2, SMTT(30)
<1>4. StatusFirst(F)
  BY <1>2, <1>3 DEF StatusFirst, Status
<1>5. Result(Struct(F))
  BY <1>1, <1>4, ResultFields
<1> QED BY <1>5 DEF F

\* A result with something behind an error.
LEMMA Result3 ==
    ASSUME NEW s, NEW t, NEW u, Status(s), Good(t), Good(u)
    PROVE  Result(Struct(<< <<"status", s>>, <<"resok", t>>, <<"resfail", u>> >>))
<1> DEFINE F == << <<"status", s>>, <<"resok", t>>, <<"resfail", u>> >>
<1>1. Fields(F)
  BY Fields3 DEF Status
<1>2. Len(F) = 3 /\ F[1][1] = "status" /\ F[1][2] = s /\ F[2][1] = "resok" /\ F[3][1] = "resfail"
  BY SMTT(30)
<1> HIDE DEF F
<1>3. 1 \in 1 .. Len(F) /\ \A i \in 2 .. Len(F) : F[i][1] # "status"
  BY <1>2, SMTT(30)
<1>4. StatusFirst(F)
  BY <1>2, <1>3 DEF StatusFirst, Status
<1>5. Result(Struct(F))
  BY <1>1, <1>4, ResultFields
<1> QED BY <1>5 DEF F

-----------------------------------------------------------------------------
(* What this says of one message. *)

\* t reads back what it packed, or but for what p erases.
Exact(t) ==
    \A c \in t.codes[1], mode \in Modes : t.reads[mode][c.words] = {Got(c.v, <<>>)}

\* t reads back what it packed, or that without what p leads to.
ExactBut(t, p) ==
    \A c \in t.codes[1], mode \in Modes :
        \/ t.reads[mode][c.words] = {Got(c.v, <<>>)}
        \/ t.reads[mode][c.words] = {Got(Erased(p, c.v), <<>>)}

\* t does not take a part of what it packed for the whole.
Rejects(t) ==
    \A c \in t.codes[1] : \A k \in 0 .. Len(c.words) - 1 :
        t.reads["fail"][SubSeq(c.words, 1, k)] = {}

\* w is c's words or the first of them.
PartOf(w, c) ==
    w = c.words \/ \E k \in 0 .. Len(c.words) - 1 : w = SubSeq(c.words, 1, k)

\* t finds the status in any part of what s packs.
FindsStatus(t, s) ==
    \A c \in s.codes[1] : \A w : PartOf(w, c) /\ w # <<>> =>
        t.reads["keep"][w] # {} /\ \A g \in t.reads["keep"][w] : g.v.status = c.v.status

\* What is packed is read when nothing follows it.
LEMMA ReadWhole ==
    ASSUME NEW t, NEW u, Understands(t, u), NEW c \in u.codes[1], NEW mode \in Modes
    PROVE  t.reads[mode][c.words] = {Got(c.v, <<>>)}
<1>1. 1 \in Nat /\ <<>> \in Messages
  BY SMTT(30) DEF Messages
<1>2. c.words \in Messages /\ t.reads[mode][c.words \o <<>>] = {Got(c.v, <<>>)}
  BY <1>1 DEF Understands
<1>3. c.words \o <<>> = c.words
  BY <1>2, SMTT(30) DEF Messages
<1> QED BY <1>2, <1>3

\* A good type reads back what it packed and rejects a part of it.
LEMMA GoodExact ==
    ASSUME NEW t, Good(t)
    PROVE  Exact(t) /\ Rejects(t)
<1>1. 1 \in Nat
  BY SMTT(30)
<1>2. Exact(t)
  BY ReadWhole DEF Good, Exact
<1>3. Rejects(t)
  BY <1>1 DEF Good, Rejects, Understands
<1> QED BY <1>2, <1>3

\* A type that forgets rejects a part of what it packed, too.
LEMMA ForgetsExact ==
    ASSUME NEW t, NEW u, NEW p, Forgets(t, u, p)
    PROVE  ExactBut(t, p) /\ Rejects(t)
<1>1. 1 \in Nat
  BY SMTT(30)
<1> SUFFICES ASSUME NEW c \in t.codes[1]
             PROVE  /\ \A mode \in Modes :
                        \/ t.reads[mode][c.words] = {Got(c.v, <<>>)}
                        \/ t.reads[mode][c.words] = {Got(Erased(p, c.v), <<>>)}
                    /\ \A k \in 0 .. Len(c.words) - 1 :
                        t.reads["fail"][SubSeq(c.words, 1, k)] = {}
  BY DEF ExactBut, Rejects
<1> DEFINE e == Code(Erased(p, c.v), c.words)
<1>2. e.v = Erased(p, c.v) /\ e.words = c.words
  BY DEF Code
<1>3. c \in u.codes[1] \/ e \in u.codes[1]
  BY <1>1 DEF Forgets, Turns
<1> HIDE DEF e
<1>4. CASE c \in u.codes[1]
  <2>1. \A mode \in Modes : t.reads[mode][c.words] = {Got(c.v, <<>>)}
    BY <1>4, ReadWhole DEF Forgets
  <2>2. \A k \in 0 .. Len(c.words) - 1 : t.reads["fail"][SubSeq(c.words, 1, k)] = {}
    BY <1>1, <1>4 DEF Forgets, Understands
  <2> QED BY <2>1, <2>2
<1>5. CASE e \in u.codes[1]
  <2>1. \A mode \in Modes : t.reads[mode][e.words] = {Got(e.v, <<>>)}
    BY <1>5, ReadWhole DEF Forgets
  <2>2. \A k \in 0 .. Len(e.words) - 1 : t.reads["fail"][SubSeq(e.words, 1, k)] = {}
    BY <1>1, <1>5 DEF Forgets, Understands
  <2> QED BY <1>2, <2>1, <2>2
<1> QED BY <1>3, <1>4, <1>5

\* A part of a message that has a first word has the message's.
LEMMA PartIs ==
    ASSUME NEW c, c.words \in Messages, NEW w, PartOf(w, c), w # <<>>
    PROVE  w \in Messages /\ SubSeq(w, 1, 1) = SubSeq(c.words, 1, 1)
<1> DEFINE m == c.words
<1>1. m \in Messages /\ Len(m) \in Nat
  BY SMTT(30) DEF Messages
<1> HIDE DEF m
<1>2. CASE w = m
  BY <1>1, <1>2 DEF m
<1>3. ASSUME NEW k \in 0 .. Len(m) - 1, w = SubSeq(m, 1, k)
      PROVE  w \in Messages /\ SubSeq(w, 1, 1) = SubSeq(m, 1, 1)
  <2>1. w \in Messages /\ Len(w) = k /\ \A i \in 1 .. k : w[i] = m[i]
    BY <1>1, <1>3, Prefix
  <2>2. k >= 1
    BY <1>1, <1>3, <2>1, SMTT(30) DEF Messages
  <2>3. w[1] = m[1]
    BY <1>1, <2>1, <2>2, SMTT(30)
  <2>4. w[1] \in Int /\ m[1] \in Int
    BY <1>1, <1>3, <2>1, <2>2, SMTT(30) DEF Messages
  <2>5. ASSUME NEW s, s[1] \in Int
        PROVE  /\ SubSeq(s, 1, 1) \in Seq(Int) /\ Len(SubSeq(s, 1, 1)) = 1
               /\ SubSeq(s, 1, 1)[1] = s[1]
    <3>1. \A i \in 1 .. 1 : s[i] \in Int
      BY <2>5, SMTT(30)
    <3> QED BY <3>1, SubSeqIs, SMTT(30)
  <2>6. \A i \in 1 .. 1 : i = 1
    BY SMTT(30)
  <2>7. SubSeq(w, 1, 1) = SubSeq(m, 1, 1)
    <3> DEFINE sw == SubSeq(w, 1, 1)
               sm == SubSeq(m, 1, 1)
    <3>1. sw \in Seq(Int) /\ Len(sw) = 1 /\ sw[1] = w[1]
      BY <2>4, <2>5
    <3>2. sm \in Seq(Int) /\ Len(sm) = 1 /\ sm[1] = m[1]
      BY <2>4, <2>5
    <3> HIDE DEF sw, sm
    <3>3. \A i \in 1 .. Len(sw) : sw[i] = sm[i]
      BY <2>3, <2>6, <3>1, <3>2
    <3>4. sw = sm
      BY <3>1, <3>2, <3>3, SeqSame
    <3> QED BY <3>4 DEF sw, sm
  <2> QED BY <2>1, <2>7
<1> QED BY <1>2, <1>3 DEF PartOf, m

\* The status of a result is found in any part of it that has its first
\* word, by the reader of any other result.
LEMMA ResultFinds ==
    ASSUME NEW t, NEW s, Result(t), Result(s)
    PROVE  FindsStatus(t, s)
<1> SUFFICES ASSUME NEW c \in s.codes[1], NEW w, PartOf(w, c), w # <<>>
             PROVE  /\ t.reads["keep"][w] # {}
                    /\ \A g \in t.reads["keep"][w] : g.v.status = c.v.status
  BY DEF FindsStatus
<1>1. 1 \in Nat
  BY SMTT(30)
<1>2. c.words \in Messages /\ HasStatus(c.v, SubSeq(c.words, 1, 1))
  BY <1>1 DEF Result
<1>3. w \in Messages /\ SubSeq(w, 1, 1) = SubSeq(c.words, 1, 1)
  BY <1>2, PartIs
<1>4. \A g \in t.reads["keep"][w] : HasStatus(g.v, SubSeq(w, 1, 1))
  BY <1>3 DEF Result
<1>5. t.reads["keep"][w] # {}
  BY <1>3 DEF Result, Good, Total, Goes
<1> QED BY <1>2, <1>3, <1>4, <1>5 DEF HasStatus

\* Lists that are lost, and structures, are on the wire unconditionally.
LEMMA LostAlways ==
    /\ \A t : Lost(t).k = "always"
    /\ \A F : Struct(F).k = "always"
  BY DEF Lost, Struct, Coder

\* The result of a listing whose entries are lost, whatever its other fields
\* are.
LEMMA ListingForgets ==
    ASSUME NEW t, Good(t), NEW a, NEW A, NEW b, NEW B, Good(A), Good(B),
           NEW s, Good(s), NEW S
    PROVE  LET d == Struct(<< <<"entries", Lost(t)>>, <<"eof", boolean>> >>)
               r == Struct(<< <<a, A>>, <<b, B>>, <<"reply", d>> >>)
               z == Struct(<< <<"status", s>>, <<"resok", When("status", S, r)>> >>)
           IN  ExactBut(z, "resok") /\ Rejects(z)
<1> DEFINE D(x) == Struct(<< <<"entries", x>>, <<"eof", boolean>> >>)
           R(x) == Struct(<< <<a, A>>, <<b, B>>, <<"reply", x>> >>)
           Z(x) == Struct(<< <<"status", s>>, <<"resok", When("status", S, x)>> >>)
           d == D(Lost(t))
           e == D(Blank(t))
<1>1. Forgets(d, e, "entries")
  BY LostForgets, LostAlways, DirlistForgets
<1>2. d.k = "always"
  BY LostAlways
<1> HIDE DEF d, e
<1>3. Forgets(R(d), R(e), "reply")
  BY <1>1, <1>2, ReplyForgets
<1> HIDE DEF R
<1>4. Forgets(Z(R(d)), Z(R(e)), "resok")
  BY <1>3, ResForgets
<1>5. ExactBut(Z(R(d)), "resok") /\ Rejects(Z(R(d)))
  BY <1>4, ForgetsExact
<1> QED BY <1>5 DEF d, R

-----------------------------------------------------------------------------
(* Calls. *)

\* Progress holds at first.
LEMMA InitProgress == Init => Progress
  BY DEF Init, Progress

\* Every step keeps Progress, action by action.
LEMMA NextProgress == Progress /\ [Next]_vars => Progress'
<1> SUFFICES ASSUME Progress, [Next]_vars PROVE Progress'
  OBVIOUS
<1> USE DEF Progress
<1>1. CASE Call
  BY <1>1 DEF Call, Requested, Requests
<1>2. CASE Serve
  BY <1>2 DEF Serve, Requested, Requests, ServerCoding
<1>3. CASE Execute
  BY <1>3 DEF Execute, Requested
<1>4. CASE Reply
  BY <1>4 DEF Reply, Answered, Whole, ServerCoding
<1>5. CASE CutShort
  BY <1>5 DEF CutShort, Answered, Whole, Begun, ServerCoding
<1>6. CASE Receive
  BY <1>6 DEF Receive, Answered, Whole, Begun, ServerCoding
<1>7. CASE UNCHANGED vars
  BY <1>7 DEF vars, Answered, Whole, Begun, ServerCoding, Requested, Requests
<1> QED BY <1>1, <1>2, <1>3, <1>4, <1>5, <1>6, <1>7 DEF Next

\* At every step of a call, the words on the wire are those of a structure
\* of this procedure, or the first of them, and what was unpacked was read
\* from them: the inductive invariant.
THEOREM ProgressThm == Spec => []Progress
  BY InitProgress, NextProgress, PTL DEF Spec

-----------------------------------------------------------------------------
(* The codings of the repository. *)

INSTANCE NfsCodings

\* The procedures.
LEMMA ProcsAre ==
    DOMAIN Rfc!args = {"GETATTR", "SETATTR", "LOOKUP", "ACCESS", "READLINK", "READ",
               "WRITE", "CREATE", "MKDIR", "SYMLINK", "MKNOD", "REMOVE",
               "RMDIR", "RENAME", "LINK", "READDIR", "READDIRPLUS", "FSSTAT",
               "FSINFO", "PATHCONF", "COMMIT"}
  BY DEF Rfc!args

\* What the native coding's layouts are made of is good.
LEMMA CppBase ==
    /\ Good(u32) /\ Good(u64) /\ Good(boolean) /\
       Good(string) /\ Good(opaque) /\ Good(bytes) /\
       Good(verfOpaque) /\ Good(dataCount) /\
       Good(Sentinel(u32))
    /\ Good(Enum({2})) /\ Good(Enum({0, 1, 2})) /\
       Good(Enum({0, 1, Cpp!EXCLUSIVE})) /\ Good(Enum({4, 7}))
       /\ Good(Enum({Cpp!NFS3_OK, Cpp!NFS3ERR_NOENT}))
    /\ \A t : Good(t) =>
          /\ Good(Opt(t))
          /\ Good(Bare(t))
          /\ Good(List(t))
          /\ \A on, S : Good(When(on, S, t))
    /\ \A F : Fields(F) => Good(Struct(F))
<1>1. 2 \in Nat /\ {0, 1, 2} \in SUBSET Int /\ {0, 1, Cpp!EXCLUSIVE} \in
      SUBSET Int /\ {2} \in SUBSET Int /\ {4, 7} \in SUBSET Int /\
      {Cpp!NFS3_OK, Cpp!NFS3ERR_NOENT} \in SUBSET Int
  BY SMTT(30) DEF Cpp!EXCLUSIVE, Cpp!NFS3_OK, Cpp!NFS3ERR_NOENT
<1> QED BY <1>1, Primitives, EnumStatus, Composites, StructGood

\* The native coding of every procedure's arguments is good.
LEMMA CppArgs == \A p \in DOMAIN Rfc!args : Good(Cpp!args[p])
<1> USE CppBase
<1>1. Good(Cpp!sattr3)
  BY Fields2, Fields6 DEF Cpp!sattr3, Cpp!nfstime3
<1>2. Good(Cpp!GETATTR3args) /\ Good(Cpp!SETATTR3args) /\
      Good(Cpp!LOOKUP3args) /\ Good(Cpp!ACCESS3args) /\
      Good(Cpp!READLINK3args) /\ Good(Cpp!READ3args) /\
      Good(Cpp!WRITE3args) /\ Good(Cpp!CREATE3args) /\
      Good(Cpp!MKDIR3args) /\ Good(Cpp!SYMLINK3args) /\
      Good(Cpp!MKNOD3args) /\ Good(Cpp!REMOVE3args) /\
      Good(Cpp!RMDIR3args) /\ Good(Cpp!RENAME3args) /\
      Good(Cpp!LINK3args) /\ Good(Cpp!READDIR3args) /\
      Good(Cpp!READDIRPLUS3args) /\ Good(Cpp!FSSTAT3args) /\
      Good(Cpp!FSINFO3args) /\ Good(Cpp!PATHCONF3args) /\
      Good(Cpp!COMMIT3args)
  BY <1>1, Fields1, Fields2, Fields3, Fields4, Fields5 DEF
      Cpp!GETATTR3args, Cpp!SETATTR3args, Cpp!LOOKUP3args,
      Cpp!ACCESS3args, Cpp!READLINK3args, Cpp!READ3args,
      Cpp!WRITE3args, Cpp!CREATE3args, Cpp!MKDIR3args,
      Cpp!SYMLINK3args, Cpp!MKNOD3args, Cpp!REMOVE3args,
      Cpp!RMDIR3args, Cpp!RENAME3args, Cpp!LINK3args,
      Cpp!READDIR3args, Cpp!READDIRPLUS3args, Cpp!FSSTAT3args,
      Cpp!FSINFO3args, Cpp!PATHCONF3args, Cpp!COMMIT3args,
      Cpp!nfs_fh3, Cpp!createverf3, Cpp!ftype4, Cpp!createmode3
<1> HIDE CppBase
<1>3. /\ Cpp!args["GETATTR"] = Cpp!GETATTR3args
      /\ Cpp!args["SETATTR"] = Cpp!SETATTR3args
      /\ Cpp!args["LOOKUP"] = Cpp!LOOKUP3args
      /\ Cpp!args["ACCESS"] = Cpp!ACCESS3args
      /\ Cpp!args["READLINK"] = Cpp!READLINK3args
      /\ Cpp!args["READ"] = Cpp!READ3args
      /\ Cpp!args["WRITE"] = Cpp!WRITE3args
      /\ Cpp!args["CREATE"] = Cpp!CREATE3args
      /\ Cpp!args["MKDIR"] = Cpp!MKDIR3args
      /\ Cpp!args["SYMLINK"] = Cpp!SYMLINK3args
      /\ Cpp!args["MKNOD"] = Cpp!MKNOD3args
      /\ Cpp!args["REMOVE"] = Cpp!REMOVE3args
      /\ Cpp!args["RMDIR"] = Cpp!RMDIR3args
      /\ Cpp!args["RENAME"] = Cpp!RENAME3args
      /\ Cpp!args["LINK"] = Cpp!LINK3args
      /\ Cpp!args["READDIR"] = Cpp!READDIR3args
      /\ Cpp!args["READDIRPLUS"] = Cpp!READDIRPLUS3args
      /\ Cpp!args["FSSTAT"] = Cpp!FSSTAT3args
      /\ Cpp!args["FSINFO"] = Cpp!FSINFO3args
      /\ Cpp!args["PATHCONF"] = Cpp!PATHCONF3args
      /\ Cpp!args["COMMIT"] = Cpp!COMMIT3args
  BY DEF Cpp!args
<1> QED BY <1>2, <1>3, ProcsAre

\* The native coding of every procedure's result is good.
LEMMA CppRes == \A p \in DOMAIN Rfc!args : Good(Cpp!res[p])
<1> USE CppBase
<1>1. Good(Cpp!fattr3) /\ Good(Cpp!post_op_attr) /\ Good(Cpp!wcc_data)
  BY Fields2, Fields3, Fields13 DEF Cpp!fattr3, Cpp!post_op_attr,
      Cpp!wcc_data, Cpp!pre_op_attr, Cpp!wcc_attr, Cpp!nfstime3,
      Cpp!specdata3
<1>2. Good(Cpp!NewObject) /\ Good(Cpp!dirlist3) /\
      Good(Cpp!dirlistplus3) /\ Good(Cpp!pathconf3_resok_info)
  BY <1>1, Fields2, Fields3, Fields5, Fields6 DEF Cpp!NewObject,
      Cpp!dirlist3, Cpp!dirlistplus3, Cpp!pathconf3_resok_info,
      Cpp!entry3, Cpp!entryplus3, Cpp!nfs_fh3
<1>3. Good(Struct(<< <<"after", Cpp!post_op_attr>> >>))
  BY <1>1, Fields1
<1>4. Good(Cpp!GETATTR3resok) /\ Good(Cpp!SETATTR3resok) /\
      Good(Cpp!LOOKUP3resok) /\ Good(Cpp!ACCESS3resok) /\
      Good(Cpp!READLINK3resok) /\ Good(Cpp!READ3resok) /\
      Good(Cpp!WRITE3resok) /\ Good(Cpp!CREATE3resok) /\
      Good(Cpp!MKDIR3resok) /\ Good(Cpp!SYMLINK3resok) /\
      Good(Cpp!MKNOD3resok) /\ Good(Cpp!REMOVE3resok) /\
      Good(Cpp!RMDIR3resok) /\ Good(Cpp!RENAME3resok) /\
      Good(Cpp!LINK3resok) /\ Good(Cpp!READDIR3resok) /\
      Good(Cpp!READDIRPLUS3resok) /\ Good(Cpp!FSSTAT3resok) /\
      Good(Cpp!FSINFO3resok) /\ Good(Cpp!PATHCONF3resok) /\
      Good(Cpp!COMMIT3resok)
  BY <1>1, <1>2, <1>3, Fields1, Fields2, Fields3, Fields4, Fields8,
      Fields12 DEF Cpp!GETATTR3resok, Cpp!SETATTR3resok,
      Cpp!LOOKUP3resok, Cpp!ACCESS3resok, Cpp!READLINK3resok,
      Cpp!READ3resok, Cpp!WRITE3resok, Cpp!CREATE3resok,
      Cpp!MKDIR3resok, Cpp!SYMLINK3resok, Cpp!MKNOD3resok,
      Cpp!REMOVE3resok, Cpp!RMDIR3resok, Cpp!RENAME3resok,
      Cpp!LINK3resok, Cpp!READDIR3resok, Cpp!READDIRPLUS3resok,
      Cpp!FSSTAT3resok, Cpp!FSINFO3resok, Cpp!PATHCONF3resok,
      Cpp!COMMIT3resok, Cpp!nfs_fh3, Cpp!writeverf3
<1>5. \A t : Good(t) => Good(Cpp!Res(t))
  BY Fields2 DEF Cpp!Res
<1>6. Good(Cpp!GETATTR3res) /\ Good(Cpp!SETATTR3res) /\
      Good(Cpp!LOOKUP3res) /\ Good(Cpp!ACCESS3res) /\
      Good(Cpp!READLINK3res) /\ Good(Cpp!READ3res) /\
      Good(Cpp!WRITE3res) /\ Good(Cpp!CREATE3res) /\ Good(Cpp!MKDIR3res)
      /\ Good(Cpp!SYMLINK3res) /\ Good(Cpp!MKNOD3res) /\
      Good(Cpp!REMOVE3res) /\ Good(Cpp!RMDIR3res) /\
      Good(Cpp!RENAME3res) /\ Good(Cpp!LINK3res) /\
      Good(Cpp!READDIR3res) /\ Good(Cpp!READDIRPLUS3res) /\
      Good(Cpp!FSSTAT3res) /\ Good(Cpp!FSINFO3res) /\
      Good(Cpp!PATHCONF3res) /\ Good(Cpp!COMMIT3res)
  BY <1>4, <1>5 DEF Cpp!GETATTR3res, Cpp!SETATTR3res,
      Cpp!LOOKUP3res, Cpp!ACCESS3res, Cpp!READLINK3res, Cpp!READ3res,
      Cpp!WRITE3res, Cpp!CREATE3res, Cpp!MKDIR3res, Cpp!SYMLINK3res,
      Cpp!MKNOD3res, Cpp!REMOVE3res, Cpp!RMDIR3res, Cpp!RENAME3res,
      Cpp!LINK3res, Cpp!READDIR3res, Cpp!READDIRPLUS3res,
      Cpp!FSSTAT3res, Cpp!FSINFO3res, Cpp!PATHCONF3res, Cpp!COMMIT3res
<1> HIDE CppBase
<1>7. /\ Cpp!res["GETATTR"] = Cpp!GETATTR3res
      /\ Cpp!res["SETATTR"] = Cpp!SETATTR3res
      /\ Cpp!res["LOOKUP"] = Cpp!LOOKUP3res
      /\ Cpp!res["ACCESS"] = Cpp!ACCESS3res
      /\ Cpp!res["READLINK"] = Cpp!READLINK3res
      /\ Cpp!res["READ"] = Cpp!READ3res
      /\ Cpp!res["WRITE"] = Cpp!WRITE3res
      /\ Cpp!res["CREATE"] = Cpp!CREATE3res
      /\ Cpp!res["MKDIR"] = Cpp!MKDIR3res
      /\ Cpp!res["SYMLINK"] = Cpp!SYMLINK3res
      /\ Cpp!res["MKNOD"] = Cpp!MKNOD3res
      /\ Cpp!res["REMOVE"] = Cpp!REMOVE3res
      /\ Cpp!res["RMDIR"] = Cpp!RMDIR3res
      /\ Cpp!res["RENAME"] = Cpp!RENAME3res
      /\ Cpp!res["LINK"] = Cpp!LINK3res
      /\ Cpp!res["READDIR"] = Cpp!READDIR3res
      /\ Cpp!res["READDIRPLUS"] = Cpp!READDIRPLUS3res
      /\ Cpp!res["FSSTAT"] = Cpp!FSSTAT3res
      /\ Cpp!res["FSINFO"] = Cpp!FSINFO3res
      /\ Cpp!res["PATHCONF"] = Cpp!PATHCONF3res
      /\ Cpp!res["COMMIT"] = Cpp!COMMIT3res
  BY DEF Cpp!res
<1> QED BY <1>6, <1>7, ProcsAre

\* What the filters' layouts are made of is good.
LEMMA TirpcBase ==
    /\ Good(u32) /\ Good(u64) /\ Good(boolean) /\
       Good(string) /\ Good(opaque) /\ Good(bytes) /\
       Good(dataCount) /\ Good(Words(2))
    /\ Good(Enum({2})) /\ Good(Enum({0, 1, 2})) /\
       Good(Enum({0, 1, Tirpc!EXCLUSIVE})) /\ Good(Enum({4,
       7})) /\ Good(Enum({Tirpc!NFS3_OK, Tirpc!NFS3ERR_NOENT}))
    /\ \A t : Good(t) =>
          /\ Good(Opt(t))
          /\ Good(Bare(t))
          /\ Good(List(t))
          /\ \A on, S : Good(When(on, S, t))
    /\ \A F : Fields(F) => Good(Struct(F))
<1>1. 2 \in Nat /\ {0, 1, 2} \in SUBSET Int /\ {0, 1, Tirpc!EXCLUSIVE} \in
      SUBSET Int /\ {2} \in SUBSET Int /\ {4, 7} \in SUBSET Int /\
      {Tirpc!NFS3_OK, Tirpc!NFS3ERR_NOENT} \in SUBSET Int
  BY SMTT(30) DEF Tirpc!EXCLUSIVE, Tirpc!NFS3_OK, Tirpc!NFS3ERR_NOENT
<1> QED BY <1>1, Primitives, EnumStatus, Composites, StructGood

\* The filters of all arguments but WRITE's, whose data are dropped, are
\* good.
LEMMA TirpcArgs == \A p \in DOMAIN Rfc!args \ {"WRITE"} : Good(Tirpc!args[p])
<1> USE TirpcBase
<1>1. Good(Tirpc!sattr3)
  BY Fields2, Fields6 DEF Tirpc!sattr3, Tirpc!nfstime3
<1>2. Good(Tirpc!GETATTR3args) /\ Good(Tirpc!SETATTR3args) /\
      Good(Tirpc!LOOKUP3args) /\ Good(Tirpc!ACCESS3args) /\
      Good(Tirpc!READLINK3args) /\ Good(Tirpc!READ3args) /\
      Good(Tirpc!CREATE3args) /\ Good(Tirpc!MKDIR3args) /\
      Good(Tirpc!SYMLINK3args) /\ Good(Tirpc!MKNOD3args) /\
      Good(Tirpc!REMOVE3args) /\ Good(Tirpc!RMDIR3args) /\
      Good(Tirpc!RENAME3args) /\ Good(Tirpc!LINK3args) /\
      Good(Tirpc!READDIR3args) /\ Good(Tirpc!READDIRPLUS3args) /\
      Good(Tirpc!FSSTAT3args) /\ Good(Tirpc!FSINFO3args) /\
      Good(Tirpc!PATHCONF3args) /\ Good(Tirpc!COMMIT3args)
  BY <1>1, Fields1, Fields2, Fields3, Fields4, Fields5 DEF
      Tirpc!GETATTR3args, Tirpc!SETATTR3args, Tirpc!LOOKUP3args,
      Tirpc!ACCESS3args, Tirpc!READLINK3args, Tirpc!READ3args,
      Tirpc!CREATE3args, Tirpc!MKDIR3args, Tirpc!SYMLINK3args,
      Tirpc!MKNOD3args, Tirpc!REMOVE3args, Tirpc!RMDIR3args,
      Tirpc!RENAME3args, Tirpc!LINK3args, Tirpc!READDIR3args,
      Tirpc!READDIRPLUS3args, Tirpc!FSSTAT3args, Tirpc!FSINFO3args,
      Tirpc!PATHCONF3args, Tirpc!COMMIT3args, Tirpc!nfs_fh3,
      Tirpc!createverf3
<1> HIDE TirpcBase
<1>3. /\ Tirpc!args["GETATTR"] = Tirpc!GETATTR3args
      /\ Tirpc!args["SETATTR"] = Tirpc!SETATTR3args
      /\ Tirpc!args["LOOKUP"] = Tirpc!LOOKUP3args
      /\ Tirpc!args["ACCESS"] = Tirpc!ACCESS3args
      /\ Tirpc!args["READLINK"] = Tirpc!READLINK3args
      /\ Tirpc!args["READ"] = Tirpc!READ3args
      /\ Tirpc!args["CREATE"] = Tirpc!CREATE3args
      /\ Tirpc!args["MKDIR"] = Tirpc!MKDIR3args
      /\ Tirpc!args["SYMLINK"] = Tirpc!SYMLINK3args
      /\ Tirpc!args["MKNOD"] = Tirpc!MKNOD3args
      /\ Tirpc!args["REMOVE"] = Tirpc!REMOVE3args
      /\ Tirpc!args["RMDIR"] = Tirpc!RMDIR3args
      /\ Tirpc!args["RENAME"] = Tirpc!RENAME3args
      /\ Tirpc!args["LINK"] = Tirpc!LINK3args
      /\ Tirpc!args["READDIR"] = Tirpc!READDIR3args
      /\ Tirpc!args["READDIRPLUS"] = Tirpc!READDIRPLUS3args
      /\ Tirpc!args["FSSTAT"] = Tirpc!FSSTAT3args
      /\ Tirpc!args["FSINFO"] = Tirpc!FSINFO3args
      /\ Tirpc!args["PATHCONF"] = Tirpc!PATHCONF3args
      /\ Tirpc!args["COMMIT"] = Tirpc!COMMIT3args
  BY DEF Tirpc!args
<1> QED BY <1>2, <1>3, ProcsAre

\* The filters of all results but the listings, whose entries are dropped,
\* are good.
LEMMA TirpcRes == \A p \in DOMAIN Rfc!args \ {"READDIR", "READDIRPLUS"} : Good(Tirpc!res[p])
<1> USE TirpcBase
<1>1. Good(Tirpc!fattr3) /\ Good(Tirpc!post_op_attr) /\
      Good(Tirpc!wcc_data)
  BY Fields2, Fields3, Fields13 DEF Tirpc!fattr3, Tirpc!post_op_attr,
      Tirpc!wcc_data, Tirpc!pre_op_attr, Tirpc!wcc_attr,
      Tirpc!nfstime3, Tirpc!specdata3
<1>2. \A F : Fields(F) => Good(Tirpc!Res(F))
  BY Fields2 DEF Tirpc!Res
<1>3. /\ Good(Struct(<< <<"linkmax", u32>>, <<"name_max", u32>>,
        <<"no_trunc", boolean>>, <<"chown_restricted", boolean>>,
        <<"case_insensitive", boolean>>, <<"case_preserving", boolean>> >>))
      /\ Good(Struct(<< <<"after", Tirpc!post_op_attr>> >>))
  BY <1>1, Fields6, Fields1
<1>4. Good(Tirpc!GETATTR3res) /\ Good(Tirpc!SETATTR3res) /\
      Good(Tirpc!LOOKUP3res) /\ Good(Tirpc!ACCESS3res) /\
      Good(Tirpc!READLINK3res) /\ Good(Tirpc!READ3res) /\
      Good(Tirpc!WRITE3res) /\ Good(Tirpc!CREATE3res) /\
      Good(Tirpc!MKDIR3res) /\ Good(Tirpc!SYMLINK3res) /\
      Good(Tirpc!MKNOD3res) /\ Good(Tirpc!REMOVE3res) /\
      Good(Tirpc!RMDIR3res) /\ Good(Tirpc!RENAME3res) /\
      Good(Tirpc!LINK3res) /\ Good(Tirpc!FSSTAT3res) /\
      Good(Tirpc!FSINFO3res) /\ Good(Tirpc!PATHCONF3res) /\
      Good(Tirpc!COMMIT3res)
  BY <1>1, <1>3, <1>2, Fields1, Fields2, Fields3, Fields4, Fields8,
      Fields12 DEF Tirpc!GETATTR3res, Tirpc!SETATTR3res,
      Tirpc!LOOKUP3res, Tirpc!ACCESS3res, Tirpc!READLINK3res,
      Tirpc!READ3res, Tirpc!WRITE3res, Tirpc!CREATE3res,
      Tirpc!MKDIR3res, Tirpc!SYMLINK3res, Tirpc!MKNOD3res,
      Tirpc!REMOVE3res, Tirpc!RMDIR3res, Tirpc!RENAME3res,
      Tirpc!LINK3res, Tirpc!FSSTAT3res, Tirpc!FSINFO3res,
      Tirpc!PATHCONF3res, Tirpc!COMMIT3res, Tirpc!nfs_fh3,
      Tirpc!NewObject, Tirpc!writeverf3
<1> HIDE TirpcBase
<1>5. /\ Tirpc!res["GETATTR"] = Tirpc!GETATTR3res
      /\ Tirpc!res["SETATTR"] = Tirpc!SETATTR3res
      /\ Tirpc!res["LOOKUP"] = Tirpc!LOOKUP3res
      /\ Tirpc!res["ACCESS"] = Tirpc!ACCESS3res
      /\ Tirpc!res["READLINK"] = Tirpc!READLINK3res
      /\ Tirpc!res["READ"] = Tirpc!READ3res
      /\ Tirpc!res["WRITE"] = Tirpc!WRITE3res
      /\ Tirpc!res["CREATE"] = Tirpc!CREATE3res
      /\ Tirpc!res["MKDIR"] = Tirpc!MKDIR3res
      /\ Tirpc!res["SYMLINK"] = Tirpc!SYMLINK3res
      /\ Tirpc!res["MKNOD"] = Tirpc!MKNOD3res
      /\ Tirpc!res["REMOVE"] = Tirpc!REMOVE3res
      /\ Tirpc!res["RMDIR"] = Tirpc!RMDIR3res
      /\ Tirpc!res["RENAME"] = Tirpc!RENAME3res
      /\ Tirpc!res["LINK"] = Tirpc!LINK3res
      /\ Tirpc!res["FSSTAT"] = Tirpc!FSSTAT3res
      /\ Tirpc!res["FSINFO"] = Tirpc!FSINFO3res
      /\ Tirpc!res["PATHCONF"] = Tirpc!PATHCONF3res
      /\ Tirpc!res["COMMIT"] = Tirpc!COMMIT3res
  BY DEF Tirpc!res
<1> QED BY <1>4, <1>5, ProcsAre

\* What the C coding's layouts are made of is good.
LEMMA CBase ==
    /\ Good(u32) /\ Good(u64) /\ Good(boolean) /\ Good(string)
       /\ Good(opaque) /\ Good(bytes) /\ Good(dataCount) /\
       Good(Words(2))
    /\ Good(Local({2})) /\ Good(Local({0, 1, 2})) /\
       Good(Local({0, 1, C!EXCLUSIVE})) /\ Good(Local({4, 7})) /\
       Good(Local({4})) /\ Good(Local({5})) /\
       Status(Local({C!NFS3_OK, C!NFS3ERR_NOENT}))
    /\ \A t : Good(t) =>
          /\ Good(Opt(t))
          /\ Good(OptLocal(t))
          /\ Good(List(t))
          /\ Good(Flagged(2, FALSE, TRUE, t))
          /\ \A on, S : Good(When(on, S, t))
    /\ \A F : Fields(F) => Good(Struct(F))
<1>1. 2 \in Nat /\ {0, 1, 2} \in SUBSET Int /\ {0, 1, C!EXCLUSIVE} \in
      SUBSET Int /\ {2} \in SUBSET Int /\ {4, 7} \in SUBSET Int /\ {4} \in
      SUBSET Int /\ {5} \in SUBSET Int /\ {C!NFS3_OK, C!NFS3ERR_NOENT} \in
      SUBSET Int
  BY SMTT(30) DEF C!EXCLUSIVE, C!NFS3_OK, C!NFS3ERR_NOENT
<1> QED BY <1>1, Primitives, EnumStatus, Composites, StructGood

\* The C coding of every procedure's arguments is good.
LEMMA CArgs == \A p \in DOMAIN Rfc!args : Good(C!args[p])
<1> USE CBase
<1>1. Good(C!sattr3)
  BY Fields2, Fields6 DEF C!sattr3, C!nfstime3
<1>2. Good(C!GETATTR3args) /\ Good(C!SETATTR3args) /\
      Good(C!LOOKUP3args) /\ Good(C!ACCESS3args) /\
      Good(C!READLINK3args) /\ Good(C!READ3args) /\ Good(C!WRITE3args)
      /\ Good(C!CREATE3args) /\ Good(C!MKDIR3args) /\
      Good(C!SYMLINK3args) /\ Good(C!MKNOD3args) /\ Good(C!REMOVE3args)
      /\ Good(C!RMDIR3args) /\ Good(C!RENAME3args) /\ Good(C!LINK3args)
      /\ Good(C!READDIR3args) /\ Good(C!READDIRPLUS3args) /\
      Good(C!FSSTAT3args) /\ Good(C!FSINFO3args) /\
      Good(C!PATHCONF3args) /\ Good(C!COMMIT3args)
  BY <1>1, Fields1, Fields2, Fields3, Fields4, Fields5 DEF
      C!GETATTR3args, C!SETATTR3args, C!LOOKUP3args, C!ACCESS3args,
      C!READLINK3args, C!READ3args, C!WRITE3args, C!CREATE3args,
      C!MKDIR3args, C!SYMLINK3args, C!MKNOD3args, C!REMOVE3args,
      C!RMDIR3args, C!RENAME3args, C!LINK3args, C!READDIR3args,
      C!READDIRPLUS3args, C!FSSTAT3args, C!FSINFO3args,
      C!PATHCONF3args, C!COMMIT3args, C!nfs_fh3, C!createverf3
<1> HIDE CBase
<1>3. /\ C!args["GETATTR"] = C!GETATTR3args
      /\ C!args["SETATTR"] = C!SETATTR3args
      /\ C!args["LOOKUP"] = C!LOOKUP3args
      /\ C!args["ACCESS"] = C!ACCESS3args
      /\ C!args["READLINK"] = C!READLINK3args
      /\ C!args["READ"] = C!READ3args
      /\ C!args["WRITE"] = C!WRITE3args
      /\ C!args["CREATE"] = C!CREATE3args
      /\ C!args["MKDIR"] = C!MKDIR3args
      /\ C!args["SYMLINK"] = C!SYMLINK3args
      /\ C!args["MKNOD"] = C!MKNOD3args
      /\ C!args["REMOVE"] = C!REMOVE3args
      /\ C!args["RMDIR"] = C!RMDIR3args
      /\ C!args["RENAME"] = C!RENAME3args
      /\ C!args["LINK"] = C!LINK3args
      /\ C!args["READDIR"] = C!READDIR3args
      /\ C!args["READDIRPLUS"] = C!READDIRPLUS3args
      /\ C!args["FSSTAT"] = C!FSSTAT3args
      /\ C!args["FSINFO"] = C!FSINFO3args
      /\ C!args["PATHCONF"] = C!PATHCONF3args
      /\ C!args["COMMIT"] = C!COMMIT3args
  BY DEF C!args
<1> QED BY <1>2, <1>3, ProcsAre

\* The C coding of every procedure's result is good and starts with its
\* status.
LEMMA CRes == \A p \in DOMAIN Rfc!args : Result(C!res[p])
<1> USE CBase
<1>1. Good(C!fattr3) /\ Good(C!post_op_attr) /\ Good(C!wcc_data)
  BY Fields2, Fields3, Fields13 DEF C!fattr3, C!post_op_attr,
      C!wcc_data, C!pre_op_attr, C!wcc_attr, C!nfstime3, C!specdata3
<1>2. \A F : Fields(F) => Result(C!Res(F))
  BY Result2 DEF C!Res
<1>3. /\ Good(Struct(<< <<"linkmax", Local({4})>>, <<"name_max", Local({5})>>,
        <<"no_trunc", boolean>>, <<"chown_restricted", boolean>>,
        <<"case_insensitive", boolean>>, <<"case_preserving", boolean>> >>))
      /\ Good(Struct(<< <<"after", C!post_op_attr>> >>))
  BY <1>1, Fields6, Fields1
<1>4. Good(C!dirlist3) /\ Good(C!dirlistplus3)
  BY <1>1, Fields2, Fields3, Fields5 DEF C!dirlist3, C!dirlistplus3,
      C!entry3, C!entryplus3, C!nfs_fh3
<1>5. /\ Good(Struct(<< <<"file_wcc", C!wcc_data>>, <<"count", u32>>,
                <<"committed", Local({2})>>, <<"verf", C!writeverf3>> >>))
      /\ Good(Struct(<< <<"file_wcc", C!wcc_data>> >>))
  BY <1>1, Fields4, Fields1 DEF C!writeverf3
<1>6. Result(C!WRITE3res)
  BY <1>5, Result3 DEF C!WRITE3res
<1>7. Result(C!GETATTR3res) /\ Result(C!SETATTR3res) /\
      Result(C!LOOKUP3res) /\ Result(C!ACCESS3res) /\
      Result(C!READLINK3res) /\ Result(C!READ3res) /\
      Result(C!CREATE3res) /\ Result(C!MKDIR3res) /\
      Result(C!SYMLINK3res) /\ Result(C!MKNOD3res) /\
      Result(C!REMOVE3res) /\ Result(C!RMDIR3res) /\
      Result(C!RENAME3res) /\ Result(C!LINK3res) /\
      Result(C!READDIR3res) /\ Result(C!READDIRPLUS3res) /\
      Result(C!FSSTAT3res) /\ Result(C!FSINFO3res) /\
      Result(C!PATHCONF3res) /\ Result(C!COMMIT3res)
  BY <1>1, <1>2, <1>3, <1>4, Fields1, Fields2, Fields3, Fields4, Fields8,
      Fields12 DEF C!GETATTR3res, C!SETATTR3res, C!LOOKUP3res,
      C!ACCESS3res, C!READLINK3res, C!READ3res, C!CREATE3res,
      C!MKDIR3res, C!SYMLINK3res, C!MKNOD3res, C!REMOVE3res,
      C!RMDIR3res, C!RENAME3res, C!LINK3res, C!READDIR3res,
      C!READDIRPLUS3res, C!FSSTAT3res, C!FSINFO3res, C!PATHCONF3res,
      C!COMMIT3res, C!nfs_fh3, C!NewObject, C!writeverf3
<1> HIDE CBase
<1>8. /\ C!res["GETATTR"] = C!GETATTR3res
      /\ C!res["SETATTR"] = C!SETATTR3res
      /\ C!res["LOOKUP"] = C!LOOKUP3res
      /\ C!res["ACCESS"] = C!ACCESS3res
      /\ C!res["READLINK"] = C!READLINK3res
      /\ C!res["READ"] = C!READ3res
      /\ C!res["WRITE"] = C!WRITE3res
      /\ C!res["CREATE"] = C!CREATE3res
      /\ C!res["MKDIR"] = C!MKDIR3res
      /\ C!res["SYMLINK"] = C!SYMLINK3res
      /\ C!res["MKNOD"] = C!MKNOD3res
      /\ C!res["REMOVE"] = C!REMOVE3res
      /\ C!res["RMDIR"] = C!RMDIR3res
      /\ C!res["RENAME"] = C!RENAME3res
      /\ C!res["LINK"] = C!LINK3res
      /\ C!res["READDIR"] = C!READDIR3res
      /\ C!res["READDIRPLUS"] = C!READDIRPLUS3res
      /\ C!res["FSSTAT"] = C!FSSTAT3res
      /\ C!res["FSINFO"] = C!FSINFO3res
      /\ C!res["PATHCONF"] = C!PATHCONF3res
      /\ C!res["COMMIT"] = C!COMMIT3res
  BY DEF C!res
<1> QED BY <1>7, <1>6, <1>8, ProcsAre

\* What the layouts of RFC 1813 are made of is good.
LEMMA RfcBase ==
    /\ Good(u32) /\ Good(u64) /\ Good(boolean) /\
       Good(string) /\ Good(opaque) /\ Good(bytes) /\
       Good(Words(2))
    /\ Good(Enum({2})) /\ Status(Enum({Rfc!NFS3_OK,
       Rfc!NFS3ERR_NOENT}))
    /\ \A t : Good(t) =>
          /\ Good(Opt(t))
          /\ Good(List(t))
          /\ \A on, S : Good(When(on, S, t))
    /\ \A F : Fields(F) => Good(Struct(F))
<1>1. 2 \in Nat /\ {2} \in SUBSET Int /\ {Rfc!NFS3_OK, Rfc!NFS3ERR_NOENT}
      \in SUBSET Int
  BY SMTT(30) DEF Rfc!NFS3_OK, Rfc!NFS3ERR_NOENT
<1> QED BY <1>1, Primitives, EnumStatus, Composites, StructGood

\* The result of every procedure, as RFC 1813 has it, starts with its
\* status.
LEMMA RfcRes == \A p \in DOMAIN Rfc!args : Result(Rfc!res[p])
<1> USE RfcBase
<1>1. Good(Rfc!fattr3) /\ Good(Rfc!post_op_attr) /\ Good(Rfc!wcc_data)
  BY Fields2, Fields3, Fields13 DEF Rfc!fattr3, Rfc!post_op_attr,
      Rfc!wcc_data, Rfc!wcc_attr, Rfc!nfstime3, Rfc!specdata3
<1>2. \A F, G : Fields(F) /\ Fields(G) => Result(Rfc!Res(F, G))
  BY Result3 DEF Rfc!Res
<1>3. \A a : Fields(Rfc!Attr(a)) /\ Fields(Rfc!Wcc(a))
  BY <1>1, Fields1 DEF Rfc!Attr, Rfc!Wcc
<1>4. /\ Good(Rfc!verf) /\ Good(Rfc!nfs_fh3)
      /\ Fields(Rfc!entry3) /\ Fields(Rfc!entryplus3)
  BY <1>1, Fields2, Fields3, FieldsConcat DEF Rfc!verf, Rfc!nfs_fh3,
      Rfc!entry3, Rfc!entryplus3
<1>5. \A F : Fields(F) =>
        Good(Struct(<< <<"entries", List(Struct(F))>>,
                             <<"eof", boolean>> >>))
  BY Fields2
<1>6. \A F : Fields(F) => Result(Rfc!DirRes(F))
  BY <1>1, <1>5, <1>4, <1>3, <1>2, Fields3 DEF Rfc!DirRes
<1>7. Good(Struct(<< <<"linkmax", u32>>, <<"name_max", u32>>,
        <<"no_trunc", boolean>>, <<"chown_restricted", boolean>>,
        <<"case_insensitive", boolean>>, <<"case_preserving", boolean>> >>))
  BY Fields6
<1>8. Result(Rfc!CREATE3res) /\ Result(Rfc!MKDIR3res) /\
      Result(Rfc!SYMLINK3res) /\ Result(Rfc!MKNOD3res)
  BY <1>1, <1>3, <1>4, <1>2, Fields3 DEF Rfc!CREATE3res,
      Rfc!MKDIR3res, Rfc!SYMLINK3res, Rfc!MKNOD3res, Rfc!NewObject
<1>9. Result(Rfc!GETATTR3res) /\ Result(Rfc!SETATTR3res) /\
      Result(Rfc!LOOKUP3res) /\ Result(Rfc!ACCESS3res) /\
      Result(Rfc!READLINK3res) /\ Result(Rfc!READ3res) /\
      Result(Rfc!WRITE3res) /\ Result(Rfc!REMOVE3res) /\
      Result(Rfc!RMDIR3res) /\ Result(Rfc!RENAME3res) /\
      Result(Rfc!LINK3res) /\ Result(Rfc!READDIR3res) /\
      Result(Rfc!READDIRPLUS3res) /\ Result(Rfc!FSSTAT3res) /\
      Result(Rfc!FSINFO3res) /\ Result(Rfc!PATHCONF3res) /\
      Result(Rfc!COMMIT3res)
  BY <1>1, <1>2, <1>3, <1>4, <1>6, <1>7, NoField, FieldsConcat, Fields1,
      Fields2, Fields3, Fields7, Fields11 DEF Rfc!GETATTR3res,
      Rfc!SETATTR3res, Rfc!LOOKUP3res, Rfc!ACCESS3res,
      Rfc!READLINK3res, Rfc!READ3res, Rfc!WRITE3res, Rfc!REMOVE3res,
      Rfc!RMDIR3res, Rfc!RENAME3res, Rfc!LINK3res, Rfc!READDIR3res,
      Rfc!READDIRPLUS3res, Rfc!FSSTAT3res, Rfc!FSINFO3res,
      Rfc!PATHCONF3res, Rfc!COMMIT3res
<1> HIDE RfcBase
<1>10. /\ Rfc!res["GETATTR"] = Rfc!GETATTR3res
      /\ Rfc!res["SETATTR"] = Rfc!SETATTR3res
      /\ Rfc!res["LOOKUP"] = Rfc!LOOKUP3res
      /\ Rfc!res["ACCESS"] = Rfc!ACCESS3res
      /\ Rfc!res["READLINK"] = Rfc!READLINK3res
      /\ Rfc!res["READ"] = Rfc!READ3res
      /\ Rfc!res["WRITE"] = Rfc!WRITE3res
      /\ Rfc!res["CREATE"] = Rfc!CREATE3res
      /\ Rfc!res["MKDIR"] = Rfc!MKDIR3res
      /\ Rfc!res["SYMLINK"] = Rfc!SYMLINK3res
      /\ Rfc!res["MKNOD"] = Rfc!MKNOD3res
      /\ Rfc!res["REMOVE"] = Rfc!REMOVE3res
      /\ Rfc!res["RMDIR"] = Rfc!RMDIR3res
      /\ Rfc!res["RENAME"] = Rfc!RENAME3res
      /\ Rfc!res["LINK"] = Rfc!LINK3res
      /\ Rfc!res["READDIR"] = Rfc!READDIR3res
      /\ Rfc!res["READDIRPLUS"] = Rfc!READDIRPLUS3res
      /\ Rfc!res["FSSTAT"] = Rfc!FSSTAT3res
      /\ Rfc!res["FSINFO"] = Rfc!FSINFO3res
      /\ Rfc!res["PATHCONF"] = Rfc!PATHCONF3res
      /\ Rfc!res["COMMIT"] = Rfc!COMMIT3res
  BY DEF Rfc!res
<1> QED BY <1>8, <1>9, <1>10, ProcsAre

\* The filters of the listings read back what they packed but for the
\* entries.
LEMMA TirpcListing ==
    /\ ExactBut(Tirpc!res["READDIR"], "resok") /\ Rejects(Tirpc!res["READDIR"])
    /\ ExactBut(Tirpc!res["READDIRPLUS"], "resok") /\ Rejects(Tirpc!res["READDIRPLUS"])
<1> USE TirpcBase
<1>1. Good(Tirpc!post_op_attr)
  BY Fields2, Fields13 DEF Tirpc!post_op_attr, Tirpc!fattr3, Tirpc!nfstime3, Tirpc!specdata3
<1> DEFINE E == List(Struct(<< <<"fileid", u64>>,
                    <<"name", string>>, <<"cookie", u64>> >>))
           P == List(Struct(<< <<"fileid", u64>>,
                    <<"name", string>>, <<"cookie", u64>>,
                    <<"name_handle", Bare(Tirpc!nfs_fh3)>>,
                    <<"name_attributes", Tirpc!post_op_attr>> >>))
           s == Enum({Tirpc!NFS3_OK, Tirpc!NFS3ERR_NOENT})
           S == {<<Tirpc!NFS3_OK>>}
           Z(x) == Struct(<< <<"status", s>>,
                    <<"resok", When("status", S,
                        Struct(<< <<"dir_attributes", Tirpc!post_op_attr>>,
                                  <<"cookieverf", Words(2)>>,
                                  <<"reply", Struct(<< <<"entries", Lost(x)>>,
                                        <<"eof", boolean>> >>)>> >>))>> >>)
<1>2. Good(E) /\ Good(P)
  BY <1>1, Fields3, Fields5 DEF Tirpc!nfs_fh3
<1>3. Tirpc!res["READDIR"] = Z(E) /\ Tirpc!res["READDIRPLUS"] = Z(P)
  BY DEF Tirpc!res, Tirpc!READDIR3res, Tirpc!READDIRPLUS3res, Tirpc!Res,
     Tirpc!dirlist3, Tirpc!dirlistplus3, Tirpc!entry3_list, Tirpc!entryplus3_list
<1> HIDE DEF E, P, S, s
<1>4. Good(s)
  BY DEF s
<1>5. \A x : Good(x) => ExactBut(Z(x), "resok") /\ Rejects(Z(x))
  BY <1>1, <1>4, ListingForgets
<1> QED BY <1>2, <1>3, <1>5

\* The filter of WRITE's arguments reads back what it packed but for the
\* data.
LEMMA TirpcWrite == ExactBut(Tirpc!args["WRITE"], "data")
<1> USE TirpcBase
<1> DEFINE e == Enum({0, 1, 2})
           Z(x) == Struct(<< <<"file", Tirpc!nfs_fh3>>, <<"offset", u64>>,
                             <<"count", dataCount>>, <<"stable", e>>,
                             <<"data", x>> >>)
<1>1. Tirpc!args["WRITE"] = Z(Lost(bytes))
  BY DEF Tirpc!args, Tirpc!WRITE3args
<1>2. Forgets(Lost(bytes), Blank(bytes), "all") /\ Lost(bytes).k = "always"
  BY LostForgets, LostAlways, Primitives
<1>3. Good(Tirpc!nfs_fh3) /\ Good(e)
  BY DEF Tirpc!nfs_fh3
<1> HIDE DEF e
<1>4. Forgets(Z(Lost(bytes)), Z(Blank(bytes)), "data")
  BY <1>2, <1>3, WriteForgets
<1> QED BY <1>1, <1>4, ForgetsExact

-----------------------------------------------------------------------------
(* What this says of calls. *)

\* The codings the repository has, and their layouts.
Repository == {"native", "tirpc", "c"}
Layouts ==
    \A c \in Repository \cup {"rfc"} : Args(c) = ArgsOf(c) /\ Results(c) = ResultsOf(c)

\* The layouts, by coding.
LEMMA LayoutsAre ==
    Layouts =>
        /\ Procs = DOMAIN Rfc!args
        /\ Args("native") = Cpp!args /\ Results("native") = Cpp!res
        /\ Args("tirpc") = Tirpc!args /\ Results("tirpc") = Tirpc!res
        /\ Args("c") = C!args /\ Results("c") = C!res
        /\ Args("rfc") = Rfc!args /\ Results("rfc") = Rfc!res
<1> HAVE Layouts
<1>1. \A c \in {"native", "tirpc", "c", "rfc"} :
        Args(c) = ArgsOf(c) /\ Results(c) = ResultsOf(c)
  BY DEF Layouts, Repository
<1> QED BY <1>1 DEF ArgsOf, ResultsOf, Procs

\* Each coding reads back the arguments it packed, but for the data of WRITE
\* in libtirpc's filters.
LEMMA TwinArgs ==
    Layouts =>
        \A c \in Repository, p \in Procs :
            \/ Exact(Args(c)[p])
            \/ c = "tirpc" /\ p = "WRITE" /\ ExactBut(Args(c)[p], "data")
  BY LayoutsAre, CppArgs, TirpcArgs, CArgs, TirpcWrite, GoodExact DEF Repository

\* Each coding rejects a part of a result it packed and reads back the
\* whole, but for the entries of a listing in libtirpc's filters.
LEMMA TwinResults ==
    Layouts =>
        \A c \in Repository, p \in Procs :
            /\ Rejects(Results(c)[p])
            /\ \/ Exact(Results(c)[p])
               \/ /\ c = "tirpc" /\ p \in {"READDIR", "READDIRPLUS"}
                  /\ ExactBut(Results(c)[p], "resok")
  BY LayoutsAre, CppRes, TirpcRes, CRes, TirpcListing, GoodExact DEF Repository, Result

\* The C client finds the status in any part of a result, whether RFC 1813's
\* or its own.
LEMMA ClientFinds ==
    Layouts =>
        \A p \in Procs, s \in {"rfc", "c"} :
            FindsStatus(Results("c")[p], Results(s)[p])
  BY LayoutsAre, CRes, RfcRes, ResultFinds

\* The C unpackers keep what they have; the others fail.
LEMMA ModeIs ==
    /\ \A c : Mode(c) \in Modes
    /\ \A c : c # "c" => Mode(c) = "fail"
    /\ Mode("c") = "keep"
    /\ \A v : Erased("data", v) = [v EXCEPT !.data = <<>>]
    /\ \A v : Erased("resok", v) = [v EXCEPT !.resok.reply.entries = <<>>]
  BY DEF Mode, Modes, Erased

\* Progress implies RoundTrip.
LEMMA RoundTripInv == Layouts /\ Progress => RoundTrip
<1> SUFFICES ASSUME Layouts, Progress, server = "twin", ~cut
             PROVE  RoundTrip
  BY DEF RoundTrip
<1>1. coding \in Repository /\ proc \in Procs /\ ServerCoding = coding
  BY CodingsAssumption DEF Progress, ServerCoding, Repository
<1> DEFINE mode == Mode(coding)
           a == Args(coding)[proc]
           r == Results(coding)[proc]
<1>a. mode \in Modes
  BY ModeIs
<1> HIDE DEF mode, a, r
<1>2. CASE phase = "served"
  <2>1. PICK c \in a.codes[1] : sent = c.v /\ wire = c.words
    BY <1>1, <1>2 DEF a, Progress, Requested, Requests
  <2>2. got = a.reads[mode][wire]
    BY <1>1, <1>2 DEF a, mode, Progress
  <2>4. \/ Exact(a)
        \/ coding = "tirpc" /\ proc = "WRITE" /\ ExactBut(a, "data")
    <3>1. \/ Exact(Args(coding)[proc])
          \/ /\ coding = "tirpc" /\ proc = "WRITE"
             /\ ExactBut(Args(coding)[proc], "data")
      BY <1>1, TwinArgs, SMTT(30)
    <3> QED BY <3>1 DEF a
  <2>3. \/ got = {Got(sent, <<>>)}
        \/ coding = "tirpc" /\ proc = "WRITE" /\ got = {Got(Erased("data", sent), <<>>)}
    BY <1>a, <2>1, <2>2, <2>4 DEF Exact, ExactBut
  <2> QED BY <1>2, <2>3, ModeIs DEF RoundTrip
<1>3. CASE phase = "received"
  <2>1. PICK c \in r.codes[1] : sent = c.v /\ wire = c.words
    BY <1>1, <1>3 DEF r, Progress, Answered, Whole, Begun
  <2>2. got = r.reads[mode][wire]
    BY <1>3 DEF r, mode, Progress
  <2>4. \/ Exact(r)
        \/ /\ coding = "tirpc" /\ proc \in {"READDIR", "READDIRPLUS"}
           /\ ExactBut(r, "resok")
    BY <1>1, TwinResults DEF r
  <2>3. \/ got = {Got(sent, <<>>)}
        \/ /\ coding = "tirpc" /\ proc \in {"READDIR", "READDIRPLUS"}
           /\ got = {Got(Erased("resok", sent), <<>>)}
    BY <1>a, <2>1, <2>2, <2>4 DEF Exact, ExactBut
  <2> QED BY <1>3, <2>3, ModeIs DEF RoundTrip
<1> QED BY <1>2, <1>3 DEF RoundTrip

\* Progress implies CutResultRejected.
LEMMA CutRejectedInv == Layouts /\ Progress => CutResultRejected
<1> SUFFICES ASSUME Layouts, Progress,
                    phase = "received", server = "twin", cut, coding # "c"
             PROVE  got = {}
  BY DEF CutResultRejected
<1>1. coding \in Repository /\ proc \in Procs /\ ServerCoding = coding
  BY CodingsAssumption DEF Progress, ServerCoding, Repository
<1>2. PICK c \in Results(coding)[proc].codes[1] :
        \E n \in 0 .. Len(c.words) - 1 : wire = SubSeq(c.words, 1, n)
  BY <1>1 DEF Progress, Answered, Whole, Begun
<1>3. got = Results(coding)[proc].reads["fail"][wire]
  BY ModeIs DEF Progress
<1> QED BY <1>1, <1>2, <1>3, TwinResults DEF Rejects

\* Progress implies CutKeepsStatus.
LEMMA CutStatusInv == Layouts /\ Progress => CutKeepsStatus
<1> SUFFICES ASSUME Layouts, Progress,
                    phase = "received", coding = "c", wire # <<>>
             PROVE  got # {} /\ \A g \in got : g.v.status = sent.status
  BY DEF CutKeepsStatus
<1>1. proc \in Procs /\ ServerCoding \in {"rfc", "c"}
  BY DEF Progress, ServerCoding
<1>2. PICK c \in Results(ServerCoding)[proc].codes[1] : sent = c.v /\ PartOf(wire, c)
  BY DEF Progress, Answered, Whole, Begun, PartOf
<1>3. got = Results("c")[proc].reads["keep"][wire]
  BY ModeIs DEF Progress
<1>4. FindsStatus(Results("c")[proc], Results(ServerCoding)[proc])
  BY <1>1, ClientFinds
<1> QED BY <1>2, <1>3, <1>4 DEF FindsStatus

\* Whatever values are sent, and however long the lists are, unpacking gives
\* back exactly what the same coding packed, for the arguments and the
\* result of every procedure in all three codings, but for the data of WRITE
\* and the entries of a listing that libtirpc's filters drop
\* (nfs3_xdr.cpp:590, 239).
THEOREM RoundTripThm == Layouts => (Spec => []RoundTrip)
<1> HAVE Layouts
<1>1. Progress => RoundTrip
  BY RoundTripInv
<1> QED BY <1>1, ProgressThm, PTL

\* Wherever the result of any procedure is cut, the native decoder throws
\* (xdr_codec.cpp:14) or the filter returns FALSE: no cut result is taken
\* for a result in C++.
THEOREM CutResultRejectedThm == Layouts => (Spec => []CutResultRejected)
<1> HAVE Layouts
<1>1. Progress => CutResultRejected
  BY CutRejectedInv
<1> QED BY <1>1, ProgressThm, PTL

\* Wherever a result is cut behind its first word, and whatever the C
\* unpackers (nfs3_xdr.c:52) make of the words that are missing, the status
\* they return is the server's.
THEOREM CutKeepsStatusThm == Layouts => (Spec => []CutKeepsStatus)
<1> HAVE Layouts
<1>1. Progress => CutKeepsStatus
  BY CutStatusInv
<1> QED BY <1>1, ProgressThm, PTL

=============================================================================
