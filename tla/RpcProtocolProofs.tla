-------------------------- MODULE RpcProtocolProofs --------------------------
(***************************************************************************)
(* The call is what a server decodes, and parse_reply gives every reply    *)
(* its meaning, wherever it is cut: for all xids, arguments, verifiers,    *)
(* statuses and results.                                                   *)
(***************************************************************************)
EXTENDS RpcProtocol, SequenceTheorems, TLAPS

-----------------------------------------------------------------------------
(* Lengths. *)

\* The loop over "localhost" writes three groups of four bytes.
LEMMA HostBytesValue == HostBytes(HostLen) = 12
<1> DEFINE InGroup(i) == IF 9 - i < 4 THEN 9 - i ELSE 4
           Zeros(i) == IF 9 - i < 4 THEN 4 - (9 - i) ELSE 0
           Loop(f) == [i \in 0 .. 12 |->
                          IF i < 9 THEN InGroup(i) + Zeros(i) + f[i + 4] ELSE 0]
           bytes == CHOOSE f : f = Loop(f)
           written == [i \in 0 .. 12 |-> IF i = 0 THEN 12
                                         ELSE IF i <= 4 THEN 8
                                         ELSE IF i <= 8 THEN 4 ELSE 0]
<1>1. written = Loop(written)
  OBVIOUS
<1>2. bytes = Loop(bytes)
  <2> HIDE DEF Loop, written
  <2> QED
    BY <1>1, Zenon
<1>3. bytes[12] = 0 /\ bytes[8] = 4 + bytes[12] /\ bytes[4] = 4 + bytes[8]
      /\ bytes[0] = 4 + bytes[4]
  <2> HIDE DEF bytes
  <2> QED
    BY <1>2
<1>4. HostBytes(HostLen) = bytes[0]
  BY DEF HostBytes, HostLen
<1> HIDE DEF bytes
<1> QED
  BY <1>3, <1>4

\* Rounding up as parse_reply does it is the padding of RFC 5531, as long as
\* the sum does not wrap.
LEMMA RoundUpIsPadded ==
    ASSUME NEW n \in Nat, n + 3 < WordMod
    PROVE  /\ RoundUp(n) = Padded(n)
           /\ Padded(n) \div 4 \in Nat
           /\ Padded(n) = 4 * (Padded(n) \div 4)
<1>1. WordMod \in Nat
  BY ProtocolAssumption
<1>2. (n + 3) % WordMod = n + 3
  BY <1>1
<1>3. Padded(n) = ((n + 3) \div 4) * 4
  BY DEF Padded
<1>4. (n + 3) \div 4 \in Nat
  OBVIOUS
<1>5. PICK k \in Nat : k = (n + 3) \div 4
  BY <1>4
<1>6. (k * 4) \div 4 = k
  OBVIOUS
<1> QED
  BY <1>2, <1>3, <1>5, <1>6 DEF RoundUp

-----------------------------------------------------------------------------
(* Messages are sequences of numbers. *)

\* Where the words of s and t are in u.
Layout(u, s, t) ==
    /\ u \in Seq(Nat) /\ Len(s) \in Nat /\ Len(t) \in Nat
    /\ Len(u) = Len(s) + Len(t)
    /\ \A i \in 1 .. Len(s) : u[i] = s[i]
    /\ \A i \in 1 .. Len(t) : u[Len(s) + i] = t[i]

LEMMA Joined ==
    ASSUME NEW s \in Seq(Nat), NEW t \in Seq(Nat)
    PROVE  Layout(s \o t, s, t)
<1>1. Len(s) \in Nat /\ Len(t) \in Nat
  BY LenProperties
<1>2. s \o t \in Seq(Nat) /\ Len(s \o t) = Len(s) + Len(t)
  BY ConcatProperties
<1>3. \A i \in 1 .. Len(s) + Len(t) :
         (s \o t)[i] = IF i <= Len(s) THEN s[i] ELSE t[i - Len(s)]
  BY ConcatProperties
<1>4. \A i \in 1 .. Len(s) : (s \o t)[i] = s[i]
  BY <1>1, <1>3
<1>5. \A i \in 1 .. Len(t) : (s \o t)[Len(s) + i] = t[i]
  <2> TAKE i \in 1 .. Len(t)
  <2>1. Len(s) + i \in 1 .. Len(s) + Len(t) /\ ~(Len(s) + i <= Len(s))
        /\ Len(s) + i - Len(s) = i
    BY <1>1
  <2> QED
    BY <1>3, <2>1
<1> QED
  BY <1>1, <1>2, <1>4, <1>5 DEF Layout

\* The part of s from word m to word n.
LEMMA Cut ==
    ASSUME NEW s \in Seq(Nat), NEW m \in 1 .. Len(s) + 1, NEW n \in m - 1 .. Len(s)
    PROVE  /\ SubSeq(s, m, n) \in Seq(Nat)
           /\ Len(SubSeq(s, m, n)) = n - m + 1
           /\ \A i \in 1 .. n - m + 1 : SubSeq(s, m, n)[i] = s[m + i - 1]
<1>1. Len(s) \in Nat
  BY LenProperties
<1>2. m \in Int /\ n \in Int
  BY <1>1
<1>3. \A i \in m .. n : s[i] \in Nat
  <2> TAKE i \in m .. n
  <2>1. i \in 1 .. Len(s)
    BY <1>1
  <2> QED
    BY <2>1, ElementOfSeq
<1>4. Len(SubSeq(s, m, n)) = IF m <= n THEN n - m + 1 ELSE 0
  BY <1>2, <1>3, SubSeqProperties
<1>5. SubSeq(s, m, n) \in Seq(Nat)
      /\ \A i \in 1 .. n - m + 1 : SubSeq(s, m, n)[i] = s[m + i - 1]
  BY <1>2, <1>3, SubSeqProperties
<1>6. Len(SubSeq(s, m, n)) = n - m + 1
  BY <1>1, <1>2, <1>4
<1> QED
  BY <1>5, <1>6

\* What follows s in s \o t is t, and a cut of it a prefix of t.
LEMMA Rest ==
    ASSUME NEW s \in Seq(Nat), NEW t \in Seq(Nat), NEW n \in Len(s) .. Len(s) + Len(t)
    PROVE  SubSeq(s \o t, Len(s) + 1, n) = SubSeq(t, 1, n - Len(s))
<1>1. PICK u : u = s \o t
  BY Zenon
<1>2. Layout(u, s, t)
  BY <1>1, Joined
<1>3. u \in Seq(Nat) /\ Len(s) \in Nat /\ Len(t) \in Nat /\ Len(u) = Len(s) + Len(t)
  BY <1>2 DEF Layout
<1>4. PICK m \in 1 .. Len(u) + 1 : m = Len(s) + 1
  BY <1>3
<1>5. n \in m - 1 .. Len(u) /\ n - Len(s) \in 1 - 1 .. Len(t) /\ 1 \in 1 .. Len(t) + 1
      /\ n - m + 1 = n - Len(s) /\ n - Len(s) - 1 + 1 = n - Len(s)
  BY <1>3, <1>4
<1> DEFINE a == SubSeq(u, m, n)
           b == SubSeq(t, 1, n - Len(s))
<1>6. a \in Seq(Nat) /\ Len(a) = n - Len(s)
      /\ \A i \in 1 .. n - Len(s) : a[i] = u[m + i - 1]
  <2>1. a \in Seq(Nat) /\ Len(a) = n - m + 1
        /\ \A i \in 1 .. n - m + 1 : a[i] = u[m + i - 1]
    BY <1>3, <1>5, Cut, Zenon
  <2> HIDE DEF a
  <2> QED
    BY <1>5, <2>1
<1>7. b \in Seq(Nat) /\ Len(b) = n - Len(s)
      /\ \A i \in 1 .. n - Len(s) : b[i] = t[1 + i - 1]
  BY <1>5, Cut
<1>8. \A i \in 1 .. n - Len(s) : a[i] = b[i]
  <2> TAKE i \in 1 .. n - Len(s)
  <2>1. m + i - 1 = Len(s) + i /\ 1 + i - 1 = i /\ i \in 1 .. Len(t)
    BY <1>3, <1>4, <1>5
  <2>2. u[Len(s) + i] = t[i]
    BY <1>2, <2>1 DEF Layout
  <2> HIDE DEF a, b
  <2> QED
    BY <1>6, <1>7, <2>1, <2>2, Zenon
<1>9. a = b
  <2> HIDE DEF a, b
  <2> QED
    BY <1>6, <1>7, <1>8, SeqEqual, Zenon
<1> QED
  BY <1>1, <1>4, <1>9

\* Cutting the end off first makes no difference.
LEMMA CutOfCut ==
    ASSUME NEW s \in Seq(Nat), NEW c \in 0 .. Len(s), NEW m \in 1 .. c + 1
    PROVE  SubSeq(SubSeq(s, 1, c), m, c) = SubSeq(s, m, c)
<1>1. Len(s) \in Nat
  BY LenProperties
<1>2. PICK d : d = SubSeq(s, 1, c)
  BY Zenon
<1>3. 1 \in 1 .. Len(s) + 1 /\ c \in 1 - 1 .. Len(s) /\ c - 1 + 1 = c
      /\ m \in 1 .. Len(s) + 1 /\ c \in m - 1 .. Len(s)
  BY <1>1
<1>4. d \in Seq(Nat) /\ Len(d) = c - 1 + 1 /\ \A i \in 1 .. c - 1 + 1 : d[i] = s[1 + i - 1]
  BY <1>2, <1>3, Cut
<1>5. Len(d) = c /\ \A i \in 1 .. c : d[i] = s[i]
  <2>1. \A i \in 1 .. c : 1 + i - 1 = i
    BY <1>1
  <2> QED
    BY <1>3, <1>4, <2>1, Zenon
<1>6. m \in 1 .. Len(d) + 1 /\ c \in m - 1 .. Len(d)
  BY <1>1, <1>5
<1> DEFINE a == SubSeq(d, m, c)
           b == SubSeq(s, m, c)
<1>7. a \in Seq(Nat) /\ Len(a) = c - m + 1 /\ \A i \in 1 .. c - m + 1 : a[i] = d[m + i - 1]
  BY <1>4, <1>6, Cut
<1>8. b \in Seq(Nat) /\ Len(b) = c - m + 1 /\ \A i \in 1 .. c - m + 1 : b[i] = s[m + i - 1]
  BY <1>3, Cut
<1> HIDE DEF a, b
<1>9. \A i \in 1 .. c - m + 1 : a[i] = b[i]
  <2>1. \A i \in 1 .. c - m + 1 : m + i - 1 \in 1 .. c
    BY <1>1
  <2> QED
    BY <1>5, <1>7, <1>8, <2>1, Zenon
<1>10. a = b
  BY <1>7, <1>8, <1>9, SeqEqual
<1> QED
  BY <1>2, <1>10 DEF a, b

-----------------------------------------------------------------------------
(* The call. *)

\* The same word n times.
LEMMA Filled ==
    ASSUME NEW n \in Nat, NEW w \in Nat
    PROVE  /\ [i \in 1 .. n |-> w] \in Seq(Nat)
           /\ Len([i \in 1 .. n |-> w]) = n
<1>1. [i \in 1 .. n |-> w] \in [1 .. n -> Nat]
  OBVIOUS
<1>2. [i \in 1 .. n |-> w] \in Seq(Nat)
  BY <1>1, SeqDef
<1> QED
  BY <1>2, LenProperties

\* The credential is ten words: its flavour, its length of 32 bytes, and the
\* words that this length counts.
LEMMA Credential ==
    ASSUME NEW c, c = write_auth_sys_cred(0, 0, 0, <<>>)
    PROVE  /\ c \in Seq(Nat) /\ Len(c) = 10
           /\ c[1] = AUTH_SYS /\ c[2] = 32 /\ c[4] = 9 /\ c[10] = 0
<1> DEFINE two == <<0, 9>>
           name == [i \in 1 .. 3 |-> 0]
           ids == <<0, 0, 0>>
           front == two \o name
           cred == front \o ids
           head == <<AUTH_SYS, 32>>
<1>1. two \in Seq(Nat) /\ Len(two) = 2 /\ two[2] = 9
  OBVIOUS
<1>2. name \in Seq(Nat) /\ Len(name) = 3
  BY Filled
<1>3. ids \in Seq(Nat) /\ Len(ids) = 3 /\ ids[3] = 0
  OBVIOUS
<1>4. head \in Seq(Nat) /\ Len(head) = 2 /\ head[1] = AUTH_SYS /\ head[2] = 32
  BY DEF AUTH_SYS
<1> HIDE DEF two, name, ids, head
<1>5. Layout(front, two, name)
  BY <1>1, <1>2, Joined
<1> HIDE DEF front
<1>6. front \in Seq(Nat) /\ Len(front) = 5 /\ front[2] = 9
  BY <1>1, <1>2, <1>5 DEF Layout
<1>7. Layout(cred, front, ids)
  BY <1>3, <1>6, Joined
<1>8. cred \o <<>> = cred
  BY <1>7, ConcatEmptySeq DEF Layout
<1>9. c = <<AUTH_SYS, 4 * Len(cred)>> \o cred
  <2>1. Len(<<>>) = 0 /\ 12 \div 4 = 3
    OBVIOUS
  <2>2. cred = <<0, HostLen>> \o [i \in 1 .. HostBytes(HostLen) \div 4 |-> 0]
               \o <<0, 0, Len(<<>>)>> \o <<>>
    BY <1>8, <2>1, HostBytesValue, Zenon DEF front, two, name, ids, HostLen
  <2> HIDE DEF cred
  <2> QED
    BY <2>2 DEF write_auth_sys_cred
<1> HIDE DEF cred
<1>10. cred \in Seq(Nat) /\ Len(cred) = 8 /\ cred[2] = 9 /\ cred[8] = 0
  BY <1>3, <1>6, <1>7 DEF Layout
<1> DEFINE whole == head \o cred
<1>11. Layout(whole, head, cred)
  BY <1>4, <1>10, Joined
<1>12. c = whole
  <2>1. 4 * Len(cred) = 32
    BY <1>10
  <2> QED
    BY <1>9, <2>1 DEF head
<1> HIDE DEF whole
<1>13. whole \in Seq(Nat) /\ Len(whole) = 10
       /\ whole[1] = AUTH_SYS /\ whole[2] = 32 /\ whole[4] = 9 /\ whole[10] = 0
  BY <1>4, <1>10, <1>11 DEF Layout
<1> QED
  BY <1>12, <1>13, Zenon

\* The words of call m that a server looks at.
CallWords(m, xid, prog, vers, proc, args) ==
    /\ m[1] = xid /\ m[4] = prog /\ m[5] = vers /\ m[6] = proc
    /\ m[7] = AUTH_SYS /\ m[8] = 32 /\ m[10] = 9 /\ m[16] = 0 /\ m[18] = 0
    /\ SubSeq(m, 19, Len(m)) = args

\* A call is eighteen words, at the places where a server looks for them, and
\* the arguments.
LEMMA CallLayout ==
    ASSUME NEW xid \in Nat, NEW prog \in Nat, NEW vers \in Nat, NEW proc \in Nat,
           NEW args \in Seq(Nat), NEW m, m = build_call(xid, prog, vers, proc, args)
    PROVE  CallWords(m, xid, prog, vers, proc, args)
<1> DEFINE h == <<xid, CALL, RPCVERS, prog, vers, proc>>
           c == write_auth_sys_cred(0, 0, 0, <<>>)
           hc == h \o c
           pre == hc \o write_auth_none
<1>1. h \in Seq(Nat) /\ Len(h) = 6
      /\ h[1] = xid /\ h[4] = prog /\ h[5] = vers /\ h[6] = proc
  BY DEF CALL, RPCVERS
<1>2. write_auth_none \in Seq(Nat) /\ Len(write_auth_none) = 2 /\ write_auth_none[2] = 0
  BY DEF write_auth_none, AUTH_NONE
<1> HIDE DEF h, c
<1>3. c \in Seq(Nat) /\ Len(c) = 10
      /\ c[1] = AUTH_SYS /\ c[2] = 32 /\ c[4] = 9 /\ c[10] = 0
  BY Credential DEF c
<1>4. Layout(hc, h, c)
  BY <1>1, <1>3, Joined
<1> HIDE DEF hc
<1>5. hc \in Seq(Nat) /\ Len(hc) = 16
      /\ hc[1] = xid /\ hc[4] = prog /\ hc[5] = vers /\ hc[6] = proc
      /\ hc[7] = AUTH_SYS /\ hc[8] = 32 /\ hc[10] = 9 /\ hc[16] = 0
  BY <1>1, <1>3, <1>4 DEF Layout
<1>6. Layout(pre, hc, write_auth_none)
  BY <1>2, <1>5, Joined
<1>7. m = pre \o args
  BY DEF build_call, hc, h, c
<1> HIDE DEF pre
<1>8. pre \in Seq(Nat) /\ Len(pre) = 18
      /\ pre[1] = xid /\ pre[4] = prog /\ pre[5] = vers /\ pre[6] = proc
      /\ pre[7] = AUTH_SYS /\ pre[8] = 32 /\ pre[10] = 9 /\ pre[16] = 0 /\ pre[18] = 0
  BY <1>2, <1>5, <1>6 DEF Layout
<1>9. Layout(m, pre, args)
  BY <1>7, <1>8, Joined
<1>10. SubSeq(m, 19, Len(m)) = args
  <2>1. Len(m) \in Len(pre) .. Len(pre) + Len(args) /\ Len(m) - Len(pre) = Len(args)
        /\ Len(pre) + 1 = 19
    BY <1>8, <1>9 DEF Layout
  <2>2. SubSeq(m, Len(pre) + 1, Len(m)) = SubSeq(args, 1, Len(m) - Len(pre))
    BY <1>7, <1>8, <2>1, Rest, Zenon
  <2> QED
    BY <2>1, <2>2, SubSeqFull, Zenon
<1>11. m[1] = xid /\ m[4] = prog /\ m[5] = vers /\ m[6] = proc
       /\ m[7] = AUTH_SYS /\ m[8] = 32 /\ m[10] = 9 /\ m[16] = 0 /\ m[18] = 0
  BY <1>8, <1>9 DEF Layout
<1> QED
  BY <1>10, <1>11, Zenon DEF CallWords

-----------------------------------------------------------------------------
(* Replies. *)

AcceptedReplies ==
    [xid : Xids, stat : {0}, flavor : Flavors, verf : VerfBytes,
     astat : Stats, body : Bodies]
DeniedReplies == [xid : Xids, stat : {1}, rstat : {0, 1}, body : Bodies \ {<<>>}]

\* The constants are words, the results sequences of words.
LEMMA NaturalWords ==
    /\ \A x \in Xids : x \in Nat
    /\ \A x \in Flavors : x \in Nat
    /\ \A x \in Stats : x \in Nat
    /\ \A n \in VerfBytes : n \in Nat /\ n + 3 < WordMod
    /\ \A b \in Bodies : b \in Seq(Nat)
    /\ \A a \in ArgWords : a \in Seq(Nat)
<1>1. \A x \in Word : x \in Nat
  BY ProtocolAssumption DEF Word
<1>2. Word \subseteq Nat
  BY <1>1
<1>3. \A q \in Seq(Word) : q \in Seq(Nat)
  BY <1>2, SeqMonotonic, Zenon
<1> QED
  BY <1>1, <1>3, ProtocolAssumption

\* The header of an accepted reply: five words, the verifier, accept_stat.
LEMMA AcceptedLayout ==
    ASSUME NEW r \in AcceptedReplies, NEW e, e = EncodeReply(r),
           NEW k, k = Padded(r.verf) \div 4
    PROVE  /\ k \in Nat /\ RoundUp(r.verf) = 4 * k
           /\ e \in Seq(Nat) /\ Header(r) \in Seq(Nat)
           /\ Len(Header(r)) = 6 + k /\ Len(e) = 6 + k + Len(r.body)
           /\ Len(r.body) \in Nat
           /\ e[1] = r.xid /\ e[2] = REPLY /\ e[3] = 0
           /\ e[4] = r.flavor /\ e[5] = r.verf /\ e[6 + k] = r.astat
<1>1. r.xid \in Nat /\ r.flavor \in Nat /\ r.astat \in Nat /\ r.body \in Seq(Nat)
      /\ r.stat = 0 /\ r.verf \in Nat /\ r.verf + 3 < WordMod
  BY NaturalWords DEF AcceptedReplies
<1>2. k \in Nat /\ RoundUp(r.verf) = 4 * k
  BY <1>1, RoundUpIsPadded
<1> DEFINE five == <<r.xid, REPLY, 0, r.flavor, r.verf>>
           fill == [i \in 1 .. k |-> 3]
           last == <<r.astat>>
           front == five \o fill
<1>3. five \in Seq(Nat) /\ Len(five) = 5 /\ five[1] = r.xid /\ five[2] = REPLY
      /\ five[3] = 0 /\ five[4] = r.flavor /\ five[5] = r.verf
  BY <1>1 DEF REPLY
<1>4. fill \in Seq(Nat) /\ Len(fill) = k
  BY <1>2, Filled
<1>5. last \in Seq(Nat) /\ Len(last) = 1 /\ last[1] = r.astat
  BY <1>1
<1>6. Header(r) = front \o last
  BY <1>1 DEF Header
<1> HIDE DEF five, fill, last
<1>7. Layout(front, five, fill)
  BY <1>3, <1>4, Joined
<1> HIDE DEF front
<1>8. front \in Seq(Nat) /\ Len(front) = 5 + k /\ \A i \in 1 .. 5 : front[i] = five[i]
  BY <1>2, <1>3, <1>4, <1>7 DEF Layout
<1>9. Layout(Header(r), front, last)
  BY <1>5, <1>6, <1>8, Joined
<1>10. PICK h : h = Header(r)
  OBVIOUS
<1>11. h \in Seq(Nat) /\ Len(h) = 6 + k /\ h[6 + k] = r.astat
       /\ \A i \in 1 .. 5 : h[i] = five[i]
  <2>1. Layout(h, front, last)
    BY <1>9, <1>10
  <2>2. h[Len(front) + 1] = last[1]
    BY <1>5, <2>1 DEF Layout
  <2>3. h[6 + k] = r.astat
    <3>1. Len(front) + 1 = 6 + k
      BY <1>2, <1>8
    <3> QED
      BY <1>5, <2>2, <3>1, Zenon
  <2>4. h \in Seq(Nat) /\ Len(h) = 6 + k
    BY <1>2, <1>5, <1>8, <2>1 DEF Layout
  <2>5. \A i \in 1 .. 5 + k : h[i] = front[i]
    <3>1. \A i \in 1 .. Len(front) : h[i] = front[i]
      BY <2>1 DEF Layout
    <3> QED
      BY <1>8, <3>1
  <2>6. \A i \in 1 .. 5 : h[i] = front[i]
    BY <1>2, <2>5
  <2> QED
    BY <1>8, <2>3, <2>4, <2>6
<1>12. Layout(e, h, r.body)
  BY <1>1, <1>10, <1>11, Joined DEF EncodeReply
<1>13. PICK b : b = r.body
  OBVIOUS
<1>14. /\ e \in Seq(Nat) /\ Len(e) = 6 + k + Len(b) /\ Len(b) \in Nat
       /\ e[6 + k] = r.astat /\ \A i \in 1 .. 5 : e[i] = five[i]
  <2>1. Layout(e, h, b)
    BY <1>12, <1>13
  <2>2. e \in Seq(Nat) /\ Len(e) = 6 + k + Len(b) /\ Len(b) \in Nat
    BY <1>2, <1>11, <2>1 DEF Layout
  <2>3. \A i \in 1 .. 6 + k : e[i] = h[i]
    BY <1>11, <2>1, Zenon DEF Layout
  <2>4. e[6 + k] = h[6 + k] /\ \A i \in 1 .. 5 : e[i] = h[i]
    BY <1>2, <2>3
  <2> QED
    BY <1>11, <2>2, <2>4
<1>15. e[1] = five[1] /\ e[2] = five[2] /\ e[3] = five[3] /\ e[4] = five[4]
       /\ e[5] = five[5]
  BY <1>14
<1> QED
  BY <1>2, <1>3, <1>10, <1>11, <1>13, <1>14, <1>15, Zenon

\* The header of a denied reply: four words.
LEMMA DeniedLayout ==
    ASSUME NEW r \in DeniedReplies, NEW e, e = EncodeReply(r)
    PROVE  /\ e \in Seq(Nat) /\ Len(e) >= 5 /\ Len(e) \in Nat
           /\ e[1] = r.xid /\ e[2] = REPLY /\ e[3] = 1 /\ e[4] = r.rstat
<1>1. r.xid \in Nat /\ r.rstat \in {0, 1} /\ r.body \in Seq(Nat) /\ r.body # <<>>
      /\ r.stat = 1
  BY NaturalWords DEF DeniedReplies
<1>2. PICK b \in Seq(Nat) : b = r.body
  BY <1>1
<1>3. Len(b) \in Nat /\ Len(b) >= 1
  BY <1>1, <1>2, EmptySeq
<1> DEFINE four == <<r.xid, REPLY, 1, r.rstat>>
<1>4. four \in Seq(Nat) /\ Len(four) = 4 /\ four[1] = r.xid /\ four[2] = REPLY
      /\ four[3] = 1 /\ four[4] = r.rstat
  BY <1>1 DEF REPLY
<1>5. e = four \o b
  BY <1>1, <1>2 DEF EncodeReply, Header
<1> HIDE DEF four
<1>6. Layout(e, four, b)
  BY <1>4, <1>5, Joined
<1>7. e \in Seq(Nat) /\ Len(e) \in Nat /\ Len(e) >= 5
  BY <1>3, <1>4, <1>6 DEF Layout
<1>8. \A i \in 1 .. 4 : e[i] = four[i]
  BY <1>4, <1>6 DEF Layout
<1>9. e[1] = four[1] /\ e[2] = four[2] /\ e[3] = four[3] /\ e[4] = four[4]
  BY <1>8
<1> QED
  BY <1>4, <1>7, <1>9, Zenon

-----------------------------------------------------------------------------
(* parse_reply. *)

\* Reading word i of the first c words of a message.
LEMMA Reads ==
    ASSUME NEW e \in Seq(Nat), NEW c \in 0 .. Len(e), NEW d, d = SubSeq(e, 1, c)
    PROVE  /\ Size(d) = 4 * c
           /\ \A i \in 1 .. c : read_uint32_be(d, 4 * (i - 1)) = e[i]
<1>1. Len(e) \in Nat
  BY LenProperties
<1>2. 1 \in 1 .. Len(e) + 1 /\ c \in 1 - 1 .. Len(e) /\ c - 1 + 1 = c /\ c \in Nat
  BY <1>1
<1>3. Len(d) = c - 1 + 1 /\ \A i \in 1 .. c - 1 + 1 : d[i] = e[1 + i - 1]
  BY <1>2, Cut
<1>4. \A i \in 1 .. c : 1 + i - 1 = i /\ (4 * (i - 1)) \div 4 + 1 = i
  BY <1>2
<1>5. \A i \in 1 .. c : d[i] = e[i]
  BY <1>2, <1>3, <1>4, Zenon
<1>6. \A i \in 1 .. c : read_uint32_be(d, 4 * (i - 1)) = d[i]
  BY <1>4, Zenon DEF read_uint32_be
<1>7. Size(d) = 4 * c
  BY <1>2, <1>3 DEF Size
<1> QED
  BY <1>5, <1>6, <1>7

\* The outcome o of parsing c words of denied reply r for a call with xid x.
Refused(o, r, c, x) ==
    o = Result(IF c < 5 \/ r.xid # x THEN "PROTO_ERR"
               ELSE IF r.rstat = 0 THEN "PROG_MISMATCH" ELSE "AUTH_ERROR", <<>>)

\* What parse_reply makes of the first c words of a denied reply.
LEMMA DeniedParsed ==
    ASSUME NEW r \in DeniedReplies, NEW e, e = EncodeReply(r), NEW c \in 0 .. Len(e),
           NEW x, NEW o \in parse_reply(SubSeq(e, 1, c), x)
    PROVE  Refused(o, r, c, x)
<1>1. e \in Seq(Nat) /\ Len(e) \in Nat
      /\ e[1] = r.xid /\ e[2] = REPLY /\ e[3] = 1 /\ e[4] = r.rstat
  BY DeniedLayout
<1>2. r.rstat \in {0, 1}
  BY DEF DeniedReplies
<1>3. PICK d : d = SubSeq(e, 1, c)
  BY Zenon
<1>4. Size(d) = 4 * c /\ \A i \in 1 .. c : read_uint32_be(d, 4 * (i - 1)) = e[i]
  BY <1>1, <1>3, Reads, Zenon
<1>5. c < 5 <=> Size(d) < 20
  BY <1>1, <1>4
<1>6. CASE c < 5
  BY <1>3, <1>5, <1>6, Zenon DEF parse_reply, ProtoErr, Refused
<1>7. CASE ~(c < 5)
  <2>1. 1 \in 1 .. c /\ 2 \in 1 .. c /\ 3 \in 1 .. c /\ 4 \in 1 .. c
        /\ 4 * (1 - 1) = 0 /\ 4 * (2 - 1) = 4 /\ 4 * (3 - 1) = 8 /\ 4 * (4 - 1) = 12
    BY <1>1, <1>7
  <2>2. read_uint32_be(d, 0) = r.xid /\ read_uint32_be(d, 4) = REPLY
        /\ read_uint32_be(d, 8) = 1 /\ read_uint32_be(d, 12) = r.rstat
    BY <1>1, <1>4, <2>1, Zenon
  <2>3. o \in IF r.xid # x THEN ProtoErr ELSE Denied(d)
    <3>1. ~(Size(d) < 20) /\ 1 # 0
      BY <1>5, <1>7
    <3> QED
      BY <1>3, <2>2, <3>1, Zenon DEF parse_reply
  <2>4. Denied(d) = IF r.rstat = 0 THEN {Result("PROG_MISMATCH", <<>>)}
                    ELSE {Result("AUTH_ERROR", <<>>)}
    BY <1>2, <2>2, Zenon DEF Denied
  <2> QED
    BY <1>7, <2>3, <2>4, Zenon DEF ProtoErr, Refused
<1> QED
  BY <1>6, <1>7

\* The outcome o of parsing c words of accepted reply r for a call with xid x.
Understood(o, r, c, x) ==
    LET n == Len(Header(r))
    IN  /\ c < n - 1 \/ r.xid # x => o = Result("PROTO_ERR", <<>>)
        /\ c >= n /\ r.xid = x =>
             o = IF r.astat = 0 THEN Result("OK", SubSeq(r.body, 1, c - n))
                 ELSE Meaning(r)

\* What parse_reply makes of the first c words of an accepted reply, unless it
\* ends just before accept_stat: nothing while the header is not complete, and
\* then its meaning, with as many results as there are.
LEMMA AcceptedParsed ==
    ASSUME NEW r \in AcceptedReplies, NEW e, e = EncodeReply(r), NEW c \in 0 .. Len(e),
           NEW x, NEW o \in parse_reply(SubSeq(e, 1, c), x), ~TakesSecondVerifier(r)
    PROVE  Understood(o, r, c, x)
<1>1. PICK k : k = Padded(r.verf) \div 4
  OBVIOUS
<1>2. PICK n : n = Len(Header(r))
  BY Zenon
<1>3. /\ k \in Nat /\ RoundUp(r.verf) = 4 * k
      /\ e \in Seq(Nat) /\ Header(r) \in Seq(Nat)
      /\ n = 6 + k /\ Len(e) = 6 + k + Len(r.body) /\ Len(r.body) \in Nat
      /\ e[1] = r.xid /\ e[2] = REPLY /\ e[3] = 0
      /\ e[4] = r.flavor /\ e[5] = r.verf /\ e[6 + k] = r.astat
  BY <1>1, <1>2, AcceptedLayout, Zenon
<1>4. r.stat = 0 /\ r.astat \in Nat /\ r.body \in Seq(Nat)
      /\ ~(r.astat = 0 /\ r.flavor = AUTH_SYS)
  BY NaturalWords DEF AcceptedReplies, TakesSecondVerifier
<1>5. PICK d : d = SubSeq(e, 1, c)
  BY Zenon
<1>6. Size(d) = 4 * c /\ \A i \in 1 .. c : read_uint32_be(d, 4 * (i - 1)) = e[i]
  BY <1>3, <1>5, Reads, Zenon
<1>7. c \in Nat /\ (c < 5 <=> Size(d) < 20)
  <2>1. Len(e) \in Nat
    BY <1>3, LenProperties, Zenon
  <2> QED
    BY <1>6, <2>1
<1>8. CASE c < 5
  <2>1. o = Result("PROTO_ERR", <<>>) /\ ~(c >= n)
    BY <1>3, <1>5, <1>7, <1>8 DEF parse_reply, ProtoErr
  <2> QED
    BY <1>2, <2>1, Zenon DEF Understood
<1>9. CASE ~(c < 5)
  <2>1. 1 \in 1 .. c /\ 2 \in 1 .. c /\ 3 \in 1 .. c /\ 4 \in 1 .. c /\ 5 \in 1 .. c
        /\ 4 * (1 - 1) = 0 /\ 4 * (2 - 1) = 4 /\ 4 * (3 - 1) = 8 /\ 4 * (4 - 1) = 12
        /\ 4 * (5 - 1) = 16
    BY <1>7, <1>9
  <2>2. read_uint32_be(d, 0) = r.xid /\ read_uint32_be(d, 4) = REPLY
        /\ read_uint32_be(d, 8) = 0 /\ read_uint32_be(d, 12) = r.flavor
        /\ read_uint32_be(d, 16) = r.verf
    BY <1>3, <1>6, <2>1, Zenon
  <2>3. o \in IF r.xid # x THEN ProtoErr ELSE Accepted(d)
    <3>1. ~(Size(d) < 20)
      BY <1>7, <1>9
    <3> QED
      BY <1>5, <2>2, <3>1, Zenon DEF parse_reply
  <2>4. 20 + RoundUp(read_uint32_be(d, 16)) = 20 + 4 * k
    BY <1>3, <2>2, Zenon
  <2>5. c < n - 1 => Accepted(d) = ProtoErr
    <3> HAVE c < n - 1
    <3>1. 20 + 4 * k > Size(d)
      BY <1>3, <1>6, <1>7
    <3> QED
      BY <2>4, <3>1, Zenon DEF Accepted
  <2>6. c >= n => Accepted(d) = IF r.astat = 0 THEN Success(d, r.flavor, 24 + 4 * k)
                                ELSE {Meaning(r)}
    <3> HAVE c >= n
    <3>1. ~(20 + 4 * k > Size(d)) /\ ~(20 + 4 * k + 4 > Size(d))
          /\ 20 + 4 * k + 4 = 24 + 4 * k
          /\ 6 + k \in 1 .. c /\ 4 * (6 + k - 1) = 20 + 4 * k
      BY <1>3, <1>6, <1>7
    <3>2. read_uint32_be(d, 20 + 4 * k) = r.astat
      <4>1. PICK i \in 1 .. c : i = 6 + k
        BY <3>1
      <4>2. read_uint32_be(d, 4 * (i - 1)) = e[i]
        BY <1>6
      <4>3. 4 * (i - 1) = 20 + 4 * k
        BY <1>3, <4>1
      <4>4. e[i] = r.astat
        BY <1>3, <4>1, Zenon
      <4> QED
        BY <4>2, <4>3, <4>4, Zenon
    <3>3. Accepted(d) = IF r.astat = 0 THEN Success(d, r.flavor, 24 + 4 * k)
                        ELSE IF r.astat \in DOMAIN AcceptStatus
                             THEN {Result(AcceptStatus[r.astat], <<>>)}
                        ELSE ProtoErr
      BY <2>2, <2>4, <3>1, <3>2, Zenon DEF Accepted
    <3>4. DOMAIN AcceptStatus = 1 .. 4
      BY DEF AcceptStatus
    <3>5. r.stat # 1
      BY <1>4
    <3> QED
      BY <3>3, <3>4, <3>5, Zenon DEF Meaning, ProtoErr
  <2>7. c >= n /\ r.astat = 0 => Success(d, r.flavor, 24 + 4 * k)
                                    = {Result("OK", SubSeq(r.body, 1, c - n))}
    <3> HAVE c >= n /\ r.astat = 0
    <3>1. Success(d, r.flavor, 24 + 4 * k) = {Result("OK", From(d, 24 + 4 * k))}
      BY <1>4, Zenon DEF Success
    <3>2. (24 + 4 * k) \div 4 + 1 = n + 1
      BY <1>3
    <3>3. Len(d) = c
      <4>1. Len(e) \in Nat
        BY <1>3, LenProperties, Zenon
      <4>2. 1 \in 1 .. Len(e) + 1 /\ c \in 1 - 1 .. Len(e) /\ c - 1 + 1 = c
        BY <1>7, <4>1
      <4> QED
        BY <1>3, <1>5, <4>2, Cut
    <3>4. From(d, 24 + 4 * k) = SubSeq(e, n + 1, c)
      <4>1. n + 1 \in 1 .. c + 1
        BY <1>3, <1>7
      <4>2. SubSeq(d, n + 1, c) = SubSeq(e, n + 1, c)
        BY <1>3, <1>5, <4>1, CutOfCut, Zenon
      <4> QED
        BY <3>2, <3>3, <4>2, Zenon DEF From
    <3>5. SubSeq(e, n + 1, c) = SubSeq(r.body, 1, c - n)
      <4>1. PICK h \in Seq(Nat), b \in Seq(Nat) : h = Header(r) /\ b = r.body
        BY <1>3, <1>4
      <4>2. n = Len(h) /\ n \in Nat /\ Len(b) \in Nat /\ Len(e) = n + Len(b)
        <5>1. n = Len(h) /\ Len(b) \in Nat /\ Len(e) = n + Len(b)
          BY <1>2, <1>3, <4>1, Zenon
        <5>2. n \in Nat
          BY <1>3
        <5> QED
          BY <5>1, <5>2
      <4>3. c <= Len(e)
        <5>1. Len(e) \in Nat
          BY <1>3, LenProperties, Zenon
        <5> QED
          BY <5>1
      <4>4. c \in Len(h) .. Len(h) + Len(b)
        BY <1>7, <4>2, <4>3
      <4>5. SubSeq(h \o b, Len(h) + 1, c) = SubSeq(b, 1, c - Len(h))
        BY <4>4, Rest
      <4> QED
        BY <4>1, <4>2, <4>5, Zenon DEF EncodeReply
    <3> QED
      BY <3>1, <3>4, <3>5, Zenon
  <2>8. n \in Nat /\ ~(c < n - 1 /\ c >= n)
    BY <1>3, <1>7
  <2> QED
    BY <1>2, <2>3, <2>5, <2>6, <2>7, <2>8, Zenon DEF ProtoErr, Understood
<1> QED
  BY <1>8, <1>9

-----------------------------------------------------------------------------
(* The exchange. *)

\* Before the server has answered, the message is the call; from then on it is
\* the part of the reply that came, and the outcome is one of parse_reply's.
IndInv ==
    /\ req \in [xid : Xids, prog : {3, 5}, vers : {3}, proc : {0, 1}, args : ArgWords]
    /\ phase = "called" =>
        wire = build_call(req.xid, req.prog, req.vers, req.proc, req.args)
    /\ phase \in {"served", "parsed"} =>
        /\ rep \in Replies
        /\ cut \in 0 .. Len(EncodeReply(rep))
        /\ wire = SubSeq(EncodeReply(rep), 1, cut)
    /\ phase = "parsed" => out \in parse_reply(wire, req.xid)

\* It holds initially and is kept by every step.
LEMMA Exchange == Spec => []IndInv
<1>1. Init => IndInv
  BY Zenon DEF Init, IndInv
<1>2. IndInv /\ [Next]_vars => IndInv'
  <2> SUFFICES ASSUME IndInv, [Next]_vars PROVE IndInv'
    OBVIOUS
  <2>1. CASE Call
    BY <2>1, Zenon DEF Call, IndInv
  <2>2. CASE Serve
    BY <2>2, Zenon DEF Serve, IndInv
  <2>3. CASE Parse
    BY <2>3, Zenon DEF Parse, IndInv
  <2>4. CASE UNCHANGED vars
    BY <2>4, Zenon DEF vars, IndInv
  <2> QED
    BY <2>1, <2>2, <2>3, <2>4 DEF Next
<1> QED
  BY <1>1, <1>2, PTL DEF Spec

\* Whatever is asked, a server that follows RFC 5531 decodes from build_call's
\* message what the caller asked for (rpc_protocol.hpp:108).
THEOREM CallsDecode == Spec => []CallDecodes
<1>1. IndInv => CallDecodes
  <2> SUFFICES ASSUME IndInv, phase = "called"
               PROVE  DecodeCall(wire) = req /\ CredentialExact(wire)
    BY DEF CallDecodes
  <2>1. req \in [xid : Xids, prog : {3, 5}, vers : {3}, proc : {0, 1}, args : ArgWords]
    BY DEF IndInv
  <2>2. req.xid \in Nat /\ req.prog \in Nat /\ req.vers \in Nat /\ req.proc \in Nat
        /\ req.args \in Seq(Nat)
    BY <2>1, NaturalWords
  <2>3. wire = build_call(req.xid, req.prog, req.vers, req.proc, req.args)
    BY DEF IndInv
  <2>4. /\ wire[1] = req.xid /\ wire[4] = req.prog /\ wire[5] = req.vers
        /\ wire[6] = req.proc /\ wire[7] = AUTH_SYS /\ wire[8] = 32 /\ wire[10] = 9
        /\ wire[16] = 0 /\ wire[18] = 0
        /\ SubSeq(wire, 19, Len(wire)) = req.args
    <3>1. CallWords(wire, req.xid, req.prog, req.vers, req.proc, req.args)
      BY <2>2, <2>3, CallLayout, Zenon
    <3> QED
      BY <3>1, Zenon DEF CallWords
  <2>5. Padded(32) \div 4 = 8 /\ Padded(0) \div 4 = 0 /\ Padded(9) \div 4 = 3
    BY DEF Padded
  <2>6. DecodeCall(wire) = [xid |-> req.xid, prog |-> req.prog, vers |-> req.vers,
                            proc |-> req.proc, args |-> req.args]
    <3>1. 9 + 8 = 17 /\ 17 + 1 = 18 /\ 17 + 2 + 0 = 19
      OBVIOUS
    <3> QED
      BY <2>4, <2>5, <3>1, ZenonT(40) DEF DecodeCall
  <2>7. CredentialExact(wire)
    <3>1. 13 + 3 = 16 /\ 32 = 4 * (5 + 3 + 0)
      OBVIOUS
    <3> QED
      BY <2>4, <2>5, <3>1, ZenonT(40) DEF CredentialExact
  <2>8. DecodeCall(wire) = req
    BY <2>1, <2>6
  <2> QED
    BY <2>7, <2>8
<1> QED
  BY <1>1, Exchange, PTL

\* Every complete reply is given its meaning, for verifiers and results of any
\* length (rpc_protocol.hpp:130).
THEOREM RepliesParsed == Spec => []ReplyParsed
<1>1. IndInv => ReplyParsed
  <2> SUFFICES ASSUME IndInv, phase = "parsed", Whole, ~TakesSecondVerifier(rep)
               PROVE  out = IF rep.xid = req.xid THEN Meaning(rep)
                            ELSE Result("PROTO_ERR", <<>>)
    BY DEF ReplyParsed
  <2>1. rep \in Replies /\ cut \in 0 .. Len(EncodeReply(rep))
        /\ out \in parse_reply(SubSeq(EncodeReply(rep), 1, cut), req.xid)
    BY Zenon DEF IndInv
  <2>2. rep \in AcceptedReplies \/ rep \in DeniedReplies
    BY <2>1, Zenon DEF Replies, AcceptedReplies, DeniedReplies
  <2>3. CASE rep \in DeniedReplies
    <3>1. ~(cut < 5)
      <4>1. Len(EncodeReply(rep)) >= 5 /\ Len(EncodeReply(rep)) \in Nat
        BY <2>3, DeniedLayout
      <4> QED
        BY <4>1 DEF Whole
    <3>2. rep.stat = 1
      BY <2>3 DEF DeniedReplies
    <3>3. Refused(out, rep, cut, req.xid)
      BY <2>1, <2>3, DeniedParsed, Zenon
    <3> QED
      BY <3>1, <3>2, <3>3, Zenon DEF Meaning, Refused
  <2>4. CASE rep \in AcceptedReplies
    <3>1. PICK n, b : n = Len(Header(rep)) /\ b = rep.body
      BY Zenon
    <3>2. n \in Nat /\ Len(b) \in Nat /\ cut = n + Len(b)
      <4>1. PICK k : k = Padded(rep.verf) \div 4
        OBVIOUS
      <4>2. k \in Nat /\ n = 6 + k /\ Len(EncodeReply(rep)) = 6 + k + Len(b)
            /\ Len(b) \in Nat
        BY <2>4, <3>1, <4>1, AcceptedLayout
      <4>3. cut = 6 + k + Len(b)
        BY <4>2, Zenon DEF Whole
      <4> QED
        BY <4>2, <4>3
    <3>3. cut >= n /\ cut - n = Len(b)
      BY <3>2
    <3>4. SubSeq(b, 1, cut - n) = b /\ rep.stat # 1
      <4>1. b \in Seq(Nat) /\ rep.stat = 0
        BY <2>4, <3>1, NaturalWords DEF AcceptedReplies
      <4>2. SubSeq(b, 1, Len(b)) = b
        BY <4>1, SubSeqFull
      <4> QED
        BY <3>3, <4>1, <4>2
    <3>5. Understood(out, rep, cut, req.xid)
      BY <2>1, <2>4, AcceptedParsed, Zenon
    <3>6. rep.xid # req.xid => out = Result("PROTO_ERR", <<>>)
      BY <3>5, Zenon DEF Understood
    <3>7. rep.xid = req.xid =>
            out = IF rep.astat = 0 THEN Result("OK", SubSeq(b, 1, cut - n))
                  ELSE Meaning(rep)
      BY <3>1, <3>3, <3>5, Zenon DEF Understood
    <3> QED
      BY <3>1, <3>4, <3>6, <3>7, Zenon DEF Meaning
  <2> QED
    BY <2>2, <2>3, <2>4
<1> QED
  BY <1>1, Exchange, PTL

\* A reply that was cut anywhere but just before accept_stat is never taken for
\* more than it is (rpc_protocol.hpp:133, 158).
THEOREM CutRepliesNotInvented == Spec => []CutReplyNotInvented
<1>1. IndInv => CutReplyNotInvented
  <2> SUFFICES ASSUME IndInv, phase = "parsed", ~TakesSecondVerifier(rep),
                      cut # Len(Header(rep)) - 1, out.status = "OK"
               PROVE  /\ rep.xid = req.xid /\ cut >= Len(Header(rep))
                      /\ rep.stat = 0 /\ rep.astat = 0
                      /\ \E n \in 0 .. Len(rep.body) : out.body = SubSeq(rep.body, 1, n)
    BY DEF CutReplyNotInvented
  <2>1. rep \in Replies /\ cut \in 0 .. Len(EncodeReply(rep))
        /\ out \in parse_reply(SubSeq(EncodeReply(rep), 1, cut), req.xid)
    BY Zenon DEF IndInv
  <2>2. rep \in AcceptedReplies \/ rep \in DeniedReplies
    BY <2>1, Zenon DEF Replies, AcceptedReplies, DeniedReplies
  <2>3. \A b : out # Result("PROTO_ERR", b) /\ out # Result("PROG_MISMATCH", b)
               /\ out # Result("AUTH_ERROR", b)
    BY DEF Result
  <2>4. rep \notin DeniedReplies
    <3>1. rep \in DeniedReplies => Refused(out, rep, cut, req.xid)
      BY <2>1, DeniedParsed, Zenon
    <3> QED
      BY <2>3, <3>1, Zenon DEF Refused
  <2>5. rep \in AcceptedReplies
    BY <2>2, <2>4
  <2>6. PICK n, b : n = Len(Header(rep)) /\ b = rep.body
    OBVIOUS
  <2>7. n \in Nat /\ Len(b) \in Nat /\ cut \in 0 .. n + Len(b)
    <3>1. PICK k : k = Padded(rep.verf) \div 4
      OBVIOUS
    <3>2. k \in Nat /\ n = 6 + k /\ Len(EncodeReply(rep)) = 6 + k + Len(b)
          /\ Len(b) \in Nat
      BY <2>5, <2>6, <3>1, AcceptedLayout
    <3>3. cut \in 0 .. 6 + k + Len(b)
      BY <2>1, <3>2, Zenon
    <3> QED
      BY <3>2, <3>3
  <2>8. Understood(out, rep, cut, req.xid)
    BY <2>1, <2>5, AcceptedParsed, Zenon
  <2>9. rep.xid = req.xid /\ ~(cut < n - 1)
    BY <2>3, <2>6, <2>8, Zenon DEF Understood
  <2>10. cut >= n /\ cut - n \in 0 .. Len(b)
    BY <2>6, <2>7, <2>9
  <2>11. out = IF rep.astat = 0 THEN Result("OK", SubSeq(b, 1, cut - n))
               ELSE Meaning(rep)
    BY <2>6, <2>9, <2>10, <2>8, Zenon DEF Understood
  <2>12. rep.stat = 0
    BY <2>5 DEF AcceptedReplies
  <2>13. rep.astat = 0
    <3>1. SUFFICES ASSUME rep.astat # 0 PROVE out.status # "OK"
      OBVIOUS
    <3>2. out = Meaning(rep)
      BY <2>11, <3>1
    <3>3. \A i \in 1 .. 4 : AcceptStatus[i] # "OK"
      BY DEF AcceptStatus
    <3>4. rep.stat # 1
      BY <2>12
    <3>5. \/ rep.astat \in 1 .. 4 /\ out = Result(AcceptStatus[rep.astat], <<>>)
          \/ out = Result("PROTO_ERR", <<>>)
      BY <3>1, <3>2, <3>4, Zenon DEF Meaning
    <3> QED
      BY <3>3, <3>5 DEF Result
  <2>14. out.body = SubSeq(b, 1, cut - n)
    BY <2>11, <2>13, Zenon DEF Result
  <2> QED
    BY <2>6, <2>9, <2>10, <2>12, <2>13, <2>14, Zenon
<1> QED
  BY <1>1, Exchange, PTL

=============================================================================
