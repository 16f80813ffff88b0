--------------------------- MODULE PublicKeyProofs --------------------------
(***************************************************************************)
(* What holds of resolve_public_key for all keys of the right lengths, and *)
(* any number of changes of the attribute. The parsers look for marks in   *)
(* the bytes; the lemmas say where the marks of an encoding are: in its    *)
(* head, at places that are known, or in the key. Lemmas that are applied  *)
(* to concrete bytes conclude in named predicates, which the provers match *)
(* more easily than quantified formulas.                                   *)
(***************************************************************************)
EXTENDS PublicKey, SequenceTheorems, FiniteSetTheorems, TLAPS

-----------------------------------------------------------------------------
(* Marks.                                                                  *)

(* A sequence of n numbers.                                                *)
IsList(s, n) == s \in Seq(Nat) /\ Len(s) = n

(* The mark is at i.                                                       *)
At(raw, mark, i) ==
  /\ i \in 1 .. Len(raw) /\ i + Len(mark) <= Len(raw) + 1
  /\ \A j \in 1 .. Len(mark) : raw[i + j - 1] = mark[j]

(* A prefix, byte by byte.                                                 *)
LEMMA PrefixBytes ==
  ASSUME NEW mark \in Seq(Nat), NEW raw \in Seq(Nat)
  PROVE  IsPrefix(mark, raw) <=>
           /\ Len(mark) <= Len(raw)
           /\ \A j \in 1 .. Len(mark) : raw[j] = mark[j]
<1> DEFINE n == Len(mark)
<1>0. n \in Nat /\ Len(raw) \in Nat
  OBVIOUS
<1>1. CASE n <= Len(raw)
  <2>1. /\ SubSeq(mark, 1, n) \in Seq(Nat) /\ SubSeq(raw, 1, n) \in Seq(Nat)
        /\ Len(SubSeq(mark, 1, n)) = n /\ Len(SubSeq(raw, 1, n)) = n
        /\ \A j \in 1 .. n : SubSeq(mark, 1, n)[j] = mark[j]
        /\ \A j \in 1 .. n : SubSeq(raw, 1, n)[j] = raw[j]
    BY <1>0, <1>1
  <2>2. (SubSeq(mark, 1, n) = SubSeq(raw, 1, n)) <=>
          \A j \in 1 .. n : raw[j] = mark[j]
    BY <2>1
  <2> QED BY <1>1, <2>2 DEF IsPrefix
<1>2. CASE ~(n <= Len(raw))
  BY <1>2 DEF IsPrefix
<1> QED BY <1>1, <1>2

(* They have the same first n bytes.                                       *)
Matches(mark, raw, n) == \A j \in 1 .. n : raw[j] = mark[j]

(* The same of sequences whose lengths are known.                          *)
LEMMA BeginsWith ==
  ASSUME NEW mark, NEW raw, NEW m \in Nat, NEW n \in Nat,
         IsList(mark, m), IsList(raw, n), m <= n
  PROVE  IsPrefix(mark, raw) <=> Matches(mark, raw, m)
BY PrefixBytes DEF IsList, Matches

(* The tag of an encoding is its first byte.                               *)
LEMMA Starts ==
  ASSUME NEW raw, NEW n \in Nat, n >= 1, IsList(raw, n), NEW b \in Nat
  PROVE  IsPrefix(<<b>>, raw) <=> raw[1] = b
<1>1. IsList(<<b>>, 1) /\ <<b>>[1] = b
  BY DEF IsList
<1>2. IsPrefix(<<b>>, raw) <=> Matches(<<b>>, raw, 1)
  BY <1>1, BeginsWith
<1> QED BY <1>1, <1>2 DEF Matches

(* Positions are the places where the mark is, byte by byte.               *)
LEMMA MarkAt ==
  ASSUME NEW mark \in Seq(Nat), NEW raw \in Seq(Nat), NEW i, Len(mark) > 0
  PROVE  i \in Positions(raw, mark) <=> At(raw, mark, i)
<1>1. ASSUME i \in 1 .. Len(raw)
      PROVE  IsPrefix(mark, SubSeq(raw, i, Len(raw))) <=> At(raw, mark, i)
  <2> DEFINE rest == SubSeq(raw, i, Len(raw))
  <2>1. /\ rest \in Seq(Nat) /\ Len(rest) = Len(raw) - i + 1
        /\ \A j \in 1 .. Len(rest) : rest[j] = raw[i + j - 1]
    BY <1>1
  <2>2. IsPrefix(mark, rest) <=>
          /\ Len(mark) <= Len(rest)
          /\ \A j \in 1 .. Len(mark) : rest[j] = mark[j]
    BY <2>1, PrefixBytes
  <2> HIDE DEF rest
  <2>3. Len(mark) <= Len(rest) <=> i + Len(mark) <= Len(raw) + 1
    BY <1>1, <2>1
  <2>4. ASSUME Len(mark) <= Len(rest)
        PROVE  \A j \in 1 .. Len(mark) : rest[j] = raw[i + j - 1]
    BY <2>1, <2>4
  <2> QED BY <1>1, <2>2, <2>3, <2>4 DEF At, rest
<1> QED BY <1>1 DEF Positions, At

(* The least of a set of numbers.                                          *)
LEMMA LeastOf ==
  ASSUME NEW S \in SUBSET Nat, NEW n \in S, \A i \in S : n <= i
  PROVE  Min(S) = n
<1>1. \E x \in S : \A y \in S : x <= y
  OBVIOUS
<1>2. Min(S) \in S /\ \A y \in S : Min(S) <= y
  BY <1>1 DEF Min
<1>3. PICK m \in Nat : m = Min(S)
  BY <1>2
<1>4. m \in S /\ m <= n
  BY <1>2, <1>3
<1> QED BY <1>3, <1>4

(* A set of numbers that is not empty has one.                             *)
LEMMA SomeLeast ==
  ASSUME NEW m \in Nat, NEW S \in SUBSET (1 .. m), S # {}
  PROVE  Min(S) \in S
<1>1. S \subseteq Nat
  OBVIOUS
<1>2. PICK x \in S : \A y \in S : <<y, x>> \notin OpToRel(<, Nat)
  BY <1>1, WFMin, NatLessThanWellFounded
<1>3. \A y \in S : ~(y < x)
  BY <1>1, <1>2 DEF OpToRel
<1>4. \A y \in S : x <= y
  BY <1>1, <1>3
<1> QED BY <1>4 DEF Min

(* The bit string is the stretch from p to r; no mark is before n.         *)
IsFound(raw, mark, m, p, r) == BitString(raw, mark, m) = SubSeq(raw, p, r)
NoneBefore(raw, mark, n) == \A i \in 1 .. n - 1 : ~At(raw, mark, i)

(* The bit string that is found is that after the first mark, and is whole *)
(* when it ends where the bytes do.                                        *)
LEMMA FirstFound ==
  ASSUME NEW raw, NEW r \in Nat, IsList(raw, r),
         NEW mark, NEW c \in Nat \ {0}, IsList(mark, c),
         NEW n \in Nat, At(raw, mark, n), NoneBefore(raw, mark, n),
         NEW m \in Nat, r = n + 2 + m, NEW p, p = n + 3
  PROVE  IsFound(raw, mark, m, p, r)
<1> DEFINE P == Positions(raw, mark)
<1>1. raw \in Seq(Nat) /\ Len(raw) = r /\ mark \in Seq(Nat) /\ Len(mark) > 0
  BY DEF IsList
<1>2. P \subseteq 1 .. r
  BY <1>1 DEF Positions
<1>3. n \in P /\ \A i \in 1 .. n - 1 : i \notin P
  BY <1>1, MarkAt DEF NoneBefore
<1>4. \A i \in P : n <= i
  BY <1>2, <1>3
<1>5. P # {} /\ Min(P) = n
  BY <1>2, <1>3, <1>4, LeastOf
<1>6. BitString(raw, mark, m) =
        IF P = {} \/ Len(raw) < (Min(P) + 3) + m - 1
        THEN NoKey ELSE SubSeq(raw, Min(P) + 3, (Min(P) + 3) + m - 1)
  BY DEF BitString
<1> HIDE DEF P
<1>7. (n + 3) + m - 1 = r /\ ~(r < (n + 3) + m - 1)
  OBVIOUS
<1> QED BY <1>1, <1>5, <1>6, <1>7 DEF IsFound

(* Too few bytes hold no bit string of that length.                        *)
LEMMA NoRoom ==
  ASSUME NEW raw, NEW n \in Nat, IsList(raw, n), NEW mark, NEW m \in Nat,
         n < m + 3
  PROVE  BitString(raw, mark, m) = NoKey
<1> DEFINE P == Positions(raw, mark)
<1>1. P \subseteq 1 .. Len(raw) /\ Len(raw) = n
  BY DEF Positions, IsList
<1>2. BitString(raw, mark, m) =
        IF P = {} \/ Len(raw) < (Min(P) + 3) + m - 1
        THEN NoKey ELSE SubSeq(raw, Min(P) + 3, (Min(P) + 3) + m - 1)
  BY DEF BitString
<1>3. CASE P # {}
  <2>1. Min(P) \in P
    BY <1>1, <1>3, SomeLeast
  <2>2. PICK k \in 1 .. Len(raw) : k = Min(P)
    BY <1>1, <2>1
  <2>3. Len(raw) < (k + 3) + m - 1
    BY <1>1, <2>2
  <2> QED BY <1>2, <2>2, <2>3
<1> QED BY <1>2, <1>3

(* A bit string is found only where there is a mark.                       *)
LEMMA NoMark ==
  ASSUME NEW raw, NEW mark, NEW m, BitString(raw, mark, m) # NoKey
  PROVE  Positions(raw, mark) # {}
BY DEF BitString

-----------------------------------------------------------------------------
(* The bytes of the encodings.                                             *)

(* Bytes h, then bytes k.                                                  *)
Joined(s, h, k) ==
  /\ s \in Seq(Nat) /\ Len(s) = Len(h) + Len(k)
  /\ \A i \in 1 .. Len(h) : s[i] = h[i]
  /\ \A i \in 1 .. Len(k) : s[Len(h) + i] = k[i]
(* What a concatenation has, first and last.                               *)
LEMMA JoinedConcat ==
  ASSUME NEW h \in Seq(Nat), NEW k \in Seq(Nat)
  PROVE  Joined(h \o k, h, k)
BY DEF Joined

(* All of a SubjectPublicKeyInfo but a key of l bytes.                     *)
SpkiHead(alg, l) ==
  (<<\h30, Len(alg) + l + 5, \h30, Len(alg)>> \o alg) \o <<\h03, l + 1, 0>>

(* The length of a concatenation.                                          *)
LEMMA Concat ==
  ASSUME NEW m \in Nat, NEW n \in Nat, NEW s, NEW t,
         IsList(s, m), IsList(t, n)
  PROVE  IsList(s \o t, m + n)
BY ConcatProperties DEF IsList

(* One instance of associativity.                                          *)
Assoc(s, t, u) == s \o (t \o u) = (s \o t) \o u

(* Concatenation is associative, as a predicate.                           *)
LEMMA Associative ==
  ASSUME NEW k, NEW m, NEW n, NEW s, NEW t, NEW u,
         IsList(s, k), IsList(t, m), IsList(u, n)
  PROVE  Assoc(s, t, u)
<1>1. s \in Seq(Nat) /\ t \in Seq(Nat) /\ u \in Seq(Nat)
  BY DEF IsList
<1>2. (s \o t) \o u = s \o (t \o u)
  BY <1>1, ConcatAssociative, SMTT(30)
<1> QED BY <1>2 DEF Assoc

(* A few bytes after two others.                                           *)
LEMMA Pairs ==
  ASSUME NEW a \in Nat, NEW b \in Nat, NEW c \in Nat, NEW d \in Nat
  PROVE  /\ <<a, b>> \o <<c, d>> = <<a, b, c, d>>
         /\ <<a, b>> \o <<c>> = <<a, b, c>>
<1>1. ASSUME NEW s \in Seq(Nat), NEW t \in Seq(Nat), Len(s) = Len(t),
             \A i \in 1 .. Len(s) : s[i] = t[i]
      PROVE  s = t
  BY <1>1, SeqEqual
<1>2. <<a, b>> \o <<c, d>> = <<a, b, c, d>>
  <2> DEFINE s == <<a, b>> \o <<c, d>>
             t == <<a, b, c, d>>
  <2>1. s \in Seq(Nat) /\ t \in Seq(Nat) /\ Len(s) = 4 /\ Len(t) = 4
        /\ \A i \in 1 .. 4 : s[i] = t[i]
    OBVIOUS
  <2> HIDE DEF s, t
  <2>2. s = t
    BY <1>1, <2>1
  <2> QED BY <2>2 DEF s, t
<1>3. <<a, b>> \o <<c>> = <<a, b, c>>
  <2> DEFINE s == <<a, b>> \o <<c>>
             t == <<a, b, c>>
  <2>1. s \in Seq(Nat) /\ t \in Seq(Nat) /\ Len(s) = 3 /\ Len(t) = 3
        /\ \A i \in 1 .. 3 : s[i] = t[i]
    OBVIOUS
  <2> HIDE DEF s, t
  <2>2. s = t
    BY <1>1, <2>1
  <2> QED BY <2>2 DEF s, t
<1> QED BY <1>2, <1>3

(* A SubjectPublicKeyInfo is a head, with the lengths of all of its parts, *)
(* and the key.                                                            *)
LEMMA SpkiBytes ==
  ASSUME NEW alg \in Seq(Nat), NEW k \in Seq(Nat)
  PROVE  Spki(alg, k) = SpkiHead(alg, Len(k)) \o k
<1>1. PICK a \in Nat : a = Len(alg)
  OBVIOUS
<1>2. PICK l \in Nat : l = Len(k)
  OBVIOUS
<1> DEFINE b == <<\h03, l + 1>>
           z == <<\h00>>
           c == <<\h30, a>>
           d == <<\h30, a + l + 5>>
<1>3. IsList(b, 2) /\ IsList(z, 1) /\ IsList(c, 2) /\ IsList(d, 2)
  BY DEF IsList
<1>4. IsList(alg, a) /\ IsList(k, l)
  BY <1>1, <1>2 DEF IsList
<1>5. \A s, n : IsList(s, n) => Tlv(\h30, s) = <<\h30, n>> \o s
  BY DEF Tlv, IsList
<1>6. \A s, n : IsList(s, n) => Tlv(\h03, s) = <<\h03, n>> \o s
  BY DEF Tlv, IsList
<1> DEFINE w == z \o k
           y == b \o z
           x == c \o alg
           v == y \o k
           rest == x \o v
           u == x \o y
<1>7. y = <<\h03, l + 1, \h00>>
  <2>1. PICK e \in Nat : e = l + 1
    OBVIOUS
  <2>2. PICK f \in Nat : f = \h03
    OBVIOUS
  <2>3. PICK g \in Nat : g = \h00
    OBVIOUS
  <2>4. <<f, e>> \o <<g>> = <<f, e, g>>
    BY Pairs, ZenonT(30)
  <2> QED BY <2>1, <2>2, <2>3, <2>4
<1>8. d \o c = <<\h30, a + l + 5, \h30, a>>
  <2>1. PICK e \in Nat : e = a + l + 5
    OBVIOUS
  <2>2. PICK f \in Nat : f = \h30
    OBVIOUS
  <2>3. <<f, e>> \o <<f, a>> = <<f, e, f, a>>
    BY Pairs, ZenonT(30)
  <2> QED BY <2>1, <2>2, <2>3
<1>9. IsList(w, 1 + l) /\ 1 + l = l + 1
  BY <1>3, <1>4, Concat
<1>10. IsList(y, 3)
  BY <1>7 DEF IsList
<1>11. IsList(x, 2 + a)
  BY <1>3, <1>4, Concat
<1>12. Tlv(\h03, w) = b \o w
  BY <1>6, <1>9
<1>13. Tlv(\h30, alg) = x
  BY <1>4, <1>5
<1>14. b \o w = v
  <2>1. Assoc(b, z, k)
    BY <1>3, <1>4, Associative
  <2> QED BY <2>1 DEF Assoc
<1>15. d \o x = (d \o c) \o alg
  <2>1. Assoc(d, c, alg)
    BY <1>3, <1>4, Associative
  <2> QED BY <2>1 DEF Assoc
<1> HIDE DEF w, x, y
<1>16. IsList(v, 3 + l)
  BY <1>4, <1>10, Concat
<1>17. rest = (x \o y) \o k
  <2>1. Assoc(x, y, k)
    BY <1>4, <1>10, <1>11, Associative
  <2> QED BY <2>1 DEF Assoc
<1>18. d \o u = (d \o x) \o y
  <2>1. Assoc(d, x, y)
    BY <1>3, <1>10, <1>11, Associative
  <2> QED BY <2>1 DEF Assoc
<1> HIDE DEF v
<1>19. IsList(rest, (2 + a) + (3 + l)) /\ (2 + a) + (3 + l) = a + l + 5
  BY <1>11, <1>16, Concat
<1>20. IsList(u, (2 + a) + 3)
  BY <1>10, <1>11, Concat
<1> HIDE DEF rest, u
<1>21. Tlv(\h30, rest) = <<\h30, a + l + 5>> \o rest
  BY <1>5, <1>19
<1> HIDE DEF b, c, d
<1>22. Spki(alg, k) = d \o rest
  <2>1. Tlv(\h03, <<\h00>> \o k) = v
    BY <1>12, <1>14 DEF w
  <2> QED BY <2>1, <1>13, <1>21 DEF Spki, rest, d
<1>23. d \o (u \o k) = (d \o u) \o k
  <2>1. Assoc(d, u, k)
    BY <1>3, <1>4, <1>20, Associative
  <2> QED BY <2>1 DEF Assoc
<1>24. Spki(alg, k) = (((d \o c) \o alg) \o y) \o k
  BY <1>15, <1>17, <1>18, <1>22, <1>23 DEF u
<1> QED BY <1>1, <1>2, <1>7, <1>8, <1>24 DEF SpkiHead

(* The heads of the encodings.                                             *)
Ed25519Head == <<48, 42, 48, 5, 6, 3, 43, 101, 112, 3, 33, 0>>
NullHead == <<48, 44, 48, 7, 6, 3, 43, 101, 112, 5, 0, 3, 33, 0>>
P256Head ==
  <<48, 89, 48, 19, 6, 7, 42, 134, 72, 206, 61, 2, 1,
    6, 8, 42, 134, 72, 206, 61, 3, 1, 7, 3, 66, 0>>
CompressedHead ==
  <<48, 57, 48, 19, 6, 7, 42, 134, 72, 206, 61, 2, 1,
    6, 8, 42, 134, 72, 206, 61, 3, 1, 7, 3, 34, 0>>

(* The head of an Ed25519 key, RFC 8410.                                   *)
LEMMA Ed25519HeadIs == SpkiHead(Oid.ed25519, 32) = Ed25519Head
<1>1. SpkiHead(Oid.ed25519, 32) \in Seq(Nat) /\ Ed25519Head \in Seq(Nat)
  BY DEF SpkiHead, Oid, Ed25519Head
<1>2. Len(SpkiHead(Oid.ed25519, 32)) = 12 /\ Len(Ed25519Head) = 12
  BY DEF SpkiHead, Oid, Ed25519Head
<1>3. \A i \in 1 .. 12 :
        SpkiHead(Oid.ed25519, 32)[i] = Ed25519Head[i]
  BY DEF SpkiHead, Oid, Ed25519Head
<1> QED BY <1>1, <1>2, <1>3, SeqEqual

(* The head of one that has a NULL for its parameters.                     *)
LEMMA NullHeadIs == SpkiHead(Oid.ed25519 \o Null, 32) = NullHead
<1>1. SpkiHead(Oid.ed25519 \o Null, 32) \in Seq(Nat) /\ NullHead \in Seq(Nat)
  BY DEF SpkiHead, Oid, Null, NullHead
<1>2. Len(SpkiHead(Oid.ed25519 \o Null, 32)) = 14 /\ Len(NullHead) = 14
  BY DEF SpkiHead, Oid, Null, NullHead
<1>3. \A i \in 1 .. 14 :
        SpkiHead(Oid.ed25519 \o Null, 32)[i] = NullHead[i]
  BY DEF SpkiHead, Oid, Null, NullHead
<1> QED BY <1>1, <1>2, <1>3, SeqEqual

(* The head of a P-256 point.                                              *)
LEMMA P256HeadIs == SpkiHead(EcPublicKey \o Oid.p256, 65) = P256Head
<1>1. /\ SpkiHead(EcPublicKey \o Oid.p256, 65) \in Seq(Nat)
      /\ P256Head \in Seq(Nat)
  BY DEF SpkiHead, Oid, EcPublicKey, P256Head
<1>2. /\ Len(SpkiHead(EcPublicKey \o Oid.p256, 65)) = 26
      /\ Len(P256Head) = 26
  BY DEF SpkiHead, Oid, EcPublicKey, P256Head
<1>3. \A i \in 1 .. 26 :
        SpkiHead(EcPublicKey \o Oid.p256, 65)[i] = P256Head[i]
  BY DEF SpkiHead, Oid, EcPublicKey, P256Head
<1> QED BY <1>1, <1>2, <1>3, SeqEqual

(* The head of half of one.                                                *)
LEMMA CompressedHeadIs == SpkiHead(EcPublicKey \o Oid.p256, 33) = CompressedHead
<1>1. /\ SpkiHead(EcPublicKey \o Oid.p256, 33) \in Seq(Nat)
      /\ CompressedHead \in Seq(Nat)
  BY DEF SpkiHead, Oid, EcPublicKey, CompressedHead
<1>2. /\ Len(SpkiHead(EcPublicKey \o Oid.p256, 33)) = 26
      /\ Len(CompressedHead) = 26
  BY DEF SpkiHead, Oid, EcPublicKey, CompressedHead
<1>3. \A i \in 1 .. 26 :
        SpkiHead(EcPublicKey \o Oid.p256, 33)[i] = CompressedHead[i]
  BY DEF SpkiHead, Oid, EcPublicKey, CompressedHead
<1> QED BY <1>1, <1>2, <1>3, SeqEqual

(* The bytes of a SubjectPublicKeyInfo.                                    *)
LEMMA SpkiJoined ==
  ASSUME NEW alg \in Seq(Nat), NEW k \in Seq(Nat), NEW n, n = Len(k)
  PROVE  Joined(Spki(alg, k), SpkiHead(alg, n), k)
<1>1. SpkiHead(alg, n) \in Seq(Nat)
  BY DEF SpkiHead
<1> QED BY <1>1, SpkiBytes, JoinedConcat

(* The bytes of one tag, length and value.                                 *)
LEMMA TlvJoined ==
  ASSUME NEW tag \in Nat, NEW k \in Seq(Nat), NEW n, n = Len(k)
  PROVE  Joined(Tlv(tag, k), <<tag, n>>, k)
<1>1. <<tag, n>> \in Seq(Nat)
  OBVIOUS
<1> QED BY <1>1, JoinedConcat DEF Tlv

(* The bytes from p to q; the l bytes after the first n.                   *)
IsStretch(raw, p, q, k) == SubSeq(raw, p, q) = k
Shifted(raw, k, n, l) == \A i \in 1 .. l : raw[n + i] = k[i]

(* A stretch that has the bytes of a sequence is that sequence.            *)
LEMMA Stretch ==
  ASSUME NEW raw, NEW r \in Nat, IsList(raw, r),
         NEW k, NEW l \in Nat, IsList(k, l),
         NEW n \in Nat, n + l <= r, Shifted(raw, k, n, l),
         NEW p, p = n + 1, NEW q, q = n + l
  PROVE  IsStretch(raw, p, q, k)
<1> DEFINE s == SubSeq(raw, p, q)
<1>1. raw \in Seq(Nat) /\ Len(raw) = r /\ k \in Seq(Nat) /\ Len(k) = l
  BY DEF IsList
<1>2. /\ s \in Seq(Nat) /\ Len(s) = l
      /\ \A i \in 1 .. l : s[i] = raw[n + i]
  <2>1. s \in Seq(Nat) /\ Len(s) = q - p + 1
        /\ \A i \in 1 .. Len(s) : s[i] = raw[p + i - 1]
    BY <1>1
  <2>2. Len(s) = l /\ \A i \in 1 .. l : p + i - 1 = n + i
    BY <2>1
  <2> QED BY <2>1, <2>2
<1> HIDE DEF s
<1>3. \A i \in 1 .. Len(s) : s[i] = k[i]
  BY <1>2 DEF Shifted
<1>4. s = k
  BY <1>1, <1>2, <1>3, SeqEqual
<1> QED BY <1>4 DEF s, IsStretch

(* The bytes of a stretch.                                                 *)
LEMMA CutOut ==
  ASSUME NEW raw, NEW r \in Nat, IsList(raw, r),
         NEW n \in Nat, NEW l \in Nat, n + l <= r,
         NEW p, p = n + 1, NEW q, q = n + l
  PROVE  IsList(SubSeq(raw, p, q), l) /\ Shifted(raw, SubSeq(raw, p, q), n, l)
<1> DEFINE s == SubSeq(raw, p, q)
<1>1. raw \in Seq(Nat) /\ Len(raw) = r
  BY DEF IsList
<1>2. s \in Seq(Nat) /\ Len(s) = q - p + 1
      /\ \A i \in 1 .. Len(s) : s[i] = raw[p + i - 1]
  BY <1>1
<1>3. Len(s) = l /\ \A i \in 1 .. l : p + i - 1 = n + i
  BY <1>2
<1> HIDE DEF s
<1>4. IsList(s, l) /\ Shifted(raw, s, n, l)
  BY <1>2, <1>3 DEF IsList, Shifted
<1> QED BY <1>4 DEF s

(* A head of n bytes, then the key, from byte p to the last, m.            *)
LaidOut(s, h, k, n, p, m) ==
  IsList(s, m) /\ Matches(h, s, n) /\ SubSeq(s, p, m) = k

(* An encoding from its two parts: the length, the head, and the key after *)
(* it.                                                                     *)
LEMMA Parts ==
  ASSUME NEW s, NEW h, NEW k, Joined(s, h, k),
         NEW n \in Nat, NEW l \in Nat, IsList(h, n), IsList(k, l),
         NEW p, p = n + 1, NEW m, m = n + l
  PROVE  LaidOut(s, h, k, n, p, m)
<1>1. /\ s \in Seq(Nat) /\ k \in Seq(Nat)
      /\ Len(s) = n + Len(k) /\ Len(k) = l
      /\ \A i \in 1 .. Len(k) : s[n + i] = k[i]
      /\ \A i \in 1 .. n : s[i] = h[i]
  BY DEF Joined, IsList
<1>2. IsList(s, m) /\ Shifted(s, k, n, l) /\ Matches(h, s, n)
  BY <1>1 DEF IsList, Shifted, Matches
<1>3. m \in Nat /\ n + l <= m
  OBVIOUS
<1>4. IsStretch(s, p, m, k)
  BY <1>2, <1>3, Stretch
<1> QED BY <1>2, <1>4 DEF LaidOut, IsStretch

-----------------------------------------------------------------------------
(* What the marks are.                                                     *)

(* The marks of normalize_ec_point, parse_spki_ed25519 and                 *)
(* parse_spki_p256.                                                        *)
Mark2 == <<\h03, \h21>>
Mark3 == <<\h03, \h21, \h00>>
Mark4 == <<\h03, \h42, \h00, \h04>>

(* They are at i, among n bytes.                                           *)
Has2(raw, n, i) ==
  i \in 1 .. n - 1 /\ raw[i] = 3 /\ raw[i + 1] = 33
Has3(raw, n, i) ==
  i \in 1 .. n - 2 /\ raw[i] = 3 /\ raw[i + 1] = 33 /\ raw[i + 2] = 0
Has4(raw, n, i) ==
  /\ i \in 1 .. n - 3 /\ raw[i] = 3 /\ raw[i + 1] = 66
  /\ raw[i + 2] = 0 /\ raw[i + 3] = 4

(* The marks of the three parsers, byte by byte.                           *)
LEMMA MarksAt ==
  ASSUME NEW raw, NEW n \in Nat, IsList(raw, n), NEW i
  PROVE  /\ At(raw, Mark2, i) <=> Has2(raw, n, i)
         /\ At(raw, Mark3, i) <=> Has3(raw, n, i)
         /\ At(raw, Mark4, i) <=> Has4(raw, n, i)
<1>0. Len(raw) \in Nat /\ Len(raw) = n
  BY DEF IsList
<1>1. At(raw, Mark2, i) <=>
        /\ i \in 1 .. Len(raw) - 1 /\ raw[i] = 3 /\ raw[i + 1] = 33
  <2>1. Len(Mark2) = 2 /\ Mark2[1] = 3 /\ Mark2[2] = 33
    BY DEF Mark2
  <2>2. At(raw, Mark2, i) <=>
          /\ i \in 1 .. Len(raw) /\ i + 2 <= Len(raw) + 1
          /\ raw[i + 1 - 1] = 3 /\ raw[i + 2 - 1] = 33
    BY <2>1 DEF At
  <2> QED BY <1>0, <2>2
<1>2. At(raw, Mark3, i) <=>
        /\ i \in 1 .. Len(raw) - 2 /\ raw[i] = 3 /\ raw[i + 1] = 33
        /\ raw[i + 2] = 0
  <2>1. Len(Mark3) = 3 /\ Mark3[1] = 3 /\ Mark3[2] = 33 /\ Mark3[3] = 0
    BY DEF Mark3
  <2>2. At(raw, Mark3, i) <=>
          /\ i \in 1 .. Len(raw) /\ i + 3 <= Len(raw) + 1
          /\ raw[i + 1 - 1] = 3 /\ raw[i + 2 - 1] = 33 /\ raw[i + 3 - 1] = 0
    BY <2>1 DEF At
  <2> QED BY <1>0, <2>2
<1>3. At(raw, Mark4, i) <=>
        /\ i \in 1 .. Len(raw) - 3 /\ raw[i] = 3 /\ raw[i + 1] = 66
        /\ raw[i + 2] = 0 /\ raw[i + 3] = 4
  <2>0. 1 .. 4 = {1, 2, 3, 4}
    OBVIOUS
  <2>1. Len(Mark4) = 4 /\ Mark4[1] = 3 /\ Mark4[2] = 66 /\ Mark4[3] = 0
        /\ Mark4[4] = 4
    BY DEF Mark4
  <2>2. At(raw, Mark4, i) <=>
          /\ i \in 1 .. Len(raw) /\ i + 4 <= Len(raw) + 1
          /\ raw[i + 1 - 1] = 3 /\ raw[i + 2 - 1] = 66 /\ raw[i + 3 - 1] = 0
          /\ raw[i + 4 - 1] = 4
    BY <2>0, <2>1 DEF At
  <2>3. ASSUME i \in Int
        PROVE  /\ i + 1 - 1 = i /\ i + 2 - 1 = i + 1 /\ i + 3 - 1 = i + 2
               /\ i + 4 - 1 = i + 3
    BY <2>3
  <2>4. (i \in 1 .. Len(raw) /\ i + 4 <= Len(raw) + 1)
          <=> i \in 1 .. Len(raw) - 3
    BY <1>0
  <2>5. i \in 1 .. Len(raw) - 3 => i \in Int
    BY <1>0
  <2> QED BY <2>2, <2>3, <2>4, <2>5
<1> QED BY <1>0, <1>1, <1>2, <1>3 DEF Has2, Has3, Has4

-----------------------------------------------------------------------------
(* What the parsers make of each form.                                     *)

(* The bytes of a key.                                                     *)
IsKey(k, c) ==
  IsList(k, KeyLength(c)) /\ (c = "p256" => k[1] = \h04)

(* A key has the length of its curve, and a P-256 key begins with 04.      *)
LEMMA KeysAreKeys ==
  ASSUME NEW c \in Curves, NEW k \in Keys[c]
  PROVE  IsKey(k, c) /\ k # NoKey
<1>1. k \in Seq(Octet) /\ Len(k) = KeyLength(c) /\ (c = "p256" => k[1] = 4)
  BY KeysAssumption
<1>2. k \in Seq(Nat)
  <2>1. Len(k) \in Nat /\ k \in [1 .. Len(k) -> Octet]
    BY <1>1
  <2>2. Octet \subseteq Nat
    BY DEF Octet
  <2>3. k \in [1 .. Len(k) -> Nat]
    BY <2>1, <2>2
  <2> QED BY <2>1, <2>3
<1>3. Len(k) \in {32, 65} /\ Len(NoKey) = 0
  BY <1>1 DEF KeyLength, NoKey
<1> QED BY <1>1, <1>2, <1>3 DEF IsKey, IsList

(* Bytes are no refusal.                                                   *)
LEMMA NotEmpty ==
  ASSUME NEW k, NEW n \in Nat \ {0}, IsList(k, n)
  PROVE  k # NoKey
BY DEF IsList, NoKey

(* The bare Ed25519 key: both of its parsers take it, even when it begins  *)
(* with 30, for the bit string would not fit; that of P-256 does not.      *)
LEMMA Ed25519Key ==
  ASSUME NEW k, IsKey(k, "ed25519")
  PROVE  /\ parse_spki_ed25519(k) = k /\ normalize_ec_point(k) = k
         /\ parse_spki_p256(k) = NoKey
<1>1. IsList(k, 32)
  BY DEF IsKey, KeyLength
<1>2. BitString(k, Mark3, 32) = NoKey
  BY <1>1, NoRoom
<1>3. BitString(k, Mark4, 65) = NoKey
  BY <1>1, NoRoom
<1> QED
  BY <1>1, <1>2, <1>3
  DEF parse_spki_ed25519, normalize_ec_point, parse_spki_p256, Mark3, Mark4,
      IsList

(* The bare P-256 key, and the parser of the other curve.                  *)
LEMMA P256Key ==
  ASSUME NEW k, IsKey(k, "p256")
  PROVE  /\ parse_spki_p256(k) = k /\ normalize_p256_point(k) = k
         /\ parse_spki_ed25519(k) = NoKey
<1>1. IsList(k, 65) /\ k[1] = 4
  BY DEF IsKey, KeyLength
<1>2. IsPrefix(<<\h04>>, k) /\ ~IsPrefix(<<\h30>>, k)
  BY <1>1, Starts
<1> QED
  BY <1>1, <1>2
  DEF parse_spki_ed25519, normalize_p256_point, parse_spki_p256, IsList

(* An Ed25519 key in an OCTET STRING: for CKA_EC_POINT only.               *)
LEMMA Ed25519Octets ==
  ASSUME NEW k, IsKey(k, "ed25519"), NEW s, s = Tlv(\h04, k)
  PROVE  /\ parse_spki_ed25519(s) = NoKey /\ normalize_ec_point(s) = k
         /\ parse_spki_p256(s) = NoKey /\ IsList(s, 34)
<1> DEFINE h == <<\h04, \h20>>
<1>1. IsList(k, 32) /\ IsList(h, 2) /\ h[1] = 4
  BY DEF IsKey, KeyLength, IsList
<1>2. Joined(s, h, k)
  BY <1>1, TlvJoined DEF IsList
<1> HIDE DEF h
<1>3. IsList(s, 34) /\ Matches(h, s, 2) /\ SubSeq(s, 3, 34) = k
  <2>1. LaidOut(s, h, k, 2, 3, 34)
    BY <1>1, <1>2, Parts
  <2> QED BY <2>1 DEF LaidOut
<1>4. IsPrefix(h, s)
  BY <1>1, <1>3, BeginsWith
<1>5. s[1] = 4
  BY <1>1, <1>3 DEF Matches
<1>6. ~IsPrefix(<<\h30>>, s)
  BY <1>3, <1>5, Starts
<1>7. normalize_ec_point(s) = k
  <2>1. Len(s) = 34 /\ SubSeq(s, 3, 34) = k
    BY <1>3 DEF IsList
  <2> QED BY <1>4, <2>1 DEF normalize_ec_point, h
<1>8. parse_spki_ed25519(s) = NoKey /\ parse_spki_p256(s) = NoKey
  <2>1. Len(s) = 34
    BY <1>3 DEF IsList
  <2>2. parse_spki_ed25519(s) = NoKey
    BY <1>6, <2>1 DEF parse_spki_ed25519
  <2>3. parse_spki_p256(s) = NoKey
    BY <1>6, <2>1 DEF parse_spki_p256
  <2> QED BY <2>2, <2>3
<1> QED BY <1>3, <1>7, <1>8

(* A P-256 key in an OCTET STRING: for CKA_EC_POINT only.                  *)
LEMMA P256Octets ==
  ASSUME NEW k, IsKey(k, "p256"), NEW s, s = Tlv(\h04, k)
  PROVE  /\ parse_spki_p256(s) = NoKey /\ normalize_p256_point(s) = k
         /\ parse_spki_ed25519(s) = NoKey /\ IsList(s, 67)
<1> DEFINE h == <<\h04, \h41>>
           m == <<\h04, \h41, \h04>>
<1>1. /\ IsList(k, 65) /\ k[1] = 4
      /\ IsList(h, 2) /\ h[1] = 4 /\ h[2] = 65
      /\ IsList(m, 3) /\ m[1] = 4 /\ m[2] = 65 /\ m[3] = 4
  BY DEF IsKey, KeyLength, IsList
<1>2. Joined(s, h, k)
  BY <1>1, TlvJoined DEF IsList
<1> HIDE DEF h, m
<1>3. IsList(s, 67) /\ Matches(h, s, 2) /\ SubSeq(s, 3, 67) = k
  <2>1. LaidOut(s, h, k, 2, 3, 67)
    BY <1>1, <1>2, Parts
  <2> QED BY <2>1 DEF LaidOut
<1>4. s[3] = 4
  <2>1. 1 \in 1 .. Len(k) /\ Len(h) + 1 = 3
    BY <1>1 DEF IsList
  <2> QED BY <1>1, <1>2, <2>1 DEF Joined
<1>5. s[1] = 4 /\ s[2] = 65
  BY <1>1, <1>3 DEF Matches
<1>6. Matches(m, s, 3)
  BY <1>1, <1>4, <1>5 DEF Matches
<1>7. IsPrefix(m, s)
  BY <1>1, <1>3, <1>6, BeginsWith
<1>8. ~IsPrefix(<<\h30>>, s)
  BY <1>3, <1>5, Starts
<1>9. normalize_p256_point(s) = k
  BY <1>3, <1>7 DEF normalize_p256_point, m, IsList
<1>10. parse_spki_ed25519(s) = NoKey /\ parse_spki_p256(s) = NoKey
  <2>1. Len(s) = 67
    BY <1>3 DEF IsList
  <2>2. parse_spki_ed25519(s) = NoKey
    BY <1>8, <2>1 DEF parse_spki_ed25519
  <2>3. parse_spki_p256(s) = NoKey
    BY <1>8, <2>1 DEF parse_spki_p256
  <2> QED BY <2>2, <2>3
<1> QED BY <1>3, <1>9, <1>10

(* An Ed25519 key in a SubjectPublicKeyInfo: both of its parsers find the  *)
(* key, no mark comes before that of the bit string.                       *)
LEMMA Ed25519Spki ==
  ASSUME NEW k, IsKey(k, "ed25519"), NEW s, s = Spki(Oid.ed25519, k)
  PROVE  /\ parse_spki_ed25519(s) = k /\ normalize_ec_point(s) = k
         /\ parse_spki_p256(s) = NoKey /\ IsList(s, 44)
<1> DEFINE h == Ed25519Head
<1>1. IsList(k, 32) /\ IsList(h, 12)
  BY DEF IsKey, KeyLength, IsList, Ed25519Head
<1>2. Oid.ed25519 \in Seq(Nat)
  BY DEF Oid
<1>3. Joined(s, h, k)
  BY <1>1, <1>2, SpkiJoined, Ed25519HeadIs DEF IsList
<1> HIDE DEF h
<1>4. IsList(s, 44) /\ Matches(h, s, 12) /\ SubSeq(s, 13, 44) = k
  <2>1. LaidOut(s, h, k, 12, 13, 44)
    BY <1>1, <1>3, Parts
  <2> QED BY <2>1 DEF LaidOut
<1>5. \A i \in 1 .. 12 : s[i] = Ed25519Head[i]
  BY <1>4 DEF Matches, h
<1>6. s[1] = 48
  BY <1>5 DEF Ed25519Head
<1>7. IsPrefix(<<\h30>>, s)
  BY <1>4, <1>6, Starts
<1>8. SubSeq(s, 5, 12) = Ed25519Header
  <2>1. Ed25519Header \in Seq(Nat) /\ Len(Ed25519Header) = 8
        /\ \A i \in 1 .. 8 : Ed25519Header[i] = Ed25519Head[4 + i]
    BY DEF Ed25519Header, Oid, Ed25519Head
  <2>2. ASSUME NEW i \in 1 .. 8 PROVE s[4 + i] = Ed25519Head[4 + i]
    <3>1. 4 + i \in 1 .. 12
      OBVIOUS
    <3> QED BY <1>5, <3>1
  <2>3. IsList(Ed25519Header, 8) /\ Shifted(s, Ed25519Header, 4, 8)
    BY <2>1, <2>2 DEF IsList, Shifted
  <2>4. IsList(s, 44)
    BY <1>4
  <2>5. IsStretch(s, 5, 12, Ed25519Header)
    BY <2>3, <2>4, Stretch
  <2> QED BY <2>5 DEF IsStretch
<1>9. Len(s) = 44
  BY <1>4 DEF IsList
<1>10. parse_spki_ed25519(s) = k
  BY <1>4, <1>7, <1>8, <1>9 DEF parse_spki_ed25519
<1>11. BitString(s, Mark2, 32) = SubSeq(s, 13, 44)
  <2>1. IsList(Mark2, 2)
    BY DEF IsList, Mark2
  <2>2. At(s, Mark2, 10)
    <3>1. Has2(s, 44, 10)
      BY <1>5 DEF Ed25519Head, Has2
    <3> QED BY <1>4, <3>1, MarksAt
  <2>3. \A i \in 1 .. 9 : ~(Ed25519Head[i] = 3 /\ Ed25519Head[i + 1] = 33)
    BY DEF Ed25519Head
  <2>4. ASSUME NEW i \in 1 .. 9 PROVE ~At(s, Mark2, i)
    <3>1. i \in 1 .. 12 /\ i + 1 \in 1 .. 12
      OBVIOUS
    <3>2. s[i] = Ed25519Head[i] /\ s[i + 1] = Ed25519Head[i + 1]
      BY <1>5, <3>1
    <3>3. ~Has2(s, 44, i)
      BY <2>3, <3>2 DEF Has2
    <3> QED BY <1>4, <3>3, MarksAt
  <2>5. NoneBefore(s, Mark2, 10)
    BY <2>4 DEF NoneBefore
  <2>6. IsList(s, 44)
    BY <1>4
  <2>7. IsFound(s, Mark2, 32, 13, 44)
    BY <2>1, <2>2, <2>5, <2>6, FirstFound
  <2> QED BY <2>7 DEF IsFound
<1>12. normalize_ec_point(s) = k
  BY <1>4, <1>7, <1>9, <1>11 DEF normalize_ec_point, Mark2
<1>13. BitString(s, Mark4, 65) = NoKey
  BY <1>4, NoRoom
<1>14. parse_spki_p256(s) = NoKey
  BY <1>9, <1>13 DEF parse_spki_p256, Mark4
<1> QED BY <1>4, <1>10, <1>12, <1>14

(* With a NULL the header of RFC 8410 is not there, and the first mark is  *)
(* that of the bit string.                                                 *)
LEMMA NullSpki ==
  ASSUME NEW k, IsKey(k, "ed25519"), NEW s, s = Spki(Oid.ed25519 \o Null, k)
  PROVE  /\ parse_spki_ed25519(s) = k /\ normalize_ec_point(s) = NoKey
         /\ parse_spki_p256(s) = NoKey /\ IsList(s, 46)
<1> DEFINE h == NullHead
<1>1. IsList(k, 32) /\ IsList(h, 14)
  BY DEF IsKey, KeyLength, IsList, NullHead
<1>2. Oid.ed25519 \o Null \in Seq(Nat)
  BY DEF Oid, Null
<1>3. Joined(s, h, k)
  BY <1>1, <1>2, SpkiJoined, NullHeadIs DEF IsList
<1> HIDE DEF h
<1>4. IsList(s, 46) /\ Matches(h, s, 14) /\ SubSeq(s, 15, 46) = k
  <2>1. LaidOut(s, h, k, 14, 15, 46)
    BY <1>1, <1>3, Parts
  <2> QED BY <2>1 DEF LaidOut
<1>5. \A i \in 1 .. 14 : s[i] = NullHead[i]
  BY <1>4 DEF Matches, h
<1>6. s[1] = 48
  BY <1>5 DEF NullHead
<1>7. IsPrefix(<<\h30>>, s)
  BY <1>4, <1>6, Starts
<1>8. Len(s) = 46 /\ k # NoKey
  <2>1. Len(s) = 46
    BY <1>4 DEF IsList
  <2>2. k # NoKey
    BY <1>1, NotEmpty
  <2> QED BY <2>1, <2>2
<1>9. BitString(s, Mark3, 32) = SubSeq(s, 15, 46)
  <2>1. IsList(Mark3, 3)
    BY DEF IsList, Mark3
  <2>2. At(s, Mark3, 12)
    <3>1. Has3(s, 46, 12)
      BY <1>5 DEF NullHead, Has3
    <3> QED BY <1>4, <3>1, MarksAt
  <2>3. \A i \in 1 .. 11 : ~(NullHead[i] = 3 /\ NullHead[i + 1] = 33)
    BY DEF NullHead
  <2>4. ASSUME NEW i \in 1 .. 11 PROVE ~At(s, Mark3, i)
    <3>1. i \in 1 .. 14 /\ i + 1 \in 1 .. 14
      OBVIOUS
    <3>2. s[i] = NullHead[i] /\ s[i + 1] = NullHead[i + 1]
      BY <1>5, <3>1
    <3>3. ~Has3(s, 46, i)
      BY <2>3, <3>2 DEF Has3
    <3> QED BY <1>4, <3>3, MarksAt
  <2>5. NoneBefore(s, Mark3, 12)
    BY <2>4 DEF NoneBefore
  <2>6. IsList(s, 46)
    BY <1>4
  <2>7. IsFound(s, Mark3, 32, 15, 46)
    BY <2>1, <2>2, <2>5, <2>6, FirstFound
  <2> QED BY <2>7 DEF IsFound
<1>10. parse_spki_ed25519(s) = k
  BY <1>4, <1>7, <1>8, <1>9 DEF parse_spki_ed25519, Mark3
<1>11. normalize_ec_point(s) = NoKey
  BY <1>8 DEF normalize_ec_point
<1>12. BitString(s, Mark4, 65) = NoKey
  BY <1>4, NoRoom
<1>13. parse_spki_p256(s) = NoKey
  BY <1>8, <1>12 DEF parse_spki_p256, Mark4
<1> QED BY <1>4, <1>10, <1>11, <1>13

(* A P-256 key in a SubjectPublicKeyInfo: the parser of --public-key finds *)
(* it, and the other curve's finds its own mark in the bytes of the key if *)
(* anywhere.                                                               *)
LEMMA P256Spki ==
  ASSUME NEW k, IsKey(k, "p256"), NEW s, s = Spki(EcPublicKey \o Oid.p256, k)
  PROVE  /\ parse_spki_p256(s) = k /\ normalize_p256_point(s) = NoKey
         /\ parse_spki_ed25519(s) # NoKey => Positions(k, Mark3) # {}
         /\ IsList(s, 91)
<1> DEFINE h == P256Head
<1>1. IsList(k, 65) /\ k[1] = 4 /\ IsList(h, 26)
  BY DEF IsKey, KeyLength, IsList, P256Head
<1>2. EcPublicKey \o Oid.p256 \in Seq(Nat)
  BY DEF Oid, EcPublicKey
<1>3. Joined(s, h, k)
  BY <1>1, <1>2, SpkiJoined, P256HeadIs DEF IsList
<1> HIDE DEF h
<1>4. IsList(s, 91) /\ Matches(h, s, 26) /\ SubSeq(s, 27, 91) = k
  <2>1. LaidOut(s, h, k, 26, 27, 91)
    BY <1>1, <1>3, Parts
  <2> QED BY <2>1 DEF LaidOut
<1>5. \A i \in 1 .. 26 : s[i] = P256Head[i]
  BY <1>4 DEF Matches, h
<1>6. \A i \in 1 .. 65 : s[26 + i] = k[i]
  BY <1>1, <1>3 DEF Joined, IsList
<1>7. s[27] = 4
  <2>1. 1 \in 1 .. 65 /\ 26 + 1 = 27
    OBVIOUS
  <2> QED BY <1>1, <1>6, <2>1
<1>8. IsPrefix(<<\h30>>, s)
  <2>1. s[1] = 48
    BY <1>5 DEF P256Head
  <2> QED BY <1>4, <2>1, Starts
<1>9. Len(s) = 91
  BY <1>4 DEF IsList
<1>10. k # NoKey
  BY <1>1, NotEmpty
<1>11. \A i \in 1 .. 26 : P256Head[i] = 3 => i = 21 \/ i = 24
  BY DEF P256Head
<1>12. s[22] = 1 /\ s[24] = 3 /\ s[25] = 66 /\ s[26] = 0
  BY <1>5 DEF P256Head
<1>13. BitString(s, Mark4, 65) = SubSeq(s, 27, 91)
  <2>1. IsList(Mark4, 4)
    BY DEF IsList, Mark4
  <2>2. At(s, Mark4, 24)
    <3>1. Has4(s, 91, 24)
      BY <1>7, <1>12 DEF Has4
    <3> QED BY <1>4, <3>1, MarksAt
  <2>3. ASSUME NEW i \in 1 .. 23 PROVE ~At(s, Mark4, i)
    <3>1. i \in 1 .. 26
      OBVIOUS
    <3>2. s[i] = 3 => i = 21
      BY <1>5, <1>11, <3>1
    <3>3. ~Has4(s, 91, i)
      BY <1>12, <3>2 DEF Has4
    <3> QED BY <1>4, <3>3, MarksAt
  <2>4. NoneBefore(s, Mark4, 24)
    BY <2>3 DEF NoneBefore
  <2>5. IsList(s, 91)
    BY <1>4
  <2>6. IsFound(s, Mark4, 65, 27, 91)
    BY <2>1, <2>2, <2>4, <2>5, FirstFound
  <2> QED BY <2>6 DEF IsFound
<1>14. parse_spki_p256(s) = k
  <2>1. BitString(s, <<\h03, \h42, \h00, \h04>>, 65) = k
    BY <1>4, <1>13 DEF Mark4
  <2> QED BY <1>8, <1>9, <1>10, <2>1 DEF parse_spki_p256
<1>15. normalize_p256_point(s) = NoKey
  BY <1>9 DEF normalize_p256_point
<1>16. ASSUME parse_spki_ed25519(s) # NoKey PROVE Positions(k, Mark3) # {}
  <2>1. BitString(s, Mark3, 32) # NoKey
    BY <1>9, <1>16 DEF parse_spki_ed25519, Mark3
  <2>2. PICK i : i \in Positions(s, Mark3)
    BY <2>1, NoMark
  <2>3. s \in Seq(Nat) /\ k \in Seq(Nat)
        /\ Mark3 \in Seq(Nat) /\ Len(Mark3) > 0
    BY <1>1, <1>4 DEF IsList, Mark3
  <2>4. At(s, Mark3, i)
    BY <2>2, <2>3, MarkAt
  <2>5. Has3(s, 91, i)
    BY <1>4, <2>4, MarksAt
  <2>6. i \notin 1 .. 26
    <3> SUFFICES ASSUME i \in 1 .. 26 PROVE FALSE
      OBVIOUS
    <3>1. i = 21 \/ i = 24
      BY <1>5, <1>11, <2>5 DEF Has3
    <3> QED BY <1>12, <2>5, <3>1 DEF Has3
  <2>7. PICK j \in 1 .. 63 : i = 26 + j
    <3>1. i \in 1 .. 89 /\ i - 26 \in 1 .. 63 /\ i = 26 + (i - 26)
      BY <2>5, <2>6 DEF Has3
    <3> QED BY <3>1
  <2>8. k[j] = 3 /\ k[j + 1] = 33 /\ k[j + 2] = 0
    <3>1. /\ j \in 1 .. 65 /\ j + 1 \in 1 .. 65 /\ j + 2 \in 1 .. 65
          /\ 26 + (j + 1) = (26 + j) + 1 /\ 26 + (j + 2) = (26 + j) + 2
      OBVIOUS
    <3> QED BY <1>6, <2>5, <2>7, <3>1 DEF Has3
  <2>9. Has3(k, 65, j)
    BY <2>8 DEF Has3
  <2>10. At(k, Mark3, j)
    BY <1>1, <2>9, MarksAt
  <2> QED BY <2>3, <2>10, MarkAt
<1> QED BY <1>4, <1>14, <1>15, <1>16

(* A compressed point is not taken, and the other curve's parser finds its *)
(* own mark in the bytes of the key if anywhere.                           *)
LEMMA P256Compressed ==
  ASSUME NEW k, IsKey(k, "p256"), NEW s,
         s = Spki(EcPublicKey \o Oid.p256, <<\h02>> \o SubSeq(k, 2, 33))
  PROVE  /\ parse_spki_p256(s) = NoKey /\ normalize_p256_point(s) = NoKey
         /\ parse_spki_ed25519(s) # NoKey => Positions(k, Mark3) # {}
         /\ IsList(s, 59)
<1> DEFINE h == CompressedHead
           x == SubSeq(k, 2, 33)
           c == <<\h02>> \o x
<1>1. IsList(k, 65) /\ IsList(h, 26)
  BY DEF IsKey, KeyLength, IsList, CompressedHead
<1>2. IsList(c, 33) /\ c[1] = 2 /\ \A i \in 2 .. 33 : c[i] = k[i]
  <2>1. IsList(x, 32) /\ Shifted(k, x, 1, 32)
    BY <1>1, CutOut
  <2> HIDE DEF x
  <2>2. IsList(<<\h02>>, 1) /\ <<\h02>>[1] = 2
    BY DEF IsList
  <2>3. Joined(c, <<\h02>>, x)
    BY <2>1, <2>2, JoinedConcat DEF IsList
  <2>4. IsList(c, 33) /\ Matches(<<\h02>>, c, 1)
    <3>1. LaidOut(c, <<\h02>>, x, 1, 2, 33)
      BY <2>1, <2>2, <2>3, Parts
    <3> QED BY <3>1 DEF LaidOut
  <2>5. c[1] = 2
    BY <2>2, <2>4 DEF Matches
  <2>6. \A i \in 1 .. 32 : c[1 + i] = x[i] /\ k[1 + i] = x[i]
    BY <2>1, <2>2, <2>3 DEF Joined, IsList, Shifted
  <2>7. \A i \in 2 .. 33 : i - 1 \in 1 .. 32 /\ 1 + (i - 1) = i
    OBVIOUS
  <2>8. \A i \in 2 .. 33 : c[i] = k[i]
    BY <2>6, <2>7
  <2> QED BY <2>4, <2>5, <2>8
<1>3. EcPublicKey \o Oid.p256 \in Seq(Nat)
  BY DEF Oid, EcPublicKey
<1>4. s = Spki(EcPublicKey \o Oid.p256, c)
  OBVIOUS
<1> HIDE DEF h, x, c
<1>5. Joined(s, h, c)
  BY <1>2, <1>3, <1>4, SpkiJoined, CompressedHeadIs DEF IsList, h
<1>6. IsList(s, 59) /\ Matches(h, s, 26)
  <2>1. LaidOut(s, h, c, 26, 27, 59)
    BY <1>1, <1>2, <1>5, Parts
  <2> QED BY <2>1 DEF LaidOut
<1>7. \A i \in 1 .. 26 : s[i] = CompressedHead[i]
  BY <1>6 DEF Matches, h
<1>8. \A i \in 1 .. 33 : s[26 + i] = c[i]
  BY <1>1, <1>2, <1>5 DEF Joined, IsList
<1>9. Len(s) = 59
  BY <1>6 DEF IsList
<1>10. \A i \in 1 .. 26 : CompressedHead[i] = 3 => i = 21 \/ i = 24
  BY DEF CompressedHead
<1>11. s[22] = 1 /\ s[25] = 34
  BY <1>7 DEF CompressedHead
<1>12. s[27] = 2
  <2>1. 1 \in 1 .. 33 /\ 26 + 1 = 27
    OBVIOUS
  <2> QED BY <1>2, <1>8, <2>1
<1>13. parse_spki_p256(s) = NoKey
  <2>1. BitString(s, Mark4, 65) = NoKey
    BY <1>6, NoRoom
  <2> QED BY <1>9, <2>1 DEF parse_spki_p256, Mark4
<1>14. normalize_p256_point(s) = NoKey
  BY <1>9 DEF normalize_p256_point
<1>15. ASSUME parse_spki_ed25519(s) # NoKey PROVE Positions(k, Mark3) # {}
  <2>1. BitString(s, Mark3, 32) # NoKey
    BY <1>9, <1>15 DEF parse_spki_ed25519, Mark3
  <2>2. PICK i : i \in Positions(s, Mark3)
    BY <2>1, NoMark
  <2>3. s \in Seq(Nat) /\ k \in Seq(Nat)
        /\ Mark3 \in Seq(Nat) /\ Len(Mark3) > 0
    BY <1>1, <1>6 DEF IsList, Mark3
  <2>4. At(s, Mark3, i)
    BY <2>2, <2>3, MarkAt
  <2>5. Has3(s, 59, i)
    BY <1>6, <2>4, MarksAt
  <2>6. i \notin 1 .. 27
    <3> SUFFICES ASSUME i \in 1 .. 27 PROVE FALSE
      OBVIOUS
    <3>1. i = 21 \/ i = 24 \/ i = 27
      BY <1>7, <1>10, <2>5 DEF Has3
    <3> QED BY <1>11, <1>12, <2>5, <3>1 DEF Has3
  <2>7. PICK j \in 2 .. 31 : i = 26 + j
    <3>1. i \in 1 .. 57 /\ i - 26 \in 2 .. 31 /\ i = 26 + (i - 26)
      BY <2>5, <2>6 DEF Has3
    <3> QED BY <3>1
  <2>8. k[j] = 3 /\ k[j + 1] = 33 /\ k[j + 2] = 0
    <3>1. /\ j \in 1 .. 33 /\ j + 1 \in 1 .. 33 /\ j + 2 \in 1 .. 33
          /\ j \in 2 .. 33 /\ j + 1 \in 2 .. 33 /\ j + 2 \in 2 .. 33
          /\ 26 + (j + 1) = (26 + j) + 1 /\ 26 + (j + 2) = (26 + j) + 2
      OBVIOUS
    <3>2. c[j] = 3 /\ c[j + 1] = 33 /\ c[j + 2] = 0
      BY <1>8, <2>5, <2>7, <3>1 DEF Has3
    <3> QED BY <1>2, <3>1, <3>2
  <2>9. Has3(k, 65, j)
    BY <2>8 DEF Has3
  <2>10. At(k, Mark3, j)
    BY <1>1, <2>9, MarksAt
  <2> QED BY <2>3, <2>10, MarkAt
<1> QED BY <1>6, <1>13, <1>14, <1>15

-----------------------------------------------------------------------------
(* The parsers on the encodings, all together.                             *)

(* The two calls of Accept, and the lengths an attribute may have.         *)
ParsedDer(c, raw) ==
  IF c = "ed25519" THEN parse_spki_ed25519(raw) ELSE parse_spki_p256(raw)

ParsedPoint(c, raw) ==
  IF c = "ed25519" THEN normalize_ec_point(raw) ELSE normalize_p256_point(raw)

Lengths(c) == IF c = "ed25519" THEN {32, 34, 44, 46} ELSE {65, 67, 91, 59}

(* What an encoded key consists of.                                        *)
LEMMA AnEncoding ==
  ASSUME NEW c \in Curves, NEW e \in EncodedOn(c)
  PROVE  /\ e.curve = c /\ e.form \in FormsOf(c) /\ e.key \in Keys[c]
         /\ IsKey(e.key, c) /\ e.key # NoKey
<1>1. e.curve = c /\ e.form \in FormsOf(c) /\ e.key \in Keys[c]
  BY DEF EncodedOn
<1> QED BY <1>1, KeysAreKeys

(* The parsers on Ed25519 keys, form by form.                              *)
LEMMA OnEd25519 ==
  ASSUME NEW e \in EncodedOn("ed25519")
  PROVE  /\ parse_spki_ed25519(Bytes(e)) =
               IF e.form \in {"raw", "spki", "spki_null"} THEN e.key ELSE NoKey
         /\ normalize_ec_point(Bytes(e)) =
               IF e.form \in {"raw", "octets", "spki"} THEN e.key ELSE NoKey
         /\ parse_spki_p256(Bytes(e)) = NoKey
         /\ Len(Bytes(e)) \in {32, 34, 44, 46}
<1>1. "ed25519" \in Curves
  BY DEF Curves
<1>2. e.curve = "ed25519" /\ IsKey(e.key, "ed25519") /\ e.key # NoKey
      /\ e.form \in {"raw", "octets", "spki", "spki_null"}
  BY <1>1, AnEncoding DEF FormsOf
<1> DEFINE k == e.key
           s == Bytes(e)
<1>3. /\ e.form = "raw" => s = k
      /\ e.form = "octets" => s = Tlv(\h04, k)
      /\ e.form = "spki" => s = Spki(Oid.ed25519, k)
      /\ e.form = "spki_null" => s = Spki(Oid.ed25519 \o Null, k)
  BY <1>2 DEF Bytes, Encode
<1>4. IsKey(k, "ed25519")
  BY <1>2
<1> HIDE DEF k, s
<1>5. CASE e.form = "raw"
  <2>1. Len(k) = 32
    BY <1>4 DEF IsKey, IsList, KeyLength
  <2> QED BY <1>3, <1>4, <1>5, <2>1, Ed25519Key DEF k, s
<1>6. CASE e.form = "octets"
  BY <1>3, <1>4, <1>6, Ed25519Octets DEF k, s, IsList
<1>7. CASE e.form = "spki"
  BY <1>3, <1>4, <1>7, Ed25519Spki DEF k, s, IsList
<1>8. CASE e.form = "spki_null"
  BY <1>3, <1>4, <1>8, NullSpki DEF k, s, IsList
<1> QED BY <1>2, <1>5, <1>6, <1>7, <1>8

(* The parsers on P-256 keys, form by form.                                *)
LEMMA OnP256 ==
  ASSUME NEW e \in EncodedOn("p256")
  PROVE  /\ parse_spki_p256(Bytes(e)) =
               IF e.form \in {"raw", "spki"} THEN e.key ELSE NoKey
         /\ normalize_p256_point(Bytes(e)) =
               IF e.form \in {"raw", "octets"} THEN e.key ELSE NoKey
         /\ parse_spki_ed25519(Bytes(e)) # NoKey => Positions(e.key, Mark3) # {}
         /\ Len(Bytes(e)) \in {65, 67, 91, 59}
<1>1. "p256" \in Curves
  BY DEF Curves
<1>2. e.curve = "p256" /\ IsKey(e.key, "p256") /\ e.key # NoKey
      /\ e.form \in {"raw", "octets", "spki", "compressed"}
  BY <1>1, AnEncoding DEF FormsOf
<1> DEFINE k == e.key
           s == Bytes(e)
<1>3. /\ e.form = "raw" => s = k
      /\ e.form = "octets" => s = Tlv(\h04, k)
      /\ e.form = "spki" => s = Spki(EcPublicKey \o Oid.p256, k)
      /\ e.form = "compressed" =>
           s = Spki(EcPublicKey \o Oid.p256, <<\h02>> \o SubSeq(k, 2, 33))
  BY <1>2 DEF Bytes, Encode
<1>4. IsKey(k, "p256")
  BY <1>2
<1> HIDE DEF k, s
<1>5. CASE e.form = "raw"
  <2>1. Len(k) = 65
    BY <1>4 DEF IsKey, IsList, KeyLength
  <2> QED BY <1>3, <1>4, <1>5, <2>1, P256Key DEF k, s
<1>6. CASE e.form = "octets"
  BY <1>3, <1>4, <1>6, P256Octets DEF k, s, IsList
<1>7. CASE e.form = "spki"
  BY <1>3, <1>4, <1>7, P256Spki DEF k, s, IsList
<1>8. CASE e.form = "compressed"
  BY <1>3, <1>4, <1>8, P256Compressed DEF k, s, IsList
<1> QED BY <1>2, <1>5, <1>6, <1>7, <1>8

(* The key of --public-key.                                                *)
LEMMA DerOfCurve ==
  ASSUME NEW c \in Curves, NEW e \in EncodedOn(c)
  PROVE  ParsedDer(c, Bytes(e)) =
           IF e.form \in DerForms[c] THEN e.key ELSE NoKey
<1>1. DerForms["ed25519"] = {"raw", "spki", "spki_null"}
      /\ DerForms["p256"] = {"raw", "spki"}
  BY DEF DerForms
<1>2. c = "ed25519" \/ c = "p256"
  BY DEF Curves
<1> QED BY <1>1, <1>2, OnEd25519, OnP256 DEF ParsedDer

(* The key of a file made for the other curve.                             *)
LEMMA DerOfOther ==
  ASSUME NEW c \in Curves, NEW d \in Curves, c # d, NEW e \in EncodedOn(d),
         ParsedDer(c, Bytes(e)) # NoKey
  PROVE  c = "ed25519" /\ Positions(e.key, Mark3) # {}
<1>1. (c = "ed25519" /\ d = "p256") \/ (c = "p256" /\ d = "ed25519")
  BY DEF Curves
<1> QED BY <1>1, OnEd25519, OnP256 DEF ParsedDer

(* The key of CKA_EC_POINT, and the lengths it may have.                   *)
LEMMA PointOfCurve ==
  ASSUME NEW c \in Curves, NEW e \in EncodedOn(c)
  PROVE  /\ ParsedPoint(c, Bytes(e)) =
               IF e.form \in PointForms[c] THEN e.key ELSE NoKey
         /\ Len(Bytes(e)) \in Lengths(c)
<1>1. PointForms["ed25519"] = {"raw", "octets", "spki"}
      /\ PointForms["p256"] = {"raw", "octets"}
  BY DEF PointForms
<1>2. c = "ed25519" \/ c = "p256"
  BY DEF Curves
<1> QED BY <1>1, <1>2, OnEd25519, OnP256 DEF ParsedPoint, Lengths

(* The buffer, before anything is written to it.                           *)
Zeros(n) == [i \in 1 .. n |-> 0]

(* An answer that brought nothing into the buffer is refused, unless it    *)
(* passes for an Ed25519 key.                                              *)
LEMMA PointOfZeros ==
  ASSUME NEW c \in Curves, NEW n \in Lengths(c),
         ParsedPoint(c, Zeros(n)) # NoKey
  PROVE  /\ c = "ed25519" /\ n = 32
         /\ ParsedPoint(c, Zeros(n)) = Zeros(32)
<1>1. n \in Nat /\ n >= 1
  BY DEF Lengths
<1> DEFINE s == Zeros(n)
<1>2. IsList(s, n) /\ s[1] = 0
  BY <1>1 DEF IsList, Zeros
<1>3. Len(s) = n
  BY <1>2 DEF IsList
<1> HIDE DEF s
<1>4. ~IsPrefix(<<\h04>>, s) /\ ~IsPrefix(<<\h30>>, s)
  BY <1>1, <1>2, Starts
<1>5. ~IsPrefix(<<\h04, \h20>>, s) /\ ~IsPrefix(<<\h04, \h41, \h04>>, s)
  <2>1. ASSUME NEW m, NEW l \in Nat, l >= 1, IsList(m, l), m[1] = 4, l <= n
        PROVE  ~IsPrefix(m, s)
    <3>1. IsPrefix(m, s) <=> Matches(m, s, l)
      BY <1>1, <1>2, <2>1, BeginsWith
    <3>2. 1 \in 1 .. l
      BY <2>1
    <3> QED BY <1>2, <2>1, <3>1, <3>2 DEF Matches
  <2>2. IsList(<<\h04, \h20>>, 2) /\ <<\h04, \h20>>[1] = 4
        /\ IsList(<<\h04, \h41, \h04>>, 3) /\ <<\h04, \h41, \h04>>[1] = 4
    BY DEF IsList
  <2>3. n >= 32
    BY DEF Lengths
  <2> QED BY <1>1, <2>1, <2>2, <2>3
<1>6. normalize_p256_point(s) = NoKey
  BY <1>4, <1>5 DEF normalize_p256_point
<1>7. c = "ed25519" /\ normalize_ec_point(s) # NoKey
  BY <1>6 DEF ParsedPoint, Curves, s
<1>8. n = 32
  BY <1>3, <1>4, <1>5, <1>7 DEF normalize_ec_point
<1>9. normalize_ec_point(s) = s
  BY <1>3, <1>8 DEF normalize_ec_point
<1> QED BY <1>7, <1>8, <1>9 DEF ParsedPoint, s

(* And so is one that cut the buffer to nothing.                           *)
LEMMA PointOfNothing ==
  ASSUME NEW c \in Curves
  PROVE  ParsedPoint(c, << >>) = NoKey
<1>1. Len(<< >>) = 0
  OBVIOUS
<1>2. normalize_ec_point(<< >>) = NoKey
  BY <1>1 DEF normalize_ec_point
<1>3. normalize_p256_point(<< >>) = NoKey
  BY <1>1 DEF normalize_p256_point
<1> QED BY <1>2, <1>3 DEF ParsedPoint

-----------------------------------------------------------------------------
(* The inductive invariant.                                                *)

(* What the second answer left in the buffer.                              *)
Brought ==
  IF held # Nothing THEN held \in EncodedOn(curve) /\ buffer = Bytes(held)
  ELSE buffer = << >> \/ \E n \in Lengths(curve) : buffer = Zeros(n)

(* The three properties.                                                   *)
Served == KeyServed /\ FormsRecognised /\ OtherCurveRefused

(* The length is that of some encoding, and the rest follows.              *)
IInv ==
  /\ curve \in Curves /\ der \in Encoded \cup {Nothing}
  /\ value \in EncodedOn(curve) \cup {Nothing}
  /\ pc \in {"value", "normalize"} => der = Nothing
  /\ pc = "value" => len \in Lengths(curve)
  /\ pc = "normalize" => Brought
  /\ Served

(* The properties are about calls that have ended with a key or without.   *)
LEMMA Unsettled ==
  ASSUME pc' \notin {"resolved", "unrecognised"}
  PROVE  Served'
BY DEF Served, KeyServed, FormsRecognised, OtherCurveRefused

(* What becomes of --public-key.                                           *)
LEMMA ParsedIsServed ==
  ASSUME IInv, ParseDer
  PROVE  Served'
<1> DEFINE raw == ParsedDer(curve, Bytes(der))
<1>1. /\ pc = "start" /\ der # Nothing /\ Accept(raw)
      /\ UNCHANGED <<curve, der, held>>
  BY DEF ParseDer, ParsedDer, given, token
<1>2. curve \in Curves /\ der \in Encoded
  BY <1>1 DEF IInv
<1>3. PICK d \in Curves : der \in EncodedOn(d)
  BY <1>2 DEF Encoded
<1>4. der.curve = d /\ der.key \in Keys[d]
  BY <1>3, AnEncoding
<1>5. d = curve =>
        raw = IF der.form \in DerForms[curve] THEN der.key ELSE NoKey
  BY <1>2, <1>3, DerOfCurve
<1>6. d # curve /\ raw # NoKey =>
        curve = "ed25519" /\ Positions(der.key, Mark3) # {}
  BY <1>2, <1>3, DerOfOther
<1> HIDE DEF raw
<1>7. pc' = "resolved" \/ pc' = "unrecognised"
  BY <1>1 DEF Accept
<1>8. pc' = "resolved" => raw # NoKey /\ key' = raw
  BY <1>1 DEF Accept
<1>9. pc' = "unrecognised" => raw \notin Keys[curve]
  BY <1>1 DEF Accept
<1>10. KeyServed'
  BY <1>1, <1>4, <1>5, <1>8 DEF KeyServed
<1>11. FormsRecognised'
  BY <1>1, <1>4, <1>5, <1>9 DEF FormsRecognised
<1>12. OtherCurveRefused'
  BY <1>1, <1>4, <1>6, <1>8 DEF OtherCurveRefused, Mark3
<1> QED BY <1>10, <1>11, <1>12 DEF Served

(* What becomes of the token's second answer.                              *)
LEMMA NormalizedIsServed ==
  ASSUME IInv, Normalize
  PROVE  Served'
<1> DEFINE raw == ParsedPoint(curve, buffer)
<1>1. /\ pc = "normalize" /\ der = Nothing /\ Accept(raw)
      /\ UNCHANGED <<curve, der, held>> /\ Brought /\ curve \in Curves
  BY DEF Normalize, ParsedPoint, given, token, IInv
<1>2. pc' = "resolved" => raw # NoKey /\ key' = raw
  BY <1>1 DEF Accept
<1>3. pc' = "unrecognised" => raw \notin Keys[curve]
  BY <1>1 DEF Accept
<1>4. held # Nothing =>
        /\ held.key \in Keys[curve]
        /\ raw = IF held.form \in PointForms[curve] THEN held.key ELSE NoKey
  BY <1>1, AnEncoding, PointOfCurve DEF Brought
<1>5. held = Nothing /\ raw # NoKey =>
        curve = "ed25519" /\ raw = [i \in 1 .. 32 |-> 0]
  BY <1>1, PointOfZeros, PointOfNothing DEF Brought, Zeros
<1> HIDE DEF raw
<1>6. KeyServed'
  BY <1>1, <1>2, <1>4, <1>5 DEF KeyServed
<1>7. FormsRecognised'
  BY <1>1, <1>3, <1>4 DEF FormsRecognised
<1>8. OtherCurveRefused'
  BY <1>1 DEF OtherCurveRefused
<1> QED BY <1>6, <1>7, <1>8 DEF Served

(* The length that is remembered is that of some encoding, and the buffer  *)
(* is what the second answer brought.                                      *)
THEOREM Invariance == Spec => []IInv
<1>1. Init => IInv
  BY DEF Init, IInv, Served, KeyServed, FormsRecognised, OtherCurveRefused
<1>2. IInv /\ [Next]_vars => IInv'
  <2> SUFFICES ASSUME IInv, [Next]_vars PROVE IInv'
    OBVIOUS
  <2>1. CASE ParseDer
    <3>1. Served'
      BY <2>1, ParsedIsServed
    <3>2. /\ pc' \in {"resolved", "unrecognised"}
          /\ UNCHANGED <<curve, der, value>>
      BY <2>1 DEF ParseDer, Accept, given, token
    <3> QED BY <3>1, <3>2 DEF IInv
  <2>2. CASE NoObject
    BY <2>2, Unsettled DEF NoObject, IInv, given, token
  <2>3. CASE AskLength
    <3>1. /\ der = Nothing /\ UNCHANGED <<curve, der, value>>
          /\ pc' = "value" \/ pc' = "refused"
          /\ pc' = "value" => value # Nothing /\ len' = Len(Bytes(value))
      BY <2>3 DEF AskLength, given, token
    <3>2. pc' = "value" => len' \in Lengths(curve)
      BY <3>1, PointOfCurve DEF IInv
    <3> QED BY <3>1, <3>2, Unsettled DEF IInv
  <2>4. CASE AskValue
    <3>1. /\ pc = "value" /\ held' = value
          /\ UNCHANGED <<curve, der, value, len>>
          /\ pc' = "normalize" \/ pc' = "refused"
          /\ pc' = "normalize" =>
               IF value # Nothing THEN buffer' = Bytes(value)
               ELSE buffer' \in {<< >>, Zeros(len)}
      BY <2>4 DEF AskValue, given, token, Zeros
    <3>2. pc' = "normalize" => Brought'
      BY <3>1 DEF IInv, Brought
    <3> QED BY <3>1, <3>2, Unsettled DEF IInv
  <2>5. CASE Normalize
    <3>1. Served'
      BY <2>5, NormalizedIsServed
    <3>2. /\ pc' \in {"resolved", "unrecognised"}
          /\ UNCHANGED <<curve, der, value>>
      BY <2>5 DEF Normalize, Accept, given, token
    <3> QED BY <3>1, <3>2 DEF IInv
  <2>6. CASE Change
    <3>1. /\ pc = "value" /\ value' \in EncodedOn(curve) \cup {Nothing}
          /\ UNCHANGED <<curve, der, pc, len>>
      BY <2>6 DEF Change, given
    <3> QED BY <3>1, Unsettled DEF IInv
  <2>7. CASE UNCHANGED vars
    BY <2>7 DEF vars, given, token, IInv, Served, KeyServed, FormsRecognised,
                OtherCurveRefused, Brought
  <2> QED BY <2>1, <2>2, <2>3, <2>4, <2>5, <2>6, <2>7 DEF Next, Terminated
<1> QED BY <1>1, <1>2, PTL DEF Spec

(* A key that is resolved is the one that was encoded, whatever the keys   *)
(* and however often the attribute changes between the two calls.          *)
THEOREM RightKey == Spec => []KeyServed
<1>1. IInv => KeyServed
  BY DEF IInv, Served
<1> QED BY <1>1, Invariance, PTL

(* No key in one of the forms the parsers are for is unrecognised,         *)
(* whatever its bytes.                                                     *)
THEOREM NoFormRefused == Spec => []FormsRecognised
<1>1. IInv => FormsRecognised
  BY DEF IInv, Served
<1> QED BY <1>1, Invariance, PTL

(* A file with a key of the other curve is refused, unless the parser's    *)
(* mark is among the bytes of the key itself.                              *)
THEOREM CurvesKeptApart == Spec => []OtherCurveRefused
<1>1. IInv => OtherCurveRefused
  BY DEF IInv, Served
<1> QED BY <1>1, Invariance, PTL
=============================================================================
