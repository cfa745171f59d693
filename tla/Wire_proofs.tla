---------------------------- MODULE Wire_proofs ----------------------------
(***************************************************************************)
(* What the wire of Wire guarantees, for bytes of any width, any payload   *)
(* limit, any set of messages, any noise and reads of any size:            *)
(*                                                                         *)
(*   1. sequences of cells: joining and cutting, and groups of four;       *)
(*   2. the payloads: each of the ten survives encoding and decoding, and  *)
(*      what is decoded is encoded to the same bytes again;                *)
(*   3. folds, the COBS encoder and decoder, and that one undoes the other;*)
(*   4. a frame holds exactly the packet it was made of;                   *)
(*   5. the parser, byte by byte, and the invariant of the whole.          *)
(*                                                                         *)
(* Of the checksum only its width is used (CrcFits).                       *)
(***************************************************************************)
EXTENDS Wire, WellFoundedInduction, SequenceTheorems, TLAPS

LEMMA Bytes ==
  /\ TopCell \in Nat /\ TopCell >= 63 /\ MaxPayload \in Nat
  /\ MaxRaw < TopCell - 1
<1>1. TypeCode["SafeStop"] = 63 /\ "SafeStop" \in DOMAIN TypeCode
  BY DEF TypeCode
<1> QED
  BY <1>1, WireAssumption, PayloadAssumption DEF Cell

(* The prover knows little of \o and SubSeq, and what it needs is named.   *)
IsCells(a, n) == a \in Seq(Cell) /\ Len(a) = n
Holds(c, i, a, n) == \A j \in 1 .. n : c[i + j] = a[j]
IsJoin(c, a, n, b, k) ==
  IsCells(c, n + k) /\ (\A j \in 1 .. n : c[j] = a[j]) /\ Holds(c, n, b, k)
Cut(c, i, k) == SubSeq(c, i + 1, i + k)
IsPart(s, c, i, n) == IsCells(s, n) /\ Holds(c, i, s, n)

LEMMA Joined ==
  ASSUME NEW a, NEW b, NEW n \in Nat, NEW k \in Nat,
         IsCells(a, n), IsCells(b, k)
  PROVE  IsJoin(a \o b, a, n, b, k)
<1>1. a \in Seq(Cell) /\ b \in Seq(Cell)
  BY DEF IsCells
<1>2. /\ a \o b \in Seq(Cell) /\ Len(a \o b) = n + k
      /\ \A i \in 1 .. n + k : (a \o b)[i] = IF i <= n THEN a[i] ELSE b[i - n]
  BY <1>1, ConcatProperties DEF IsCells
<1>3. ASSUME NEW i \in 1 .. n PROVE (a \o b)[i] = a[i]
  <2>1. i \in 1 .. n + k /\ i <= n
    OBVIOUS
  <2> QED BY <1>2, <2>1
<1>4. ASSUME NEW i \in 1 .. k PROVE (a \o b)[n + i] = b[i]
  <2>1. n + i \in 1 .. n + k /\ ~(n + i <= n) /\ n + i - n = i
    OBVIOUS
  <2> QED BY <1>2, <2>1
<1> QED
  BY <1>2, <1>3, <1>4 DEF IsCells, Holds, IsJoin

LEMMA Part ==
  ASSUME NEW c, NEW n \in Nat, IsCells(c, n),
         NEW i \in Nat, NEW to \in Nat, i <= to, to <= n
  PROVE  IsPart(SubSeq(c, i + 1, to), c, i, to - i)
<1>1. ASSUME NEW j \in i + 1 .. to PROVE c[j] \in Cell
  BY DEF IsCells
<1>3. /\ SubSeq(c, i + 1, to) \in Seq(Cell)
      /\ Len(SubSeq(c, i + 1, to))
           = IF i + 1 <= to THEN to - (i + 1) + 1 ELSE 0
      /\ \A j \in 1 .. to - (i + 1) + 1 :
           SubSeq(c, i + 1, to)[j] = c[i + 1 + j - 1]
  BY <1>1, SubSeqProperties
<1>4. ASSUME NEW j \in 1 .. to - i PROVE c[i + j] = SubSeq(c, i + 1, to)[j]
  <2>1. j \in 1 .. to - (i + 1) + 1 /\ i + 1 + j - 1 = i + j
    OBVIOUS
  <2> QED
    BY <1>3, <2>1
<1> QED
  BY <1>3, <1>4 DEF IsCells, Holds, IsPart

LEMMA CellAt ==
  ASSUME NEW c, NEW n \in Nat, IsCells(c, n), NEW i \in 1 .. n
  PROVE  c[i] \in Cell
  BY DEF IsCells

LEMMA Same ==
  ASSUME NEW a, NEW b, NEW n \in Nat, IsCells(a, n), IsCells(b, n),
         \A j \in 1 .. n : a[j] = b[j]
  PROVE  a = b
  BY SeqEqual DEF IsCells

LEMMA PartIs ==
  ASSUME NEW c, NEW n \in Nat, NEW i \in Nat, NEW a, NEW k \in Nat,
         IsCells(c, n), IsPart(a, c, i, k), i + k <= n
  PROVE  Cut(c, i, k) = a
<1> DEFINE s == SubSeq(c, i + 1, i + k)
<1>1. IsPart(s, c, i, i + k - i)
  BY Part
<1> HIDE DEF s
<1>2. i + k - i = k
  OBVIOUS
<1>3. IsPart(s, c, i, k)
  BY <1>1, <1>2
<1>4. IsCells(s, k) /\ IsCells(a, k) /\ \A j \in 1 .. k : s[j] = a[j]
  BY <1>3 DEF Holds, IsPart
<1> QED
  BY <1>4, Same DEF s, Cut

LEMMA Cutting ==
  ASSUME NEW c, NEW n \in Nat, NEW i \in Nat, NEW k \in Nat,
         IsCells(c, n), i + k <= n
  PROVE  IsPart(Cut(c, i, k), c, i, k)
<1>1. IsPart(SubSeq(c, i + 1, i + k), c, i, i + k - i)
  BY Part
<1>2. i + k - i = k
  OBVIOUS
<1> QED
  BY <1>1, <1>2 DEF Cut

LEMMA Rejoined ==
  ASSUME NEW a, NEW i \in Nat, NEW k \in Nat, IsCells(a, i + k),
         NEW s, NEW t, IsPart(s, a, 0, i), IsPart(t, a, i, k)
  PROVE  s \o t = a
<1>1. IsCells(s, i) /\ IsCells(t, k)
  BY DEF IsPart
<1> DEFINE c == s \o t
<1>2. IsJoin(c, s, i, t, k)
  BY <1>1, Joined
<1> HIDE DEF c
<1>3. ASSUME NEW j \in 1 .. i + k PROVE c[j] = a[j]
  <2>1. CASE j <= i
    BY <1>2, <2>1 DEF IsPart, Holds, IsJoin
  <2>2. CASE j > i
    <3>1. j - i \in 1 .. k /\ i + (j - i) = j
      BY <2>2
    <3>2. c[i + (j - i)] = t[j - i] /\ a[i + (j - i)] = t[j - i]
      BY <1>2, <3>1 DEF IsPart, Holds, IsJoin
    <3> QED
      BY <3>1, <3>2
  <2> QED
    BY <2>1, <2>2
<1>4. IsCells(c, i + k) /\ i + k \in Nat
  BY <1>2 DEF IsJoin
<1> QED
  BY <1>3, <1>4, Same DEF c

LEMMA CellsOfTuple ==
  ASSUME NEW n \in Nat, NEW t \in Tuple(n), AllCells(t)
  PROVE  IsCells(t, n)
<1>1. /\ DOMAIN t = 1 .. n /\ t = [i \in 1 .. n |-> t[i]]
      /\ \A i \in 1 .. n : t[i] \in Cell
  BY DEF Tuple, AllCells
<1> QED
  BY <1>1 DEF IsCells

(* Three parts in a row.                                                   *)
AreThree(c, a, n, b, k, d, l) ==
  /\ IsCells(c, n + k + l) /\ \A j \in 1 .. n : c[j] = a[j]
  /\ IsPart(a, c, 0, n) /\ IsPart(b, c, n, k) /\ IsPart(d, c, n + k, l)

LEMMA JoinedThree ==
  ASSUME NEW a, NEW b, NEW d, NEW n \in Nat, NEW k \in Nat, NEW l \in Nat,
         IsCells(a, n), IsCells(b, k), IsCells(d, l)
  PROVE  AreThree(a \o b \o d, a, n, b, k, d, l)
<1> DEFINE two == a \o b
           c == two \o d
<1>1. IsJoin(two, a, n, b, k)
  BY Joined
<1>2. IsCells(two, n + k) /\ n + k \in Nat
  BY <1>1 DEF IsJoin
<1> HIDE DEF two
<1>3. IsJoin(c, two, n + k, d, l)
  BY <1>2, Joined
<1> HIDE DEF c
<1>4. \A j \in 1 .. n : c[j] = a[j]
  BY <1>1, <1>3 DEF IsJoin
<1>5. IsPart(a, c, 0, n)
  BY <1>4 DEF IsPart, Holds
<1>6. IsPart(b, c, n, k)
  <2>1. ASSUME NEW j \in 1 .. k PROVE c[n + j] = b[j]
    BY <1>1, <1>3 DEF IsJoin, Holds
  <2> QED
    BY <2>1 DEF IsPart, Holds
<1>7. IsPart(d, c, n + k, l) /\ IsCells(c, n + k + l)
  BY <1>3 DEF IsPart, IsJoin
<1> QED
  BY <1>4, <1>5, <1>6, <1>7 DEF AreThree, c, two

(* Induction, without an operator for the statement: T is the set of the   *)
(* numbers it is true of.                                                  *)
LEMMA SetInduction ==
  ASSUME NEW T, 0 \in T, \A n \in Nat : n \in T => n + 1 \in T
  PROVE  Nat \subseteq T
<1> DEFINE Out == {n \in Nat : n \notin T}
           Lt == {p \in Nat \X Nat : p[1] < p[2]}
<1>1. IsWellFoundedOn(Lt, Nat)
  BY NatLessThanWellFounded DEF OpToRel
<1>2. SUFFICES ASSUME Out # {} PROVE FALSE
  OBVIOUS
<1> HIDE DEF Lt
<1>3. PICK n \in Out : \A m \in Out : ~(<<m, n>> \in Lt)
  BY <1>1, <1>2, WFMin
<1>4. n # 0 /\ n \in Nat /\ n - 1 \in Nat
  OBVIOUS
<1>5. n - 1 \in Out
  BY <1>4
<1>6. <<n - 1, n>> \in Lt
  BY <1>4 DEF Lt
<1> QED
  BY <1>3, <1>5, <1>6

(* Groups of four cells, one after the other.                              *)
IsFlat(c, s, n) ==
  /\ IsCells(c, 4 * n)
  /\ \A i \in 1 .. n : IsPart(s[i], c, 4 * (i - 1), 4)

LEMMA FlatMore ==
  ASSUME NEW c, NEW s, NEW n \in Nat, IsFlat(c, s, n), IsCells(s[n + 1], 4)
  PROVE  IsFlat(c \o s[n + 1], s, n + 1)
<1> DEFINE d == c \o s[n + 1]
<1>1. IsCells(c, 4 * n) /\ 4 * n \in Nat
  BY DEF IsFlat
<1>2. IsJoin(d, c, 4 * n, s[n + 1], 4)
  BY <1>1, Joined
<1> HIDE DEF d
<1>3. ASSUME NEW i \in 1 .. n + 1 PROVE IsPart(s[i], d, 4 * (i - 1), 4)
  <2>1. CASE i = n + 1
    <3>1. 4 * (i - 1) = 4 * n
      BY <2>1
    <3> QED
      BY <1>2, <2>1, <3>1 DEF IsJoin, IsPart
  <2>2. CASE i # n + 1
    <3>1. IsPart(s[i], c, 4 * (i - 1), 4)
      BY <2>2 DEF IsFlat
    <3>2. ASSUME NEW j \in 1 .. 4 PROVE d[4 * (i - 1) + j] = s[i][j]
      <4>1. 4 * (i - 1) + j \in 1 .. 4 * n
        BY <2>2
      <4> QED
        BY <1>2, <3>1, <4>1 DEF IsJoin, IsPart, Holds
    <3> QED
      BY <3>1, <3>2 DEF IsPart, Holds
  <2> QED
    BY <2>1, <2>2
<1>4. IsCells(d, 4 * (n + 1))
  <2>1. 4 * n + 4 = 4 * (n + 1)
    OBVIOUS
  <2> QED
    BY <1>2, <2>1 DEF IsJoin
<1> QED
  BY <1>3, <1>4 DEF IsFlat, d

LEMMA Flattened ==
  ASSUME NEW s, NEW N \in Nat, s \in Seq(Seq(Cell)), Len(s) = N,
         \A i \in 1 .. N : IsCells(s[i], 4)
  PROVE  IsFlat(FlattenSeq(s), s, N)
<1>1. CASE N = 0
  <2>1. FlattenSeq(s) = <<>>
    BY <1>1 DEF FlattenSeq
  <2>2. IsCells(<<>>, 4 * 0)
    BY DEF IsCells
  <2> QED
    BY <1>1, <2>1, <2>2 DEF IsFlat
<1>2. CASE N # 0
  <2> DEFINE
    Flat(f, n) == f = [i \in 1 .. n |-> IF i = 1 THEN s[i]
                                        ELSE f[i - 1] \o s[i]]
    Some == {n \in Nat : \E f : Flat(f, n)}
  <2>1. FlattenSeq(s) = (CHOOSE f : Flat(f, N))[N]
    BY <1>2 DEF FlattenSeq
  <2>2. 0 \in Some
    <3>1. Flat([i \in 1 .. 0 |-> s], 0)
      OBVIOUS
    <3> HIDE DEF Flat
    <3> QED
      BY <3>1
  <2>3. ASSUME NEW n \in Nat, n \in Some PROVE n + 1 \in Some
    <3>1. PICK f : Flat(f, n)
      BY <2>3
    <3> DEFINE g == [i \in 1 .. n + 1 |->
                       IF i <= n THEN f[i]
                       ELSE IF i = 1 THEN s[i] ELSE f[i - 1] \o s[i]]
    <3>2. ASSUME NEW i \in 1 .. n + 1
          PROVE  g[i] = IF i = 1 THEN s[i] ELSE g[i - 1] \o s[i]
      <4>1. i # 1 => i - 1 \in 1 .. n /\ i - 1 \in 1 .. n + 1 /\ i - 1 <= n
        OBVIOUS
      <4>2. i # 1 => g[i - 1] = f[i - 1]
        BY <4>1
      <4>3. i <= n => g[i] = f[i] /\ i \in 1 .. n
        OBVIOUS
      <4>4. ~(i <= n) => g[i] = IF i = 1 THEN s[i] ELSE f[i - 1] \o s[i]
        OBVIOUS
      <4> HIDE DEF g
      <4>5. i <= n => f[i] = IF i = 1 THEN s[i] ELSE f[i - 1] \o s[i]
        BY <3>1, <4>3
      <4> QED
        BY <4>2, <4>3, <4>4, <4>5
    <3>3. g = [i \in 1 .. n + 1 |-> g[i]]
      OBVIOUS
    <3> HIDE DEF g
    <3>4. Flat(g, n + 1)
      BY <3>2, <3>3
    <3> HIDE DEF Flat
    <3> QED
      BY <3>4
  <2>4. \E f : Flat(f, N)
    <3>1. Nat \subseteq Some
      <4> HIDE DEF Some
      <4> QED
        BY <2>2, <2>3, SetInduction
    <3> HIDE DEF Flat
    <3> QED
      BY <3>1
  <2> DEFINE f == CHOOSE g : Flat(g, N)
  <2>5. Flat(f, N) /\ FlattenSeq(s) = f[N]
    <3> HIDE DEF Flat
    <3> QED
      BY <2>1, <2>4
  <2> HIDE DEF f
  <2> DEFINE Done == {n \in Nat : n + 1 <= N => IsFlat(f[n + 1], s, n + 1)}
  <2>6. 0 \in Done
    <3>1. f[1] = s[1] /\ IsCells(s[1], 4)
      BY <1>2, <2>5
    <3>2. IsFlat(s[1], s, 1)
      <4>1. IsPart(s[1], s[1], 0, 4)
        BY <3>1 DEF IsPart, Holds
      <4>2. 4 * 1 = 4 /\ \A i \in 1 .. 1 : i = 1 /\ 4 * (i - 1) = 0
        OBVIOUS
      <4> QED
        BY <3>1, <4>1, <4>2 DEF IsFlat
    <3> QED
      BY <3>1, <3>2
  <2>7. ASSUME NEW n \in Nat, n \in Done PROVE n + 1 \in Done
    <3> SUFFICES ASSUME n + 1 + 1 <= N
                 PROVE  IsFlat(f[n + 1 + 1], s, n + 1 + 1)
      OBVIOUS
    <3>1. n + 1 <= N
      OBVIOUS
    <3>2. f[n + 1 + 1] = f[n + 1] \o s[n + 1 + 1]
      <4> DEFINE k == n + 1 + 1
      <4>1. k \in 1 .. N /\ k # 1 /\ k - 1 = n + 1
        OBVIOUS
      <4> HIDE DEF k
      <4>2. f[k] = f[k - 1] \o s[k]
        BY <2>5, <4>1
      <4>3. f[k] = f[n + 1] \o s[k]
        BY <4>1, <4>2
      <4> QED
        BY <4>3 DEF k
    <3>3. /\ IsFlat(f[n + 1], s, n + 1) /\ n + 1 \in Nat
          /\ IsCells(s[n + 1 + 1], 4)
      BY <2>7, <3>1
    <3>4. IsFlat(f[n + 1] \o s[n + 1 + 1], s, n + 1 + 1)
      BY <3>3, FlatMore
    <3> QED
      BY <3>2, <3>4
  <2>8. Nat \subseteq Done
    <3> HIDE DEF Done
    <3> QED
      BY <2>6, <2>7, SetInduction
  <2>9. PICK n \in Nat : n + 1 = N
    <3>1. N - 1 \in Nat /\ N - 1 + 1 = N
      BY <1>2
    <3> QED
      BY <3>1
  <2>10. IsFlat(f[n + 1], s, n + 1)
    BY <2>8, <2>9
  <2> QED
    BY <2>5, <2>9, <2>10
<1> QED
  BY <1>1, <1>2

LEMMA FlatIsOne ==
  ASSUME NEW s, NEW n \in Nat, NEW c, NEW d, IsFlat(c, s, n), IsFlat(d, s, n)
  PROVE  c = d
<1>1. ASSUME NEW j \in 1 .. 4 * n PROVE c[j] = d[j]
  <2>1. PICK i \in 1 .. n, r \in 1 .. 4 : j = 4 * (i - 1) + r
    <3>1. /\ ((j - 1) \div 4) + 1 \in 1 .. n /\ ((j - 1) % 4) + 1 \in 1 .. 4
          /\ j = 4 * (((j - 1) \div 4) + 1 - 1) + (((j - 1) % 4) + 1)
      OBVIOUS
    <3> QED
      BY <3>1
  <2>2. IsPart(s[i], c, 4 * (i - 1), 4) /\ IsPart(s[i], d, 4 * (i - 1), 4)
    BY DEF IsFlat
  <2> QED
    BY <2>1, <2>2 DEF IsPart, Holds
<1>2. IsCells(c, 4 * n) /\ IsCells(d, 4 * n) /\ 4 * n \in Nat
  BY DEF IsFlat
<1> QED
  BY <1>1, <1>2, Same

LEMMA PartOfPart ==
  ASSUME NEW a, NEW b, NEW c, NEW i \in Nat, NEW n \in Nat, NEW k \in Nat,
         NEW l \in Nat, IsPart(a, b, i, n), IsPart(b, c, k, l), i + n <= l
  PROVE  IsPart(a, c, k + i, n)
<1>1. ASSUME NEW j \in 1 .. n PROVE c[k + i + j] = a[j]
  <2>1. i + j \in 1 .. l /\ k + (i + j) = k + i + j
    OBVIOUS
  <2>2. b[i + j] = a[j] /\ c[k + (i + j)] = b[i + j]
    BY <2>1 DEF IsPart, Holds
  <2> QED
    BY <2>1, <2>2
<1> QED
  BY <1>1 DEF IsPart, Holds

LEMMA PartWithin ==   \* the other way round
  ASSUME NEW a, NEW b, NEW c, NEW i \in Nat, NEW n \in Nat, NEW k \in Nat,
         NEW l \in Nat, IsPart(a, c, k + i, n), IsPart(b, c, k, l), i + n <= l
  PROVE  IsPart(a, b, i, n)
<1>1. ASSUME NEW j \in 1 .. n PROVE b[i + j] = a[j]
  <2>1. i + j \in 1 .. l /\ k + (i + j) = k + i + j
    OBVIOUS
  <2>2. c[k + i + j] = a[j] /\ c[k + (i + j)] = b[i + j]
    BY <2>1 DEF IsPart, Holds
  <2> QED
    BY <2>1, <2>2
<1> QED
  BY <1>1 DEF IsPart, Holds

LEMMA GroupIsCut ==
  ASSUME NEW c, NEW k \in Nat, NEW count \in Nat, NEW i \in 1 .. count
  PROVE  Groups(c, k + 1, count)[i] = Cut(c, k + 4 * (i - 1), 4)
<1>1. Groups(c, k + 1, count)[i]
        = SubSeq(c, k + 1 + 4 * (i - 1), k + 1 + 4 * i - 1)
  BY DEF Groups
<1>2. /\ k + 1 + 4 * (i - 1) = k + 4 * (i - 1) + 1
      /\ k + 1 + 4 * i - 1 = k + 4 * (i - 1) + 4
  OBVIOUS
<1> QED
  BY <1>1, <1>2, Zenon DEF Cut

AreGroups(s, c, k, count) ==
  \A i \in 1 .. count : IsPart(s[i], c, k + 4 * (i - 1), 4)

IsTuple(s, n) == s = [i \in 1 .. n |-> s[i]]

LEMMA GroupsAre ==
  ASSUME NEW c, NEW n \in Nat, IsCells(c, n), NEW k \in Nat,
         NEW count \in Nat, k + 4 * count <= n,
         NEW s, IsTuple(s, count),
         AreGroups(s, c, k, count)
  PROVE  Groups(c, k + 1, count) = s
<1> DEFINE g == Groups(c, k + 1, count)
<1>1. ASSUME NEW i \in 1 .. count PROVE g[i] = s[i]
  <2>1. k + 4 * (i - 1) \in Nat /\ k + 4 * (i - 1) + 4 <= n
    OBVIOUS
  <2>2. IsPart(s[i], c, k + 4 * (i - 1), 4)
    BY DEF AreGroups
  <2>3. Cut(c, k + 4 * (i - 1), 4) = s[i]
    BY <2>1, <2>2, PartIs
  <2> QED
    BY <2>3, GroupIsCut
<1>2. g = [i \in 1 .. count |-> g[i]]
  BY DEF Groups
<1> HIDE DEF g
<1>3. g = s
  BY <1>1, <1>2 DEF IsTuple
<1> QED
  BY <1>3 DEF g

LEMMA Regrouped ==
  ASSUME NEW c, NEW n \in Nat, IsCells(c, n), NEW k \in Nat,
         NEW count \in Nat, k + 4 * count <= n
  PROVE  IsPart(FlattenSeq(Groups(c, k + 1, count)), c, k, 4 * count)
<1> DEFINE g == Groups(c, k + 1, count)
           whole == Cut(c, k, 4 * count)
<1>1. 4 * count \in Nat
  OBVIOUS
<1>2. IsPart(whole, c, k, 4 * count)
  BY <1>1, Cutting
<1>3. ASSUME NEW i \in 1 .. count
      PROVE  IsPart(g[i], c, k + 4 * (i - 1), 4)
  <2>1. k + 4 * (i - 1) \in Nat /\ k + 4 * (i - 1) + 4 <= n
    OBVIOUS
  <2>2. IsPart(Cut(c, k + 4 * (i - 1), 4), c, k + 4 * (i - 1), 4)
    BY <2>1, Cutting
  <2> QED
    BY <2>2, GroupIsCut
<1>4. DOMAIN g = 1 .. count /\ g = [i \in 1 .. count |-> g[i]]
  BY DEF Groups
<1> HIDE DEF g, whole
<1>5. \A i \in 1 .. count : IsCells(g[i], 4)
  BY <1>3 DEF IsPart
<1>6. g \in Seq(Seq(Cell)) /\ Len(g) = count
  <2>1. \A i \in 1 .. count : g[i] \in Seq(Cell)
    BY <1>5 DEF IsCells
  <2> QED
    BY <1>4, <2>1
<1>7. IsFlat(FlattenSeq(g), g, count)
  BY <1>5, <1>6, Flattened
<1>8. IsFlat(whole, g, count)
  <2>1. ASSUME NEW i \in 1 .. count PROVE IsPart(g[i], whole, 4 * (i - 1), 4)
    <3>1. 4 * (i - 1) \in Nat /\ 4 * (i - 1) + 4 <= 4 * count
      OBVIOUS
    <3>2. IsPart(g[i], c, k + 4 * (i - 1), 4)
      BY <1>3
    <3> DEFINE at == 4 * (i - 1)
               many == 4 * count
    <3>3. /\ at \in Nat /\ many \in Nat /\ at + 4 <= many
          /\ IsPart(g[i], c, k + at, 4) /\ IsPart(whole, c, k, many)
      BY <1>1, <1>2, <3>1, <3>2
    <3> HIDE DEF at, many
    <3>4. IsPart(g[i], whole, at, 4)
      BY <3>3, PartWithin
    <3> QED
      BY <3>4 DEF at
  <2> QED
    BY <1>2, <2>1 DEF IsFlat, IsPart
<1>9. FlattenSeq(g) = whole
  BY <1>7, <1>8, FlatIsOne
<1> QED
  BY <1>2, <1>9 DEF g

LEMMA PartsInARow ==
  ASSUME NEW c, NEW n \in Nat, NEW k \in Nat, NEW l \in Nat,
         NEW a, NEW b, NEW d,
         IsPart(a, c, 0, n), IsPart(b, c, n, k), NEW i, i = n + k,
         IsPart(d, c, i, l), NEW to, to = i + l
  PROVE  IsPart(a \o b \o d, c, 0, to)
<1> DEFINE x == a \o b \o d
<1>1. IsCells(a, n) /\ IsCells(b, k) /\ IsCells(d, l)
  BY DEF IsPart
<1>2. AreThree(x, a, n, b, k, d, l)
  BY <1>1, JoinedThree
<1> HIDE DEF x
<1>3. ASSUME NEW j \in 1 .. n + k + l PROVE x[j] = c[0 + j]
  <2>1. CASE j <= n
    BY <1>2, <2>1 DEF IsPart, Holds, AreThree
  <2>2. CASE j > n /\ j <= n + k
    <3>1. j - n \in 1 .. k /\ n + (j - n) = j
      BY <2>2
    <3>2. x[n + (j - n)] = b[j - n] /\ c[n + (j - n)] = b[j - n]
      BY <1>2, <3>1 DEF IsPart, Holds, AreThree
    <3> QED
      BY <3>1, <3>2
  <2>3. CASE j > n + k
    <3>1. j - (n + k) \in 1 .. l /\ n + k + (j - (n + k)) = j
      BY <2>3
    <3>2. /\ x[n + k + (j - (n + k))] = d[j - (n + k)]
          /\ c[n + k + (j - (n + k))] = d[j - (n + k)]
      BY <1>2, <3>1 DEF IsPart, Holds, AreThree
    <3> QED
      BY <3>1, <3>2
  <2> QED
    BY <2>1, <2>2, <2>3
<1> QED
  BY <1>2, <1>3 DEF IsPart, Holds, AreThree, x

LEMMA WholeIs ==
  ASSUME NEW c, NEW n \in Nat, IsCells(c, n), NEW a, IsPart(a, c, 0, n)
  PROVE  a = c
  BY Same DEF IsPart, Holds

-----------------------------------------------------------------------------
(* The payloads.                                                           *)
(* The payloads one by one: what is encoded is decoded to the same, and    *)
(* what is decoded was encoded so.                                         *)
LEMMA HelloSurvives ==
  ASSUME NEW m \in Hellos, ValidHello(m)
  PROVE  Cells(m) \in Seq(Cell) /\ HelloOf(Cells(m)) = m
<1>1. Cells(m)
        = <<m.role, m.min, m.max, 0, m.capabilities, m.limit, m.timeout>>
  BY DEF Cells, Hellos
<1>2. /\ m.role \in Cell /\ m.min \in Cell /\ m.max \in Cell /\ 0 \in Cell
      /\ m.capabilities \in Cell /\ m.limit \in Cell /\ m.timeout \in Cell
  BY Bytes DEF ValidHello, ValidLimits, Role, Cell, MaxRaw, HeaderSize,
              CrcSize
<1>3. Cells(m) \in Seq(Cell) /\ Len(Cells(m)) = 7
  BY <1>1, <1>2
<1> QED
  BY <1>1, <1>3 DEF HelloOf, Hellos

LEMMA HelloAgain ==
  ASSUME NEW c \in Seq(Cell), HelloOf(c) # Refused
  PROVE  Cells(HelloOf(c)) = c
<1>1. Len(c) = 7 /\ c[4] = 0
  BY DEF HelloOf
<1>2. Cells(HelloOf(c)) = <<c[1], c[2], c[3], 0, c[5], c[6], c[7]>>
  BY <1>1 DEF HelloOf, Cells
<1> QED
  BY <1>1, <1>2

LEMMA HelloAckSurvives ==
  ASSUME NEW m \in HelloAcks, ValidHelloAck(m)
  PROVE  Cells(m) \in Seq(Cell) /\ HelloAckOf(Cells(m)) = m
<1>1. Cells(m) = <<m.version, m.status, m.role, 0, m.capabilities, m.limit,
                 m.timeout>>
  BY DEF Cells, HelloAcks
<1>2. /\ m.version \in Cell /\ m.status \in Cell /\ m.role \in Cell
      /\ 0 \in Cell
      /\ m.capabilities \in Cell /\ m.limit \in Cell /\ m.timeout \in Cell
  BY Bytes DEF ValidHelloAck, ValidLimits, Version, HelloStatus, Role,
              Cell, MaxRaw, HeaderSize, CrcSize
<1>3. Cells(m) \in Seq(Cell) /\ Len(Cells(m)) = 7
  BY <1>1, <1>2
<1> QED
  BY <1>1, <1>3 DEF HelloAckOf, HelloAcks

LEMMA HelloAckAgain ==
  ASSUME NEW c \in Seq(Cell), HelloAckOf(c) # Refused
  PROVE  Cells(HelloAckOf(c)) = c
<1>1. Len(c) = 7 /\ c[4] = 0
  BY DEF HelloAckOf
<1>2. Cells(HelloAckOf(c)) = <<c[1], c[2], c[3], 0, c[5], c[6], c[7]>>
  BY <1>1 DEF HelloAckOf, Cells
<1> QED
  BY <1>1, <1>2

LEMMA SafeStopSurvives ==
  ASSUME NEW m \in SafeStops, ValidSafeStop(m)
  PROVE  Cells(m) \in Seq(Cell) /\ SafeStopOf(Cells(m)) = m
<1>1. Cells(m) = <<m.reason, IF m.latch THEN 1 ELSE 0, m.detail>>
  BY DEF Cells, SafeStops
<1>2. /\ m.reason \in Cell /\ m.latch \in BOOLEAN /\ m.detail \in Cell
      /\ 0 \in Cell /\ 1 \in Cell
  BY Bytes DEF ValidSafeStop, SafeStopReason, Cell
<1>3. Cells(m) \in Seq(Cell) /\ Len(Cells(m)) = 3
  BY <1>1, <1>2
<1> QED
  BY <1>1, <1>3 DEF SafeStopOf, SafeStops

LEMMA SafeStopAgain ==
  ASSUME NEW c \in Seq(Cell), SafeStopOf(c) # Refused
  PROVE  Cells(SafeStopOf(c)) = c
<1>1. Len(c) = 3 /\ c[2] \in {0, 1}
  <2>1. Len(c) = 3 /\ ~(c[2] > 1) /\ c[2] \in Cell
    BY DEF SafeStopOf
  <2> QED
    BY <2>1, Bytes DEF Cell
<1> DEFINE m == SafeStopOf(c)
<1>2. /\ m.type = "SafeStop" /\ m.reason = c[1]
      /\ m.latch = (c[2] = 1) /\ m.detail = c[3]
  BY DEF SafeStopOf, Refused
<1> HIDE DEF m
<1>3. Cells(m) = <<c[1], IF c[2] = 1 THEN 1 ELSE 0, c[3]>>
  BY <1>2 DEF Cells
<1>4. c[2] = IF c[2] = 1 THEN 1 ELSE 0
  BY <1>1
<1>5. c = <<c[1], c[2], c[3]>>
  BY <1>1
<1> QED
  BY <1>3, <1>4, <1>5, Zenon DEF m

LEMMA SensorFrameSurvives ==
  ASSUME NEW m \in SensorFrames, ValidSensorFrame(m)
  PROVE  Cells(m) \in Seq(Cell) /\ SensorFrameOf(Cells(m)) = m
<1>1. /\ IsCells(m.imu, 4) /\ IsCells(m.wheel, 3)
      /\ IsCells(m.gnss, 4) /\ IsCells(m.sighting, 6)
  BY CellsOfTuple DEF SensorFrames, ValidSensorFrame, ValidSample
<1>2. /\ m.present \in Cell /\ m.faults \in Cell /\ m.landmark \in Cell
      /\ 0 \in Cell
  BY Bytes DEF ValidSensorFrame, SensorMask, Cell
<1>3. Cells(m) = SensorCells(m)
  BY DEF Cells, SensorFrames
<1> DEFINE masks == <<m.present, m.faults>>
           mark == <<m.landmark, 0>>
           stamps == SubSeq(m.sighting, 1, 2)
           values == SubSeq(m.sighting, 3, Len(m.sighting))
           c1 == masks \o m.imu
           c2 == c1 \o m.wheel
           c3 == c2 \o m.gnss
           c4 == c3 \o stamps
           c5 == c4 \o mark
           c  == c5 \o values
<1>4. SensorCells(m) = c
  BY DEF SensorCells
<1>5. /\ IsCells(masks, 2) /\ masks[1] = m.present /\ masks[2] = m.faults
      /\ IsCells(mark, 2) /\ mark[1] = m.landmark /\ mark[2] = 0
  BY <1>2 DEF IsCells
<1>6. IsPart(SubSeq(m.sighting, 0 + 1, 2), m.sighting, 0, 2 - 0)
      /\ IsPart(SubSeq(m.sighting, 2 + 1, 6), m.sighting, 2, 6 - 2)
    BY <1>1, Part
<1>7. IsPart(stamps, m.sighting, 0, 2) /\ IsPart(values, m.sighting, 2, 4)
    BY <1>1, <1>6 DEF IsCells
<1> HIDE DEF masks, mark, stamps, values
<1>8. IsJoin(c1, masks, 2, m.imu, 4)
  BY <1>1, <1>5, Joined
<1>9. IsCells(c1, 6)
  BY <1>8 DEF IsJoin
<1> HIDE DEF c1
<1>10. IsJoin(c2, c1, 6, m.wheel, 3)
  BY <1>1, <1>9, Joined
<1>11. IsCells(c2, 9)
  BY <1>10 DEF IsJoin
<1> HIDE DEF c2
<1>12. IsJoin(c3, c2, 9, m.gnss, 4)
  BY <1>1, <1>11, Joined
<1>13. IsCells(c3, 13) /\ IsCells(stamps, 2) /\ IsCells(values, 4)
  BY <1>7, <1>12 DEF IsJoin, IsPart
<1> HIDE DEF c3
<1>14. IsJoin(c4, c3, 13, stamps, 2)
  BY <1>13, Joined
<1>15. IsCells(c4, 15)
  BY <1>14 DEF IsJoin
<1> HIDE DEF c4
<1>16. IsJoin(c5, c4, 15, mark, 2)
  BY <1>5, <1>15, Joined
<1>17. IsCells(c5, 17)
  BY <1>16 DEF IsJoin
<1> HIDE DEF c5
<1>18. IsJoin(c, c5, 17, values, 4)
  BY <1>13, <1>17, Joined
<1> HIDE DEF c
<1>19. /\ IsCells(c, 21)
       /\ c[1] = m.present /\ c[2] = m.faults
       /\ c[16] = m.landmark /\ c[17] = 0
       /\ Holds(c, 2, m.imu, 4) /\ Holds(c, 6, m.wheel, 3)
       /\ Holds(c, 9, m.gnss, 4)
  BY <1>5, <1>8, <1>10, <1>12, <1>14, <1>16, <1>18 DEF Holds, IsJoin
<1>20. /\ IsPart(m.imu, c, 2, 4) /\ IsPart(m.wheel, c, 6, 3)
       /\ IsPart(m.gnss, c, 9, 4)
  BY <1>1, <1>19 DEF IsPart
<1>21. Cut(c, 2, 4) = m.imu
  BY <1>19, <1>20, PartIs
<1>22. Cut(c, 6, 3) = m.wheel
  BY <1>19, <1>20, PartIs
<1>23. Cut(c, 9, 4) = m.gnss
  BY <1>19, <1>20, PartIs
<1>24. Cut(c, 13, 2) = stamps
  <2>1. IsPart(stamps, c, 13, 2)
    BY <1>13, <1>14, <1>16, <1>18 DEF Holds, IsJoin, IsPart
  <2> QED
    BY <1>19, <2>1, PartIs
<1>25. Cut(c, 17, 4) = values
  <2>1. IsPart(values, c, 17, 4)
    BY <1>13, <1>18 DEF IsJoin, IsPart
  <2> QED
    BY <1>19, <2>1, PartIs
<1>26. stamps \o values = m.sighting
  <2>1. IsCells(m.sighting, 2 + 4)
    BY <1>1
  <2> QED
    BY <1>7, <2>1, Rejoined
<1>27. SensorFrameOf(c) = m
  <2> DEFINE R(p, f, i, w, g, l, v) ==
        [type |-> "SensorFrame", present |-> p, faults |-> f, imu |-> i,
         wheel |-> w, gnss |-> g, landmark |-> l, sighting |-> v]
  <2>1. m = R(m.present, m.faults, m.imu, m.wheel, m.gnss, m.landmark,
              m.sighting)
    BY DEF SensorFrames
  <2>2. ~(Len(c) # 21 \/ c[17] # 0)
    BY <1>19 DEF IsCells
  <2>3. /\ SubSeq(c, 3, 6) = m.imu /\ SubSeq(c, 7, 9) = m.wheel
        /\ SubSeq(c, 10, 13) = m.gnss
        /\ SubSeq(c, 14, 15) \o SubSeq(c, 18, 21) = m.sighting
    <3>1. SubSeq(c, 3, 6) = m.imu
      BY <1>21 DEF Cut
    <3>2. SubSeq(c, 7, 9) = m.wheel
      BY <1>22 DEF Cut
    <3>3. SubSeq(c, 10, 13) = m.gnss
      BY <1>23 DEF Cut
    <3>4. SubSeq(c, 14, 15) = stamps
      BY <1>24 DEF Cut
    <3>5. SubSeq(c, 18, 21) = values
      BY <1>25 DEF Cut
    <3> QED
      BY <3>1, <3>2, <3>3, <3>4, <3>5, <1>26, Zenon
  <2>4. SensorFrameOf(c) =
            R(c[1], c[2], SubSeq(c, 3, 6), SubSeq(c, 7, 9),
              SubSeq(c, 10, 13), c[16],
              SubSeq(c, 14, 15) \o SubSeq(c, 18, 21))
    BY <2>2 DEF SensorFrameOf
  <2>5. /\ c[1] = m.present /\ c[2] = m.faults /\ c[16] = m.landmark
    BY <1>19
  <2> HIDE DEF R
  <2>6. SensorFrameOf(c)
          = R(m.present, m.faults, m.imu, m.wheel, m.gnss, m.landmark,
              m.sighting)
    BY <2>3, <2>4, <2>5, Zenon
  <2> QED
    BY <2>1, <2>6, Zenon
<1> QED
  BY <1>3, <1>4, <1>19, <1>27 DEF IsCells
LEMMA CommandSurvives ==
  ASSUME NEW m \in Commands, ValidCommand(m)
  PROVE  Cells(m) \in Seq(Cell) /\ CommandOf(Cells(m)) = m
<1> DEFINE tail == <<m.mode, m.flags, 0>>
           c == m.values \o tail
<1>1. Cells(m) = c
  BY DEF Cells, Commands
<1>2. IsCells(m.values, 3)
  <2>1. AllCells(m.values) /\ m.values \in Tuple(3)
    BY DEF ValidCommand, AllFinite, AllCells, Finite, Commands
  <2> QED
    BY <2>1, CellsOfTuple
<1>3. /\ IsCells(tail, 3) /\ tail[1] = m.mode /\ tail[2] = m.flags
      /\ tail[3] = 0
  BY Bytes DEF ValidCommand, ControlMode, Cell, IsCells
<1> HIDE DEF tail
<1>4. IsJoin(c, m.values, 3, tail, 3)
  BY <1>2, <1>3, Joined
<1> HIDE DEF c
<1>5. IsCells(c, 6) /\ c[4] = m.mode /\ c[5] = m.flags /\ c[6] = 0
  BY <1>3, <1>4 DEF IsJoin, Holds
<1>6. IsPart(m.values, c, 0, 3)
  BY <1>2, <1>4 DEF IsJoin, IsPart, Holds
<1>7. Cut(c, 0, 3) = m.values
  BY <1>5, <1>6, PartIs
<1>8. SubSeq(c, 1, 3) = m.values
  BY <1>7 DEF Cut
<1>9. CommandOf(c) =
        [type |-> "Command", values |-> m.values, mode |-> m.mode,
         flags |-> m.flags]
  BY <1>5, <1>8 DEF CommandOf, IsCells
<1> QED
  BY <1>1, <1>5, <1>9 DEF Commands, IsCells

LEMMA CommandAgain ==
  ASSUME NEW c \in Seq(Cell), CommandOf(c) # Refused
  PROVE  Cells(CommandOf(c)) = c
<1>1. IsCells(c, 6) /\ c[6] = 0
  BY DEF CommandOf, IsCells
<1> DEFINE tail == <<c[4], c[5], 0>>
<1>2. Cells(CommandOf(c)) = SubSeq(c, 1, 3) \o tail
  BY <1>1 DEF CommandOf, Cells, IsCells
<1>3. IsPart(tail, c, 3, 3)
  <2>1. c[4] \in Cell /\ c[5] \in Cell /\ c[6] \in Cell
    BY <1>1, CellAt
  <2>2. /\ IsCells(tail, 3)
        /\ tail[1] = c[3 + 1] /\ tail[2] = c[3 + 2] /\ tail[3] = c[3 + 3]
    BY <1>1, <2>1 DEF IsCells
  <2> HIDE DEF tail
  <2> QED
    BY <2>2 DEF IsPart, Holds
<1>4. IsPart(Cut(c, 0, 3), c, 0, 3)
  BY <1>1, Cutting
<1>5. SubSeq(c, 1, 3) = Cut(c, 0, 3)
  BY DEF Cut
<1> HIDE DEF tail
<1>6. Cut(c, 0, 3) \o tail = c
  <2>1. IsCells(c, 3 + 3)
    BY <1>1
  <2> QED
    BY <1>3, <1>4, <2>1, Rejoined
<1> QED
  BY <1>2, <1>5, <1>6

LEMMA SensorFrameAgain ==
  ASSUME NEW c \in Seq(Cell), SensorFrameOf(c) # Refused
  PROVE  Cells(SensorFrameOf(c)) = c
<1> DEFINE masks == <<c[1], c[2]>>
           imu == SubSeq(c, 3, 6)
           wheel == SubSeq(c, 7, 9)
           gnss == SubSeq(c, 10, 13)
           stamps == SubSeq(c, 14, 15)
           mark == <<c[16], 0>>
           values == SubSeq(c, 18, 21)
           sighting == stamps \o values
           m == SensorFrameOf(c)
<1>1. IsCells(c, 21) /\ c[17] = 0
  BY DEF SensorFrameOf, IsCells
<1>2. /\ m.type = "SensorFrame" /\ m.present = c[1] /\ m.faults = c[2]
      /\ m.imu = imu /\ m.wheel = wheel /\ m.gnss = gnss
      /\ m.landmark = c[16] /\ m.sighting = sighting
  BY DEF SensorFrameOf, Refused
<1>3. /\ IsPart(imu, c, 2, 4) /\ IsPart(wheel, c, 6, 3)
      /\ IsPart(gnss, c, 9, 4) /\ IsPart(stamps, c, 13, 2)
      /\ IsPart(values, c, 17, 4)
  <2>1. /\ Cut(c, 2, 4) = imu /\ Cut(c, 6, 3) = wheel
        /\ Cut(c, 9, 4) = gnss /\ Cut(c, 13, 2) = stamps
        /\ Cut(c, 17, 4) = values
    BY DEF Cut
  <2> HIDE DEF imu, wheel, gnss, stamps, values
  <2>2. /\ IsPart(Cut(c, 2, 4), c, 2, 4) /\ IsPart(Cut(c, 6, 3), c, 6, 3)
        /\ IsPart(Cut(c, 9, 4), c, 9, 4) /\ IsPart(Cut(c, 13, 2), c, 13, 2)
        /\ IsPart(Cut(c, 17, 4), c, 17, 4)
    BY <1>1, Cutting
  <2> QED
    BY <2>1, <2>2
<1>4. IsPart(masks, c, 0, 2) /\ IsPart(mark, c, 15, 2)
  <2>1. c[1] \in Cell /\ c[2] \in Cell /\ c[16] \in Cell /\ c[17] \in Cell
    BY <1>1, CellAt
  <2>2. /\ IsCells(masks, 2) /\ masks[1] = c[0 + 1] /\ masks[2] = c[0 + 2]
        /\ IsCells(mark, 2) /\ mark[1] = c[15 + 1] /\ mark[2] = c[15 + 2]
    BY <1>1, <2>1 DEF IsCells
  <2> HIDE DEF masks, mark
  <2> QED
    BY <2>2 DEF IsPart, Holds
<1> HIDE DEF imu, wheel, gnss, stamps, values, masks, mark, m
<1>5. IsCells(stamps, 2) /\ IsCells(values, 4)
  BY <1>3 DEF IsPart
<1>6. IsJoin(sighting, stamps, 2, values, 4)
  BY <1>5, Joined
<1> HIDE DEF sighting
<1>7. SubSeq(m.sighting, 1, 2) = stamps
  <2>1. IsCells(sighting, 6) /\ IsPart(stamps, sighting, 0, 2)
    BY <1>5, <1>6 DEF IsJoin, IsPart, Holds
  <2>2. Cut(sighting, 0, 2) = stamps
    BY <2>1, PartIs
  <2> QED
    BY <1>2, <2>2 DEF Cut
<1>8. SubSeq(m.sighting, 3, Len(m.sighting)) = values
  <2>1. IsCells(sighting, 6) /\ IsPart(values, sighting, 2, 4)
    BY <1>5, <1>6 DEF IsJoin, IsPart
  <2>2. Cut(sighting, 2, 4) = values
    BY <2>1, PartIs
  <2>3. Len(sighting) = 6
    BY <2>1 DEF IsCells
  <2> QED
    BY <1>2, <2>2, <2>3 DEF Cut
<1>9. Cells(m)
        = masks \o imu \o wheel \o gnss \o stamps \o mark \o values
  BY <1>2, <1>7, <1>8 DEF Cells, SensorCells, masks, mark
<1>10. IsPart(masks \o imu \o wheel, c, 0, 9)
  BY <1>1, <1>3, <1>4, PartsInARow
<1>11. IsPart(masks \o imu \o wheel \o gnss \o stamps, c, 0, 15)
  <2> DEFINE a == masks \o imu \o wheel
  <2>1. IsPart(a, c, 0, 9)
    BY <1>10
  <2> HIDE DEF a
  <2>2. IsPart(a \o gnss \o stamps, c, 0, 15)
    BY <1>1, <1>3, <2>1, PartsInARow
  <2> QED
    BY <2>2 DEF a
<1>12. masks \o imu \o wheel \o gnss \o stamps \o mark \o values = c
  <2> DEFINE a == masks \o imu \o wheel \o gnss \o stamps
  <2>1. IsPart(a, c, 0, 15)
    BY <1>11
  <2> HIDE DEF a
  <2>2. IsPart(a \o mark \o values, c, 0, 21)
    BY <1>1, <1>3, <1>4, <2>1, PartsInARow
  <2>3. a \o mark \o values = c
    BY <1>1, <2>2, WholeIs
  <2> QED
    BY <2>3 DEF a
<1> QED
  BY <1>9, <1>12 DEF m

LEMMA EstimateSurvives ==
  ASSUME NEW m \in Estimates, ValidEstimate(m)
  PROVE  Cells(m) \in Seq(Cell) /\ EstimateOf(Cells(m)) = m
<1> DEFINE tail == <<m.mode, m.flags, 0>>
           c == m.state \o m.variances \o tail
<1>1. Cells(m) = c
  BY DEF Cells, Estimates
<1>2. IsCells(m.state, 6) /\ IsCells(m.variances, 6)
  <2>1. /\ AllCells(m.state) /\ m.state \in Tuple(6)
        /\ AllCells(m.variances) /\ m.variances \in Tuple(6)
    BY DEF ValidEstimate, AllFinite, AllCells, Finite, NonNegative, Estimates
  <2> QED
    BY <2>1, CellsOfTuple
<1>3. /\ IsCells(tail, 3) /\ tail[1] = m.mode /\ tail[2] = m.flags
      /\ tail[3] = 0
  BY Bytes DEF ValidEstimate, NavigationMode, Cell, IsCells
<1> HIDE DEF tail
<1>4. AreThree(c, m.state, 6, m.variances, 6, tail, 3)
  BY <1>2, <1>3, JoinedThree
<1> HIDE DEF c
<1>5. IsCells(c, 15) /\ c[13] = m.mode /\ c[14] = m.flags /\ c[15] = 0
  BY <1>3, <1>4 DEF AreThree, IsPart, Holds
<1>6. IsPart(m.state, c, 0, 6) /\ IsPart(m.variances, c, 6, 6)
  BY <1>4 DEF AreThree
<1>7. Cut(c, 0, 6) = m.state /\ Cut(c, 6, 6) = m.variances
  BY <1>5, <1>6, PartIs
<1>8. SubSeq(c, 1, 6) = m.state /\ SubSeq(c, 7, 12) = m.variances
  BY <1>7 DEF Cut
<1>9. EstimateOf(c) =
        [type |-> "Estimate", state |-> m.state, variances |-> m.variances,
         mode |-> m.mode, flags |-> m.flags]
  BY <1>5, <1>8 DEF EstimateOf, IsCells
<1> QED
  BY <1>1, <1>5, <1>9 DEF Estimates, IsCells

LEMMA EstimateAgain ==
  ASSUME NEW c \in Seq(Cell), EstimateOf(c) # Refused
  PROVE  Cells(EstimateOf(c)) = c
<1>1. IsCells(c, 15) /\ c[15] = 0
  BY DEF EstimateOf, IsCells
<1> DEFINE tail == <<c[13], c[14], 0>>
<1>2. Cells(EstimateOf(c)) = SubSeq(c, 1, 6) \o SubSeq(c, 7, 12) \o tail
  BY <1>1 DEF EstimateOf, Cells, IsCells
<1>3. IsPart(tail, c, 12, 3)
  <2>1. c[13] \in Cell /\ c[14] \in Cell /\ c[15] \in Cell
    BY <1>1, CellAt
  <2>2. /\ IsCells(tail, 3) /\ tail[1] = c[12 + 1]
        /\ tail[2] = c[12 + 2] /\ tail[3] = c[12 + 3]
    BY <1>1, <2>1 DEF IsCells
  <2> HIDE DEF tail
  <2> QED
    BY <2>2 DEF IsPart, Holds
<1>4. IsPart(Cut(c, 0, 6), c, 0, 6) /\ IsPart(Cut(c, 6, 6), c, 6, 6)
  BY <1>1, Cutting
<1>5. SubSeq(c, 1, 6) = Cut(c, 0, 6) /\ SubSeq(c, 7, 12) = Cut(c, 6, 6)
  BY DEF Cut
<1> HIDE DEF tail
<1>6. IsPart(Cut(c, 0, 6) \o Cut(c, 6, 6) \o tail, c, 0, 15)
  BY <1>3, <1>4, PartsInARow
<1>7. Cut(c, 0, 6) \o Cut(c, 6, 6) \o tail = c
  BY <1>1, <1>6, WholeIs
<1> QED
  BY <1>2, <1>5, <1>7

LEMMA HealthSurvives ==
  ASSUME NEW m \in Healths, ValidHealth(m)
  PROVE  Cells(m) \in Seq(Cell) /\ HealthOf(Cells(m)) = m
<1> DEFINE head == <<m.state, m.mode, m.flags>>
           sums == m.summaries
           flat == FlattenSeq(sums)
           c == head \o m.counters \o flat
<1>1. Cells(m) = c
  BY DEF Cells, Healths
<1>2. IsCells(m.counters, 12)
  BY CellsOfTuple DEF ValidHealth, Healths
<1>3. /\ IsCells(head, 3)
      /\ head[1] = m.state /\ head[2] = m.mode /\ head[3] = m.flags
  BY Bytes DEF ValidHealth, RuntimeState, NavigationMode, Cell, IsCells
<1>4. /\ \A i \in 1 .. 4 : IsCells(sums[i], 4)
      /\ sums = [i \in 1 .. 4 |-> sums[i]]
  <2>1. sums \in [1 .. 4 -> Tuple(4)]
    BY DEF Healths
  <2>2. ASSUME NEW i \in 1 .. 4 PROVE IsCells(sums[i], 4)
    <3>1. ValidSummary(sums[i]) /\ sums[i] \in Tuple(4)
      BY <2>1 DEF ValidHealth
    <3>2. AllCells(sums[i])
      BY <3>1 DEF ValidSummary, NonNegative, AllCells, Tuple
    <3> QED
      BY <3>1, <3>2, CellsOfTuple
  <2> QED
    BY <2>1, <2>2
<1> HIDE DEF head, sums
<1>5. IsFlat(flat, sums, 4)
  <2>1. sums \in Seq(Seq(Cell)) /\ Len(sums) = 4
    <3>1. \A i \in 1 .. 4 : sums[i] \in Seq(Cell)
      BY <1>4 DEF IsCells
    <3> QED
      BY <1>4, <3>1
  <2> QED
    BY <1>4, <2>1, Flattened
<1> HIDE DEF flat
<1>6. IsCells(flat, 16)
  BY <1>5 DEF IsFlat
<1>7. AreThree(c, head, 3, m.counters, 12, flat, 16)
  BY <1>2, <1>3, <1>6, JoinedThree
<1> HIDE DEF c
<1>8. /\ IsCells(c, 31)
      /\ c[1] = m.state /\ c[2] = m.mode /\ c[3] = m.flags
  BY <1>3, <1>7 DEF AreThree
<1>9. IsPart(m.counters, c, 3, 12) /\ IsPart(flat, c, 15, 16)
  BY <1>7 DEF AreThree
<1>10. SubSeq(c, 4, 15) = m.counters
  <2>1. Cut(c, 3, 12) = m.counters
    BY <1>8, <1>9, PartIs
  <2> QED
    BY <2>1 DEF Cut
<1>11. Groups(c, 16, 4) = sums
  <2>1. ASSUME NEW i \in 1 .. 4 PROVE IsPart(sums[i], c, 15 + 4 * (i - 1), 4)
    <3> DEFINE at == 4 * (i - 1)
    <3>1. IsPart(sums[i], flat, at, 4) /\ at \in Nat /\ at + 4 <= 16
      BY <1>5 DEF IsFlat
    <3> HIDE DEF at
    <3>2. IsPart(sums[i], c, 15 + at, 4)
      BY <1>9, <3>1, PartOfPart
    <3> QED
      BY <3>2 DEF at
  <2>2. AreGroups(sums, c, 15, 4) /\ IsTuple(sums, 4)
    BY <1>4, <2>1 DEF AreGroups, IsTuple
  <2>3. Groups(c, 15 + 1, 4) = sums
    BY <1>8, <2>2, GroupsAre
  <2> QED
    BY <2>3
<1>12. HealthOf(c) =
         [type |-> "Health", state |-> m.state, mode |-> m.mode,
          flags |-> m.flags, counters |-> m.counters, summaries |-> sums]
  BY <1>8, <1>10, <1>11 DEF HealthOf, IsCells
<1> QED
  BY <1>1, <1>8, <1>12 DEF Healths, IsCells, sums

LEMMA HealthAgain ==
  ASSUME NEW c \in Seq(Cell), HealthOf(c) # Refused
  PROVE  Cells(HealthOf(c)) = c
<1>1. IsCells(c, 31)
  BY DEF HealthOf, IsCells
<1> DEFINE head == <<c[1], c[2], c[3]>>
           flat == FlattenSeq(Groups(c, 16, 4))
<1>2. Cells(HealthOf(c)) = head \o SubSeq(c, 4, 15) \o flat
  BY <1>1 DEF HealthOf, Cells, IsCells
<1>3. IsPart(head, c, 0, 3)
  <2>1. c[1] \in Cell /\ c[2] \in Cell /\ c[3] \in Cell
    BY <1>1, CellAt
  <2>2. /\ IsCells(head, 3) /\ head[1] = c[0 + 1]
        /\ head[2] = c[0 + 2] /\ head[3] = c[0 + 3]
    BY <2>1 DEF IsCells
  <2> HIDE DEF head
  <2> QED
    BY <2>2 DEF IsPart, Holds
<1>4. SubSeq(c, 4, 15) = Cut(c, 3, 12)
  BY DEF Cut
<1>5. IsPart(Cut(c, 3, 12), c, 3, 12)
  BY <1>1, Cutting
<1>6. IsPart(flat, c, 15, 16)
  <2>1. IsPart(FlattenSeq(Groups(c, 15 + 1, 4)), c, 15, 4 * 4)
    BY <1>1, Regrouped
  <2> QED
    BY <2>1
<1> HIDE DEF head, flat
<1>7. IsPart(head \o Cut(c, 3, 12) \o flat, c, 0, 31)
  BY <1>3, <1>5, <1>6, PartsInARow
<1>8. head \o Cut(c, 3, 12) \o flat = c
  BY <1>1, <1>7, WholeIs
<1> QED
  BY <1>2, <1>4, <1>8

LEMMA HeartbeatSurvives ==
  ASSUME NEW m \in Heartbeats, ValidHeartbeat(m)
  PROVE  Cells(m) \in Seq(Cell) /\ HeartbeatOf(Cells(m)) = m
<1> DEFINE tail == <<m.state, 0>>
           c == m.clocks \o tail
<1>1. Cells(m) = c
  BY DEF Cells, Heartbeats
<1>2. IsCells(m.clocks, 2)
  BY CellsOfTuple DEF ValidHeartbeat, Heartbeats
<1>3. IsCells(tail, 2) /\ tail[1] = m.state
  BY Bytes DEF ValidHeartbeat, RuntimeState, Cell, IsCells
<1> HIDE DEF tail
<1>4. IsJoin(c, m.clocks, 2, tail, 2)
  BY <1>2, <1>3, Joined
<1> HIDE DEF c
<1>5. IsCells(c, 4) /\ c[3] = m.state
  BY <1>3, <1>4 DEF IsJoin, Holds
<1>6. IsPart(m.clocks, c, 0, 2)
  BY <1>2, <1>4 DEF IsJoin, IsPart, Holds
<1>7. Cut(c, 0, 2) = m.clocks
  BY <1>5, <1>6, PartIs
<1>8. SubSeq(c, 1, 2) = m.clocks
  BY <1>7 DEF Cut
<1>9. HeartbeatOf(c) =
        [type |-> "Heartbeat", clocks |-> m.clocks, state |-> m.state]
  BY <1>5, <1>8 DEF HeartbeatOf, IsCells
<1> QED
  BY <1>1, <1>5, <1>9 DEF Heartbeats, IsCells

LEMMA ErrorSurvives ==
  ASSUME NEW m \in Errors, ValidError(m)
  PROVE  Cells(m) \in Seq(Cell) /\ ErrorOf(Cells(m)) = m
<1> DEFINE head == <<m.code>>
           c == head \o m.context
<1>1. Cells(m) = c
  BY DEF Cells, Errors
<1>2. IsCells(m.context, 3)
  BY CellsOfTuple DEF ValidError, Errors
<1>3. IsCells(head, 1) /\ head[1] = m.code
  BY Bytes DEF ValidError, ErrorCode, Cell, IsCells
<1> HIDE DEF head
<1>4. IsJoin(c, head, 1, m.context, 3)
  BY <1>2, <1>3, Joined
<1> HIDE DEF c
<1>5. IsCells(c, 4) /\ c[1] = m.code
  BY <1>3, <1>4 DEF IsJoin
<1>6. IsPart(m.context, c, 1, 3)
  BY <1>2, <1>4 DEF IsJoin, IsPart
<1>7. Cut(c, 1, 3) = m.context
  BY <1>5, <1>6, PartIs
<1>8. SubSeq(c, 2, 4) = m.context
  BY <1>7 DEF Cut
<1>9. ErrorOf(c) = [type |-> "Error", code |-> m.code, context |-> m.context]
  BY <1>5, <1>8 DEF ErrorOf, IsCells
<1> QED
  BY <1>1, <1>5, <1>9 DEF Errors, IsCells

LEMMA ErrorAgain ==
  ASSUME NEW c \in Seq(Cell), ErrorOf(c) # Refused
  PROVE  Cells(ErrorOf(c)) = c
<1>1. IsCells(c, 4)
  BY DEF ErrorOf, IsCells
<1> DEFINE head == <<c[1]>>
<1>2. Cells(ErrorOf(c)) = head \o SubSeq(c, 2, 4)
  BY <1>1 DEF ErrorOf, Cells, IsCells
<1>3. IsPart(head, c, 0, 1)
  <2>1. c[1] \in Cell
    BY <1>1, CellAt
  <2>2. IsCells(head, 1) /\ head[1] = c[0 + 1]
    BY <2>1 DEF IsCells
  <2> HIDE DEF head
  <2> QED
    BY <2>2 DEF IsPart, Holds
<1>4. SubSeq(c, 2, 4) = Cut(c, 1, 3)
  BY DEF Cut
<1>5. IsPart(Cut(c, 1, 3), c, 1, 3)
  BY <1>1, Cutting
<1> HIDE DEF head
<1>6. head \o Cut(c, 1, 3) = c
  <2>1. IsCells(c, 1 + 3)
    BY <1>1
  <2> QED
    BY <1>3, <1>5, <2>1, Rejoined
<1> QED
  BY <1>2, <1>4, <1>6

LEMMA RouteChunkSurvives ==
  ASSUME NEW m \in RouteChunks, ValidRouteChunk(m)
  PROVE  Cells(m) \in Seq(Cell) /\ RouteChunkOf(Cells(m)) = m
<1> DEFINE points == m.points
           count == Len(points)
           head == <<m.route, m.start, m.total, count, m.flags>>
           flat == FlattenSeq(points)
           c == head \o flat
<1>1. Cells(m) = c
  BY DEF Cells, RouteChunks
<1>2. count \in 0 .. 5 /\ points \in Seq(Tuple(4))
  <2>1. points \in Seq(Tuple(4))
    BY DEF RouteChunks
  <2>2. Len(points) <= 5
    BY DEF ValidRouteChunk, MaxRoutePoints
  <2>3. Len(points) \in Nat
    BY <2>1, LenProperties
  <2> HIDE DEF points
  <2>4. count \in Nat /\ count <= 5
    BY <2>2, <2>3
  <2> HIDE DEF count
  <2>5. count \in 0 .. 5
    BY <2>4
  <2> QED
    BY <2>1, <2>5
<1>3. /\ \A i \in 1 .. count : IsCells(points[i], 4)
      /\ points = [i \in 1 .. count |-> points[i]]
  <2>1. ASSUME NEW i \in 1 .. count PROVE IsCells(points[i], 4)
    <3>1. points[i] \in Tuple(4) /\ AllFinite(points[i])
      BY <1>2 DEF ValidRouteChunk
    <3>2. AllCells(points[i])
      BY <3>1 DEF AllFinite, AllCells, Finite
    <3> QED
      BY <3>1, <3>2, CellsOfTuple
  <2> QED
    BY <1>2, <2>1
<1>4. /\ IsCells(head, 5)
      /\ head[1] = m.route /\ head[2] = m.start /\ head[3] = m.total
      /\ head[4] = count /\ head[5] = m.flags
  BY <1>2, Bytes DEF ValidRouteChunk, RouteFlags, Cell, IsCells
<1>5. m = [type |-> "RouteChunk", route |-> m.route, start |-> m.start,
           total |-> m.total, flags |-> m.flags, points |-> points]
  BY DEF RouteChunks
<1> HIDE DEF head, points
<1>6. IsFlat(flat, points, count)
  <2>1. points \in Seq(Seq(Cell))
    <3>1. \A i \in 1 .. count : points[i] \in Seq(Cell)
      BY <1>3 DEF IsCells
    <3> QED
      BY <1>2, <1>3, <3>1
  <2> QED
    BY <1>2, <1>3, <2>1, Flattened
<1> HIDE DEF flat, count
<1> DEFINE size == 4 * count
<1>7. IsCells(flat, size) /\ size \in Nat /\ count \in Nat
  BY <1>2, <1>6 DEF IsFlat
<1> HIDE DEF size
<1>8. IsJoin(c, head, 5, flat, size)
  BY <1>4, <1>7, Joined
<1> HIDE DEF c
<1>9. /\ IsCells(c, 5 + size) /\ IsPart(flat, c, 5, size)
      /\ c[1] = m.route /\ c[2] = m.start /\ c[3] = m.total
      /\ c[4] = count /\ c[5] = m.flags
  BY <1>4, <1>7, <1>8 DEF IsJoin, IsPart
<1>10. Groups(c, 6, count) = points
  <2>1. ASSUME NEW i \in 1 .. count
        PROVE  IsPart(points[i], c, 5 + 4 * (i - 1), 4)
    <3> DEFINE at == 4 * (i - 1)
    <3>1. IsPart(points[i], flat, at, 4) /\ at \in Nat /\ at + 4 <= size
      BY <1>6, <1>7 DEF IsFlat, size
    <3> HIDE DEF at
    <3>2. IsPart(points[i], c, 5 + at, 4)
      BY <1>7, <1>9, <3>1, PartOfPart
    <3> QED
      BY <3>2 DEF at
  <2>2. Groups(c, 5 + 1, count) = points
    <3>1. 5 + size \in Nat /\ 5 + 4 * count <= 5 + size
      BY <1>7 DEF size
    <3>2. AreGroups(points, c, 5, count) /\ IsTuple(points, count)
      BY <1>3, <2>1 DEF AreGroups, IsTuple
    <3> QED
      BY <1>7, <1>9, <3>1, <3>2, GroupsAre
  <2> QED
    BY <2>2
<1>11. /\ ~(Len(c) < 5 \/ c[4] > MaxRoutePoints \/ Len(c) # 5 + 4 * c[4])
       /\ c \in Seq(Cell)
  BY <1>2, <1>7, <1>9 DEF IsCells, size, MaxRoutePoints
<1>12. RouteChunkOf(c) =
         [type |-> "RouteChunk", route |-> m.route, start |-> m.start,
          total |-> m.total, flags |-> m.flags, points |-> points]
  BY <1>9, <1>10, <1>11 DEF RouteChunkOf
<1> QED
  BY <1>1, <1>5, <1>11, <1>12

LEMMA RouteChunkAgain ==
  ASSUME NEW c \in Seq(Cell), RouteChunkOf(c) # Refused
  PROVE  Cells(RouteChunkOf(c)) = c
<1> DEFINE count == c[4]
           points == Groups(c, 6, count)
           head == <<c[1], c[2], c[3], count, c[5]>>
           flat == FlattenSeq(points)
<1>1. /\ Len(c) \in Nat /\ Len(c) >= 5 /\ Len(c) = 5 + 4 * count
      /\ count \in Nat
  <2>1. ~(Len(c) < 5) /\ Len(c) = 5 + 4 * c[4]
    BY DEF RouteChunkOf
  <2>2. c[4] \in Cell
    BY <2>1
  <2> QED
    BY <2>1, <2>2, Bytes DEF Cell
<1>2. RouteChunkOf(c) = [type |-> "RouteChunk", route |-> c[1],
                         start |-> c[2], total |-> c[3], flags |-> c[5],
                         points |-> points]
  BY DEF RouteChunkOf
<1>3. Len(points) = count
  BY <1>1 DEF Groups
<1>4. Cells(RouteChunkOf(c)) = head \o flat
  BY <1>2, <1>3 DEF Cells
<1> DEFINE size == 4 * count
<1>5. IsCells(c, 5 + size) /\ size \in Nat
  BY <1>1 DEF IsCells
<1>6. IsPart(head, c, 0, 5)
  <2>1. /\ c[1] \in Cell /\ c[2] \in Cell /\ c[3] \in Cell
        /\ c[4] \in Cell /\ c[5] \in Cell
    BY <1>5, CellAt
  <2>2. /\ IsCells(head, 5) /\ head[1] = c[0 + 1] /\ head[2] = c[0 + 2]
        /\ head[3] = c[0 + 3] /\ head[4] = c[0 + 4] /\ head[5] = c[0 + 5]
    BY <2>1 DEF IsCells
  <2> HIDE DEF head
  <2> QED
    BY <2>2 DEF IsPart, Holds
<1> HIDE DEF head, count
<1>7. IsPart(flat, c, 5, size)
  <2>1. 5 + size \in Nat /\ 5 + 4 * count <= 5 + size
    BY <1>5
  <2>2. IsPart(FlattenSeq(Groups(c, 5 + 1, count)), c, 5, 4 * count)
    BY <1>1, <1>5, <2>1, Regrouped
  <2> QED
    BY <2>2
<1> HIDE DEF flat, size
<1>8. head \o flat = c
  BY <1>5, <1>6, <1>7, Rejoined
<1> QED
  BY <1>4, <1>8

(* decode_typed_payload restores every field of what encode_typed_payload  *)
(* accepts.                                                                *)
THEOREM MessageRestored ==
  ASSUME NEW m \in Message, Valid(m)
  PROVE  Cells(m) \in Seq(Cell) /\ Decoded(m.type, Cells(m)) = m
<1>1. CASE m \in Hellos
  <2>1. m.type = "Hello"
    BY <1>1 DEF Hellos
  <2>2. ValidHello(m)
    BY <2>1 DEF Valid
  <2>3. Cells(m) \in Seq(Cell) /\ HelloOf(Cells(m)) = m
    BY <1>1, <2>2, HelloSurvives
  <2>4. Fields(m.type, Cells(m)) = m
    BY <2>1, <2>3 DEF Fields
  <2> QED
    BY <2>1, <2>3, <2>4 DEF Decoded
<1>2. CASE m \in HelloAcks
  <2>1. m.type = "HelloAck"
    BY <1>2 DEF HelloAcks
  <2>2. ValidHelloAck(m)
    BY <2>1 DEF Valid
  <2>3. Cells(m) \in Seq(Cell) /\ HelloAckOf(Cells(m)) = m
    BY <1>2, <2>2, HelloAckSurvives
  <2>4. Fields(m.type, Cells(m)) = m
    BY <2>1, <2>3 DEF Fields
  <2> QED
    BY <2>1, <2>3, <2>4 DEF Decoded
<1>3. CASE m \in SensorFrames
  <2>1. m.type = "SensorFrame"
    BY <1>3 DEF SensorFrames
  <2>2. ValidSensorFrame(m)
    BY <2>1 DEF Valid
  <2>3. Cells(m) \in Seq(Cell) /\ SensorFrameOf(Cells(m)) = m
    BY <1>3, <2>2, SensorFrameSurvives
  <2>4. Fields(m.type, Cells(m)) = m
    BY <2>1, <2>3 DEF Fields
  <2> QED
    BY <2>1, <2>3, <2>4 DEF Decoded
<1>4. CASE m \in RouteChunks
  <2>1. m.type = "RouteChunk"
    BY <1>4 DEF RouteChunks
  <2>2. ValidRouteChunk(m)
    BY <2>1 DEF Valid
  <2>3. Cells(m) \in Seq(Cell) /\ RouteChunkOf(Cells(m)) = m
    BY <1>4, <2>2, RouteChunkSurvives
  <2>4. Fields(m.type, Cells(m)) = m
    BY <2>1, <2>3 DEF Fields
  <2> QED
    BY <2>1, <2>3, <2>4 DEF Decoded
<1>5. CASE m \in Commands
  <2>1. m.type = "Command"
    BY <1>5 DEF Commands
  <2>2. ValidCommand(m)
    BY <2>1 DEF Valid
  <2>3. Cells(m) \in Seq(Cell) /\ CommandOf(Cells(m)) = m
    BY <1>5, <2>2, CommandSurvives
  <2>4. Fields(m.type, Cells(m)) = m
    BY <2>1, <2>3 DEF Fields
  <2> QED
    BY <2>1, <2>3, <2>4 DEF Decoded
<1>6. CASE m \in Estimates
  <2>1. m.type = "Estimate"
    BY <1>6 DEF Estimates
  <2>2. ValidEstimate(m)
    BY <2>1 DEF Valid
  <2>3. Cells(m) \in Seq(Cell) /\ EstimateOf(Cells(m)) = m
    BY <1>6, <2>2, EstimateSurvives
  <2>4. Fields(m.type, Cells(m)) = m
    BY <2>1, <2>3 DEF Fields
  <2> QED
    BY <2>1, <2>3, <2>4 DEF Decoded
<1>7. CASE m \in Healths
  <2>1. m.type = "Health"
    BY <1>7 DEF Healths
  <2>2. ValidHealth(m)
    BY <2>1 DEF Valid
  <2>3. Cells(m) \in Seq(Cell) /\ HealthOf(Cells(m)) = m
    BY <1>7, <2>2, HealthSurvives
  <2>4. Fields(m.type, Cells(m)) = m
    BY <2>1, <2>3 DEF Fields
  <2> QED
    BY <2>1, <2>3, <2>4 DEF Decoded
<1>8. CASE m \in Heartbeats
  <2>1. m.type = "Heartbeat"
    BY <1>8 DEF Heartbeats
  <2>2. ValidHeartbeat(m)
    BY <2>1 DEF Valid
  <2>3. Cells(m) \in Seq(Cell) /\ HeartbeatOf(Cells(m)) = m
    BY <1>8, <2>2, HeartbeatSurvives
  <2>4. Fields(m.type, Cells(m)) = m
    BY <2>1, <2>3 DEF Fields
  <2> QED
    BY <2>1, <2>3, <2>4 DEF Decoded
<1>9. CASE m \in Errors
  <2>1. m.type = "Error"
    BY <1>9 DEF Errors
  <2>2. ValidError(m)
    BY <2>1 DEF Valid
  <2>3. Cells(m) \in Seq(Cell) /\ ErrorOf(Cells(m)) = m
    BY <1>9, <2>2, ErrorSurvives
  <2>4. Fields(m.type, Cells(m)) = m
    BY <2>1, <2>3 DEF Fields
  <2> QED
    BY <2>1, <2>3, <2>4 DEF Decoded
<1>10. CASE m \in SafeStops
  <2>1. m.type = "SafeStop"
    BY <1>10 DEF SafeStops
  <2>2. ValidSafeStop(m)
    BY <2>1 DEF Valid
  <2>3. Cells(m) \in Seq(Cell) /\ SafeStopOf(Cells(m)) = m
    BY <1>10, <2>2, SafeStopSurvives
  <2>4. Fields(m.type, Cells(m)) = m
    BY <2>1, <2>3 DEF Fields
  <2> QED
    BY <2>1, <2>3, <2>4 DEF Decoded
<1> QED
  BY <1>1, <1>2, <1>3, <1>4, <1>5, <1>6, <1>7, <1>8, <1>9, <1>10 DEF Message

(* A payload has one meaning: what is taken for a message is, to the byte, *)
(* what the message is encoded to, but for the reserved bytes of a         *)
(* heartbeat.                                                              *)
THEOREM PayloadHasOneMeaning ==
  ASSUME NEW c \in Seq(Cell), NEW t \in DOMAIN TypeCode,
         Decoded(t, c).type \notin {"Refused", "Heartbeat"}
  PROVE  Cells(Decoded(t, c)) = c
<1>1. Decoded(t, c) = Fields(t, c) /\ Fields(t, c).type # "Refused"
  BY DEF Decoded, Refused
<1>2. Fields(t, c) # Refused
  BY <1>1 DEF Refused
<1>3. CASE t = "Hello"
  <2>1. Fields(t, c) = HelloOf(c)
    BY <1>3 DEF Fields
  <2> QED
    BY <1>1, <1>2, <2>1, HelloAgain
<1>4. CASE t = "HelloAck"
  <2>1. Fields(t, c) = HelloAckOf(c)
    BY <1>4 DEF Fields
  <2> QED
    BY <1>1, <1>2, <2>1, HelloAckAgain
<1>5. CASE t = "SensorFrame"
  <2>1. Fields(t, c) = SensorFrameOf(c)
    BY <1>5 DEF Fields
  <2> QED
    BY <1>1, <1>2, <2>1, SensorFrameAgain
<1>6. CASE t = "RouteChunk"
  <2>1. Fields(t, c) = RouteChunkOf(c)
    BY <1>6 DEF Fields
  <2> QED
    BY <1>1, <1>2, <2>1, RouteChunkAgain
<1>7. CASE t = "Command"
  <2>1. Fields(t, c) = CommandOf(c)
    BY <1>7 DEF Fields
  <2> QED
    BY <1>1, <1>2, <2>1, CommandAgain
<1>8. CASE t = "Estimate"
  <2>1. Fields(t, c) = EstimateOf(c)
    BY <1>8 DEF Fields
  <2> QED
    BY <1>1, <1>2, <2>1, EstimateAgain
<1>9. CASE t = "Health"
  <2>1. Fields(t, c) = HealthOf(c)
    BY <1>9 DEF Fields
  <2> QED
    BY <1>1, <1>2, <2>1, HealthAgain
<1>10. CASE t = "Heartbeat"
  <2>1. Fields(t, c) = HeartbeatOf(c)
    BY <1>10 DEF Fields
  <2>2. HeartbeatOf(c).type \in {"Refused", "Heartbeat"}
    BY DEF HeartbeatOf, Refused
  <2> QED
    BY <1>1, <2>1, <2>2
<1>11. CASE t = "Error"
  <2>1. Fields(t, c) = ErrorOf(c)
    BY <1>11 DEF Fields
  <2> QED
    BY <1>1, <1>2, <2>1, ErrorAgain
<1>12. CASE t = "SafeStop"
  <2>1. Fields(t, c) = SafeStopOf(c)
    BY <1>12 DEF Fields
  <2> QED
    BY <1>1, <1>2, <2>1, SafeStopAgain
<1> QED
  BY <1>3, <1>4, <1>5, <1>6, <1>7, <1>8, <1>9, <1>10, <1>11, <1>12 DEF TypeCode

-----------------------------------------------------------------------------
(* Folds and COBS.                                                         *)
(* A fold passes through the states h[0] .. h[n]; Step is what the folded  *)
(* operator does to a state at a place.                                    *)
LEMMA MaxOf ==
  ASSUME NEW x \in SUBSET Int, NEW m \in x, \A y \in x : m >= y
  PROVE  Max(x) = m
<1> DEFINE P(k) == k \in x /\ \A y \in x : k >= y
<1>1. Max(x) = CHOOSE k : P(k)
  BY DEF Max
<1>2. ASSUME NEW k, P(k) PROVE k = m
  <2>1. k \in Int /\ m \in Int /\ k >= m /\ m >= k
    BY <1>2
  <2> QED
    BY <2>1
<1>3. P(m)
  OBVIOUS
<1> HIDE DEF P
<1> QED
  BY <1>1, <1>2, <1>3

Folds(g, base, F, n) ==
  g = [d \in SUBSET (1 .. n) |->
         IF d = {} THEN base ELSE F[<<g[d \ {Max(d)}], Max(d)>>]]

LEMMA FoldExists ==
  ASSUME NEW X, NEW base \in X, NEW N \in Nat, NEW F \in [X \X (1 .. N) -> X]
  PROVE  \E g \in [SUBSET (1 .. N) -> X] : Folds(g, base, F, N)
<1> DEFINE Typed(n) == [SUBSET (1 .. n) -> X]
           Some == {n \in Nat :
                      n <= N => \E g \in Typed(n) : Folds(g, base, F, n)}
<1>1. 0 \in Some
  <2> DEFINE g == [d \in SUBSET (1 .. 0) |-> base]
  <2>1. g \in Typed(0) /\ Folds(g, base, F, 0)
    BY DEF Folds
  <2> HIDE DEF Typed, g
  <2> QED
    BY <2>1
<1>2. ASSUME NEW n \in Nat, n \in Some, n + 1 <= N PROVE n + 1 \in Some
  <2>1. PICK g \in Typed(n) : Folds(g, base, F, n)
    <3> HIDE DEF Typed
    <3> QED
      BY <1>2
  <2> DEFINE D == SUBSET (1 .. n + 1)
             k == [d \in D |-> IF d \subseteq 1 .. n THEN g[d]
                               ELSE F[<<g[d \ {n + 1}], n + 1>>]]
  <2>2. ASSUME NEW d \in D
        PROVE  /\ k[d] \in X
               /\ k[d] = IF d = {} THEN base
                         ELSE F[<<k[d \ {Max(d)}], Max(d)>>]
    <3>1. CASE d \subseteq 1 .. n
      <4>1. d \ {Max(d)} \subseteq 1 .. n /\ d \ {Max(d)} \in D
        BY <3>1
      <4>2. k[d] = g[d] /\ k[d \ {Max(d)}] = g[d \ {Max(d)}]
        BY <3>1, <4>1
      <4>3. g[d] = IF d = {} THEN base ELSE F[<<g[d \ {Max(d)}], Max(d)>>]
        BY <2>1, <3>1 DEF Folds
      <4>4. g[d] \in X
        BY <2>1, <3>1
      <4> HIDE DEF k
      <4> QED
        BY <4>2, <4>3, <4>4
    <3>2. CASE ~(d \subseteq 1 .. n)
      <4>1. n + 1 \in d /\ d \in SUBSET Int /\ \A y \in d : n + 1 >= y
        BY <3>2
      <4>2. Max(d) = n + 1
        BY <4>1, MaxOf
      <4>3. d \ {n + 1} \subseteq 1 .. n /\ d \ {n + 1} \in D
        OBVIOUS
      <4>4. /\ k[d] = F[<<g[d \ {n + 1}], n + 1>>]
            /\ k[d \ {n + 1}] = g[d \ {n + 1}]
        BY <3>2, <4>3
      <4>5. F[<<g[d \ {n + 1}], n + 1>>] \in X
        <5>1. g[d \ {n + 1}] \in X /\ n + 1 \in 1 .. N
          BY <1>2, <4>3
        <5> QED
          BY <5>1
      <4> HIDE DEF k
      <4> QED
        BY <4>1, <4>2, <4>4, <4>5
    <3> QED
      BY <3>1, <3>2
  <2>3. k = [d \in D |-> k[d]]
    OBVIOUS
  <2> HIDE DEF k
  <2>4. Folds(k, base, F, n + 1)
    BY <2>2, <2>3 DEF Folds
  <2>5. k \in Typed(n + 1)
    BY <2>2, <2>3
  <2> HIDE DEF Typed
  <2> QED
    BY <2>4, <2>5
<1>3. Nat \subseteq Some
  <2>1. ASSUME NEW n \in Nat, n \in Some, ~(n + 1 <= N) PROVE n + 1 \in Some
    BY <2>1
  <2> HIDE DEF Some
  <2> QED
    BY <1>1, <1>2, <2>1, SetInduction
<1>4. N \in Some /\ N <= N
  <2>1. N <= N
    OBVIOUS
  <2> HIDE DEF Some
  <2> QED
    BY <1>3, <2>1
<1>5. \E g \in Typed(N) : Folds(g, base, F, N)
  <2> HIDE DEF Typed
  <2> QED
    BY <1>4
<1> QED
  BY <1>5

LEMMA MaxUpTo ==
  ASSUME NEW n \in Nat, NEW i \in 1 .. n
  PROVE  /\ 1 .. i \in SUBSET (1 .. n) /\ 1 .. i # {}
         /\ Max(1 .. i) = i /\ (1 .. i) \ {i} = 1 .. i - 1
<1> DEFINE d == 1 .. i
<1>1. /\ d \in SUBSET (1 .. n) /\ d # {} /\ d \ {i} = 1 .. i - 1
      /\ d \in SUBSET Int /\ i \in d /\ \A y \in d : i >= y
  OBVIOUS
<1> HIDE DEF d
<1>2. Max(d) = i
  BY <1>1, MaxOf
<1> QED
  BY <1>1, <1>2 DEF d

LEMMA MaxIn ==
  ASSUME NEW n \in Nat, NEW d \in SUBSET (1 .. n), d # {}
  PROVE  Max(d) \in d
<1> DEFINE Upper == {k \in Nat : \E y \in d : y + k = n}
<1>1. Upper # {}
  <2>1. PICK y \in d : TRUE
    OBVIOUS
  <2>2. n - y \in Nat /\ y + (n - y) = n
    OBVIOUS
  <2> QED
    BY <2>1, <2>2
<1>2. PICK k \in Upper : \A j \in Upper : ~(j < k)
  <2> DEFINE Lt == {p \in Nat \X Nat : p[1] < p[2]}
  <2>1. IsWellFoundedOn(Lt, Nat)
    BY NatLessThanWellFounded DEF OpToRel
  <2> HIDE DEF Lt
  <2>2. PICK k \in Upper : \A j \in Upper : ~(<<j, k>> \in Lt)
    BY <1>1, <2>1, WFMin
  <2>3. ASSUME NEW j \in Upper, j < k PROVE FALSE
    BY <2>2, <2>3 DEF Lt
  <2> QED
    BY <2>3
<1>3. PICK m \in d : m + k = n
  BY <1>2
<1>4. ASSUME NEW y \in d PROVE m >= y
  <2>1. n - y \in Nat /\ y + (n - y) = n
    OBVIOUS
  <2>2. n - y \in Upper
    BY <2>1
  <2>3. ~(n - y < k)
    BY <1>2, <2>2
  <2> QED
    BY <1>3, <2>1, <2>3
<1>5. d \in SUBSET Int
  OBVIOUS
<1>6. Max(d) = m
  BY <1>4, <1>5, MaxOf
<1> QED
  BY <1>6

CobsState == [out : Seq(Int), at : Int, code : Int]
CobsRun(h, base, s, n) ==
  /\ h[0] = base /\ FoldLeft(CobsByte, base, s) = h[n]
  /\ \A i \in 1 .. n : h[i] = CobsByte(h[i - 1], s[i])

LEMMA Replaced ==
  ASSUME NEW o \in Seq(Int), NEW i, NEW v \in Int
  PROVE  /\ [o EXCEPT ![i] = v] \in Seq(Int)
         /\ Len([o EXCEPT ![i] = v]) = Len(o)
<1> DEFINE r == [o EXCEPT ![i] = v]
<1>1. DOMAIN o = 1 .. Len(o) /\ Len(o) \in Nat
  OBVIOUS
<1>2. r = [j \in 1 .. Len(o) |-> r[j]]
  <2>1. r = [j \in DOMAIN o |-> IF j = i THEN v ELSE o[j]]
    OBVIOUS
  <2> HIDE DEF r
  <2> QED
    BY <1>1, <2>1
<1>3. ASSUME NEW j \in 1 .. Len(o) PROVE r[j] \in Int
  OBVIOUS
<1> HIDE DEF r
<1>4. r \in Seq(Int) /\ Len(r) = Len(o)
  BY <1>1, <1>2, <1>3
<1> QED
  BY <1>4 DEF r

LEMMA CobsTyped ==
  ASSUME NEW a \in CobsState, NEW b \in Int
  PROVE  CobsByte(a, b) \in CobsState
<1>1. ASSUME NEW z \in CobsState PROVE BlockClosed(z) \in CobsState
  <2>1. z.out \in Seq(Int) /\ z.at \in Int /\ z.code \in Int
    BY DEF CobsState
  <2> DEFINE o == [z.out EXCEPT ![z.at] = z.code]
  <2>2. o \in Seq(Int)
    BY <2>1, Replaced
  <2> HIDE DEF o
  <2>3. Append(o, 0) \in Seq(Int) /\ Len(z.out) + 1 \in Int
    BY <2>1, <2>2
  <2>4. BlockClosed(z) = [out |-> Append(o, 0), at |-> Len(z.out) + 1,
                          code |-> 1]
    BY DEF BlockClosed, o
  <2> QED
    BY <2>3, <2>4 DEF CobsState
<1> DEFINE longer == [a EXCEPT !.out = Append(@, b), !.code = @ + 1]
<1>2. longer \in CobsState
  <2>1. Append(a.out, b) \in Seq(Int) /\ a.code + 1 \in Int
    BY DEF CobsState
  <2> QED
    BY <2>1 DEF CobsState
<1> HIDE DEF longer
<1>3. CobsByte(a, b) \in {BlockClosed(a), BlockClosed(longer), longer}
  BY DEF CobsByte, longer
<1> QED
  BY <1>1, <1>2, <1>3

LEMMA CobsSteps ==
  ASSUME NEW base \in CobsState, NEW n \in Nat, NEW s \in Seq(Int), Len(s) = n
  PROVE  \E h : CobsRun(h, base, s, n)
<1> DEFINE Iter(g) == g = [d \in SUBSET DOMAIN s |->
                             IF d = {} THEN base
                             ELSE CobsByte(g[d \ {Max(d)}], s[Max(d)])]
           f == CHOOSE g : Iter(g)
<1>1. FoldLeft(CobsByte, base, s) = f[DOMAIN s]
  BY DEF FoldLeft, MapThenFoldSet
<1>2. DOMAIN s = 1 .. n
  OBVIOUS
<1>3. \E g : Iter(g)
  <2> DEFINE F == [p \in CobsState \X (1 .. n) |-> CobsByte(p[1], s[p[2]])]
  <2>1. ASSUME NEW a \in CobsState, NEW i \in 1 .. n
        PROVE  F[<<a, i>>] = CobsByte(a, s[i]) /\ F[<<a, i>>] \in CobsState
    <3>1. F[<<a, i>>] = CobsByte(a, s[i])
      OBVIOUS
    <3>2. s[i] \in Int
      OBVIOUS
    <3> QED
      BY <3>1, <3>2, CobsTyped
  <2>2. F \in [CobsState \X (1 .. n) -> CobsState]
    <3>1. ASSUME NEW p \in CobsState \X (1 .. n)
          PROVE  CobsByte(p[1], s[p[2]]) \in CobsState
      <4>1. p[1] \in CobsState /\ s[p[2]] \in Int
        OBVIOUS
      <4> QED
        BY <4>1, CobsTyped
    <3> QED
      BY <3>1
  <2> HIDE DEF F
  <2>3. PICK g \in [SUBSET (1 .. n) -> CobsState] : Folds(g, base, F, n)
    BY <2>2, FoldExists
  <2>4. ASSUME NEW d \in SUBSET (1 .. n)
        PROVE  g[d] = IF d = {} THEN base
                      ELSE CobsByte(g[d \ {Max(d)}], s[Max(d)])
    <3>1. g[d] = IF d = {} THEN base ELSE F[<<g[d \ {Max(d)}], Max(d)>>]
      BY <2>3 DEF Folds
    <3>2. d # {} => Max(d) \in 1 .. n
      BY MaxIn
    <3>3. g[d \ {Max(d)}] \in CobsState
      BY <2>3
    <3> QED
      BY <2>1, <3>1, <3>2, <3>3
  <2>5. g = [d \in SUBSET (1 .. n) |-> g[d]]
    OBVIOUS
  <2>6. Iter(g)
    BY <1>2, <2>4, <2>5
  <2> HIDE DEF Iter
  <2> QED
    BY <2>6
<1>4. Iter(f)
  <2> HIDE DEF Iter
  <2> QED
    BY <1>3
<1>5. ASSUME NEW d \in SUBSET (1 .. n)
      PROVE  f[d] = IF d = {} THEN base
                    ELSE CobsByte(f[d \ {Max(d)}], s[Max(d)])
  BY <1>2, <1>4
<1> HIDE DEF f
<1> DEFINE h == [i \in 0 .. n |-> f[1 .. i]]
<1>6. h[0] = base
  <2>1. 1 .. 0 = {} /\ 0 \in 0 .. n /\ {} \in SUBSET (1 .. n)
    OBVIOUS
  <2>2. f[{}] = base
    BY <1>5, <2>1
  <2> QED
    BY <2>1, <2>2
<1>7. ASSUME NEW i \in 1 .. n PROVE h[i] = CobsByte(h[i - 1], s[i])
  <2>1. i \in 0 .. n /\ i - 1 \in 0 .. n
    OBVIOUS
  <2>2. h[i] = f[1 .. i] /\ h[i - 1] = f[1 .. i - 1]
    BY <2>1
  <2> HIDE DEF h
  <2>3. f[1 .. i] = CobsByte(f[1 .. i - 1], s[i])
    BY <1>5, MaxUpTo
  <2> QED
    BY <2>2, <2>3
<1>8. FoldLeft(CobsByte, base, s) = h[n]
  BY <1>1, <1>2
<1> HIDE DEF h
<1> QED
  BY <1>6, <1>7, <1>8 DEF CobsRun

(* The encoder after i bytes: the block it is in began behind byte at - 1, *)
(* and its code is what the byte after it makes of it.                     *)
Starts(b, k) == k = 0 \/ b[k] = 0
Closed(o, b, i, k) ==
  /\ o[k + 1] \in 1 .. i - k
  /\ \A j \in k + 1 .. k + o[k + 1] - 1 : b[j] # 0
  /\ b[k + o[k + 1]] = 0
Encoding(z, b, i) ==
  /\ z \in CobsState /\ Len(z.out) = i + 1
  /\ z.at \in 1 .. i + 1 /\ z.code = i + 2 - z.at /\ Starts(b, z.at - 1)
  /\ \A j \in z.at .. i : b[j] # 0
  /\ \A j \in 1 .. i : b[j] # 0 => z.out[j + 1] = b[j]
  /\ \A k \in 0 .. i : Starts(b, k) /\ k + 1 # z.at => Closed(z.out, b, i, k)

(* The bytes of b, framed.                                                 *)
IsCode(c, b, n, k) ==
  /\ c \in 1 .. n + 1 - k
  /\ \A j \in k + 1 .. k + c - 1 : b[j] # 0
  /\ k + c = n + 1 \/ b[k + c] = 0
Block(e, b, n, k) == IsCode(e[k + 1], b, n, k)
IsEncoded(e, b, n) ==
  /\ e \in Seq(Int) /\ Len(e) = n + 1
  /\ \A j \in 1 .. n : b[j] # 0 => e[j + 1] = b[j]
  /\ \A k \in 0 .. n : Starts(b, k) => Block(e, b, n, k)

LEMMA CellsAreInts ==
  ASSUME NEW b \in Seq(Cell)
  PROVE  b \in Seq(Int)
<1>1. \A j \in 1 .. Len(b) : b[j] \in Int
  BY Bytes DEF Cell
<1>2. b = [j \in 1 .. Len(b) |-> b[j]] /\ Len(b) \in Nat
  BY LenProperties
<1> QED
  BY <1>1, <1>2

LEMMA Appended ==
  ASSUME NEW S, NEW o \in Seq(S), NEW v \in S, NEW n \in Nat, Len(o) = n
  PROVE  /\ Append(o, v) \in Seq(S) /\ Len(Append(o, v)) = n + 1
         /\ \A j \in 1 .. n : Append(o, v)[j] = o[j]
         /\ Append(o, v)[n + 1] = v
  OBVIOUS

LEMMA EncodingMore ==
  ASSUME NEW b \in Seq(Cell), NEW i \in Nat, i + 1 \in DOMAIN b,
         i + 2 < TopCell, NEW z, Encoding(z, b, i)
  PROVE  Encoding(CobsByte(z, b[i + 1]), b, i + 1)
<1> DEFINE x == b[i + 1]
<1>0. TopCell \in Nat
  BY Bytes
<1>1. /\ z.out \in Seq(Int) /\ z.at \in Int /\ z.code \in Int
      /\ Len(z.out) = i + 1 /\ x \in Int
  BY <1>0 DEF Encoding, CobsState, Cell
<1>2. CASE x = 0
  <2> DEFINE o == [z.out EXCEPT ![z.at] = z.code]
             r == Append(o, 0)
             y == [out |-> r, at |-> i + 2, code |-> 1]
  <2>1. CobsByte(z, x) = y
    <3>1. Len(z.out) + 1 = i + 2
      BY <1>1
    <3> QED
      BY <1>2, <3>1 DEF CobsByte, BlockClosed
  <2>2. /\ o \in Seq(Int) /\ Len(o) = i + 1 /\ o[z.at] = z.code
        /\ \A j \in 1 .. i + 1 : j # z.at => o[j] = z.out[j]
    <3>1. o \in Seq(Int) /\ Len(o) = i + 1
      BY <1>1, Replaced
    <3>2. DOMAIN z.out = 1 .. i + 1 /\ z.at \in 1 .. i + 1
      BY <1>1 DEF Encoding
    <3> QED
      BY <3>1, <3>2
  <2> HIDE DEF o
  <2>3. /\ r \in Seq(Int) /\ Len(r) = i + 2
        /\ \A j \in 1 .. i + 1 : r[j] = o[j]
    <3>1. i + 1 \in Nat /\ 0 \in Int /\ i + 1 + 1 = i + 2
      OBVIOUS
    <3> QED
      BY <2>2, <3>1, Appended
  <2> HIDE DEF r
  <2>4. y \in CobsState
    BY <2>3 DEF CobsState
  <2>5. ASSUME NEW j \in 1 .. i + 1, b[j] # 0 PROVE r[j + 1] = b[j]
    <3>1. j \in 1 .. i /\ j + 1 \in 1 .. i + 1
      BY <1>2, <2>5
    <3>2. j + 1 # z.at
      <4>1. z.at \in Int /\ (j + 1 = z.at => z.at - 1 = j)
        BY <1>1
      <4> QED
        BY <2>5, <3>1, <4>1 DEF Encoding, Starts
    <3>3. z.out[j + 1] = b[j]
      BY <2>5, <3>1 DEF Encoding
    <3>4. r[j + 1] = o[j + 1] /\ o[j + 1] = z.out[j + 1]
      BY <2>2, <2>3, <3>1, <3>2
    <3> QED
      BY <3>3, <3>4
  <2>6. ASSUME NEW k \in 0 .. i + 1, Starts(b, k), k + 1 # i + 2
        PROVE  Closed(r, b, i + 1, k)
    <3>1. k \in 0 .. i /\ k + 1 \in 1 .. i + 1 /\ r[k + 1] = o[k + 1]
      BY <2>3, <2>6
    <3>2. CASE k + 1 = z.at
      <4>1. r[k + 1] = i + 1 - k
        BY <2>2, <3>1, <3>2 DEF Encoding
      <4>2. ASSUME NEW j \in k + 1 .. i PROVE b[j] # 0
        BY <3>2 DEF Encoding
      <4>3. /\ r[k + 1] \in 1 .. i + 1 - k
            /\ k + r[k + 1] = i + 1 /\ k + r[k + 1] - 1 = i
        BY <3>1, <4>1
      <4> QED
        BY <1>2, <4>2, <4>3 DEF Closed
    <3>3. CASE k + 1 # z.at
      <4>1. r[k + 1] = z.out[k + 1]
        BY <2>2, <3>1, <3>3
      <4>2. Closed(z.out, b, i, k)
        BY <2>6, <3>1, <3>3 DEF Encoding
      <4> QED
        BY <3>1, <4>1, <4>2 DEF Closed
    <3> QED
      BY <3>2, <3>3
  <2>7. /\ y.out = r /\ y.at = i + 2 /\ y.code = 1
        /\ i + 1 + 1 = i + 2 /\ i + 1 + 2 - (i + 2) = 1
        /\ i + 2 \in 1 .. i + 1 + 1 /\ i + 2 - 1 = i + 1
        /\ \A j \in i + 2 .. i + 1 : FALSE
    OBVIOUS
  <2>8. Starts(b, i + 2 - 1)
    BY <1>2, <2>7 DEF Starts
  <2> HIDE DEF y
  <2> QED
    BY <2>1, <2>3, <2>4, <2>5, <2>6, <2>7, <2>8 DEF Encoding
<1>3. CASE x # 0
  <2> DEFINE r == Append(z.out, x)
             y == [z EXCEPT !.out = r, !.code = z.code + 1]
  <2>1. CobsByte(z, x) = y
    <3>1. z.code + 1 # TopCell
      BY <1>0, <1>1 DEF Encoding
    <3>2. y.code = z.code + 1
      BY DEF Encoding, CobsState
    <3> QED
      BY <1>3, <3>1, <3>2 DEF CobsByte
  <2>2. /\ r \in Seq(Int) /\ Len(r) = i + 2 /\ r[i + 2] = x
        /\ \A j \in 1 .. i + 1 : r[j] = z.out[j]
    <3>1. i + 1 \in Nat /\ i + 1 + 1 = i + 2
      OBVIOUS
    <3> QED
      BY <1>1, <3>1, Appended
  <2> HIDE DEF r
  <2>3. /\ y \in CobsState /\ y.out = r /\ y.at = z.at
        /\ y.code = z.code + 1
    <3>1. z \in CobsState /\ z.code + 1 \in Int
      BY <1>1 DEF Encoding
    <3> QED
      BY <2>2, <3>1 DEF CobsState
  <2> HIDE DEF y
  <2>4. ASSUME NEW j \in 1 .. i + 1, b[j] # 0 PROVE r[j + 1] = b[j]
    <3>1. CASE j = i + 1
      BY <2>2, <3>1
    <3>2. CASE j # i + 1
      <4>1. j \in 1 .. i /\ j + 1 \in 1 .. i + 1
        BY <3>2
      <4> QED
        BY <2>2, <2>4, <4>1 DEF Encoding
    <3> QED
      BY <3>1, <3>2
  <2>5. ASSUME NEW k \in 0 .. i + 1, Starts(b, k), k + 1 # z.at
        PROVE  Closed(r, b, i + 1, k)
    <3>1. k \in 0 .. i /\ k + 1 \in 1 .. i + 1
      BY <1>3, <2>5 DEF Starts
    <3>2. Closed(z.out, b, i, k) /\ r[k + 1] = z.out[k + 1]
      BY <2>2, <2>5, <3>1 DEF Encoding
    <3> QED
      BY <3>1, <3>2 DEF Closed
  <2>6. \A j \in z.at .. i + 1 : b[j] # 0
    BY <1>3 DEF Encoding
  <2>7. /\ z.at \in 1 .. i + 1 + 1 /\ y.code = i + 1 + 2 - z.at
        /\ i + 1 + 1 = i + 2 /\ Starts(b, z.at - 1)
    BY <2>3 DEF Encoding
  <2> QED
    BY <2>1, <2>2, <2>3, <2>4, <2>5, <2>6, <2>7 DEF Encoding
<1> QED
  BY <1>2, <1>3

LEMMA EncodedIs ==
  ASSUME NEW b \in Seq(Cell), NEW n \in Nat, Len(b) = n, n + 1 < TopCell
  PROVE  IsEncoded(CobsEncoded(b), b, n)
<1> DEFINE base == [out |-> <<0>>, at |-> 1, code |-> 1]
<1>0. TopCell \in Nat /\ Cell \subseteq Int
  BY Bytes DEF Cell
<1>1. base \in CobsState /\ b \in Seq(Int)
  <2>1. <<0>> \in Seq(Int) /\ 1 \in Int
    OBVIOUS
  <2>2. b \in Seq(Int)
    BY CellsAreInts
  <2> QED
    BY <2>1, <2>2 DEF CobsState
<1>2. PICK h : CobsRun(h, base, b, n)
  <2> HIDE DEF base
  <2> QED
    BY <1>1, CobsSteps
<1>3. Encoding(base, b, 0)
  <2>1. /\ base.out = <<0>> /\ base.at = 1 /\ base.code = 1 /\ Len(<<0>>) = 1
        /\ \A k \in 0 .. 0 : k + 1 = 1
    OBVIOUS
  <2> HIDE DEF base
  <2> QED
    BY <1>1, <2>1 DEF Encoding, Starts
<1> DEFINE Done == {i \in Nat : i <= n => Encoding(h[i], b, i)}
<1>4. 0 \in Done
  BY <1>2, <1>3 DEF CobsRun
<1>5. ASSUME NEW i \in Nat, i \in Done PROVE i + 1 \in Done
  <2> SUFFICES ASSUME i + 1 <= n PROVE Encoding(h[i + 1], b, i + 1)
    OBVIOUS
  <2>1. Encoding(h[i], b, i) /\ i + 2 < TopCell /\ i + 1 \in DOMAIN b
    BY <1>0, <1>5
  <2>2. h[i + 1] = CobsByte(h[i], b[i + 1])
    <3> DEFINE k == i + 1
    <3>1. k \in 1 .. n /\ k - 1 = i
      OBVIOUS
    <3> HIDE DEF k
    <3>2. h[k] = CobsByte(h[k - 1], b[k])
      BY <1>2, <3>1 DEF CobsRun
    <3> QED
      BY <3>1, <3>2 DEF k
  <2> QED
    BY <2>1, <2>2, EncodingMore
<1>6. Nat \subseteq Done
  <2> HIDE DEF Done
  <2> QED
    BY <1>4, <1>5, SetInduction
<1> DEFINE z == h[n]
           e == [z.out EXCEPT ![z.at] = z.code]
<1>7. Encoding(z, b, n)
  BY <1>6
<1>8. CobsEncoded(b) = e
  BY <1>2 DEF CobsEncoded, CobsRun
<1> HIDE DEF z
<1>9. /\ e \in Seq(Int) /\ Len(e) = n + 1 /\ e[z.at] = z.code
      /\ \A j \in 1 .. n + 1 : j # z.at => e[j] = z.out[j]
  <2>1. /\ z.out \in Seq(Int) /\ z.at \in Int /\ z.code \in Int
        /\ Len(z.out) = n + 1 /\ z.at \in 1 .. n + 1
    BY <1>7 DEF Encoding, CobsState
  <2>2. e \in Seq(Int) /\ Len(e) = n + 1
    BY <2>1, Replaced
  <2>3. DOMAIN z.out = 1 .. n + 1
    BY <2>1
  <2> QED
    BY <2>1, <2>2, <2>3
<1> HIDE DEF e
<1>10. ASSUME NEW j \in 1 .. n, b[j] # 0 PROVE e[j + 1] = b[j]
  <2>1. z.at \in Int
    BY <1>7 DEF Encoding
  <2>2. j + 1 = z.at => z.at - 1 = j /\ j # 0
    BY <2>1
  <2>3. j + 1 # z.at
    BY <1>7, <1>10, <2>2 DEF Encoding, Starts
  <2>4. e[j + 1] = z.out[j + 1]
    BY <1>9, <2>3
  <2> QED
    BY <1>7, <1>10, <2>4 DEF Encoding
<1>11. ASSUME NEW k \in 0 .. n, Starts(b, k) PROVE Block(e, b, n, k)
  <2>1. CASE k + 1 = z.at
    <3>1. e[k + 1] = n + 1 - k
      BY <1>7, <1>9, <2>1 DEF Encoding
    <3>2. /\ e[k + 1] \in 1 .. n + 1 - k /\ k + e[k + 1] = n + 1
          /\ k + e[k + 1] - 1 = n
      BY <3>1
    <3>3. \A j \in k + 1 .. n : b[j] # 0
      BY <1>7, <2>1 DEF Encoding
    <3> QED
      BY <3>2, <3>3 DEF Block, IsCode
  <2>2. CASE k + 1 # z.at
    <3>1. Closed(z.out, b, n, k) /\ e[k + 1] = z.out[k + 1]
      BY <1>7, <1>9, <1>11, <2>2 DEF Encoding
    <3> QED
      BY <3>1 DEF Closed, Block, IsCode
  <2> QED
    BY <2>1, <2>2
<1> QED
  BY <1>8, <1>9, <1>10, <1>11 DEF IsEncoded

LEMMA NoZeros ==
  ASSUME NEW b \in Seq(Cell), NEW n \in Nat, Len(b) = n, n + 1 < TopCell,
         NEW e, IsEncoded(e, b, n)
  PROVE  e \in Seq(Cell) /\ \A i \in 1 .. n + 1 : e[i] # 0
<1>1. ASSUME NEW i \in 1 .. n + 1 PROVE e[i] \in Cell /\ e[i] # 0
  <2> DEFINE k == i - 1
  <2>1. k \in 0 .. n /\ k + 1 = i
    OBVIOUS
  <2> HIDE DEF k
  <2>2. CASE Starts(b, k)
    <3>1. IsCode(e[k + 1], b, n, k)
      BY <2>1, <2>2 DEF IsEncoded, Block
    <3>2. e[k + 1] \in 1 .. n + 1 - k
      BY <3>1 DEF IsCode
    <3>3. e[k + 1] \in Cell /\ e[k + 1] # 0
      BY <2>1, <3>2, Bytes DEF Cell
    <3> QED
      BY <2>1, <3>3
  <2>3. CASE ~Starts(b, k)
    <3>1. k \in 1 .. n /\ b[k] # 0
      BY <2>1, <2>3 DEF Starts
    <3>2. e[k + 1] = b[k] /\ b[k] \in Cell
      BY <3>1 DEF IsEncoded
    <3> QED
      BY <2>1, <3>1, <3>2
  <2> QED
    BY <2>2, <2>3
<1>2. e = [i \in 1 .. n + 1 |-> e[i]] /\ n + 1 \in Nat
  BY LenProperties DEF IsEncoded
<1>3. e \in Seq(Cell)
  BY <1>1, <1>2
<1> QED
  BY <1>1, <1>3

UncobsState == [out : Seq(Cell), left : Int, full : BOOLEAN]
UncobsRun(h, base, s, n) ==
  /\ h[0] = base /\ FoldLeft(UncobsByte, base, s) = h[n]
  /\ \A i \in 1 .. n : h[i] = UncobsByte(h[i - 1], s[i])

LEMMA UncobsTyped ==
  ASSUME NEW a \in UncobsState, NEW b \in Cell
  PROVE  UncobsByte(a, b) \in UncobsState
<1>1. a.out \in Seq(Cell) /\ a.left \in Int /\ a.full \in BOOLEAN
  BY DEF UncobsState
<1>2. /\ Append(a.out, b) \in Seq(Cell) /\ Append(a.out, 0) \in Seq(Cell)
      /\ a.left - 1 \in Int /\ b - 1 \in Int
  <2>1. 0 \in Cell /\ b \in Int
    BY Bytes DEF Cell
  <2> QED
    BY <1>1, <2>1
<1>3. CASE a.left > 0
  <2>1. UncobsByte(a, b)
          = [a EXCEPT !.out = Append(a.out, b), !.left = a.left - 1]
    BY <1>3 DEF UncobsByte
  <2> QED
    BY <1>2, <2>1 DEF UncobsState
<1>4. CASE ~(a.left > 0)
  <2>1. UncobsByte(a, b)
          = [out |-> IF a.full THEN a.out ELSE Append(a.out, 0),
             left |-> b - 1, full |-> b = TopCell]
    BY <1>4 DEF UncobsByte
  <2> QED
    BY <1>1, <1>2, <2>1 DEF UncobsState
<1> QED
  BY <1>3, <1>4

LEMMA UncobsSteps ==
  ASSUME NEW base \in UncobsState, NEW n \in Nat, NEW s \in Seq(Cell),
         Len(s) = n
  PROVE  \E h : UncobsRun(h, base, s, n)
<1> DEFINE Iter(g) == g = [d \in SUBSET DOMAIN s |->
                             IF d = {} THEN base
                             ELSE UncobsByte(g[d \ {Max(d)}], s[Max(d)])]
           f == CHOOSE g : Iter(g)
<1>1. FoldLeft(UncobsByte, base, s) = f[DOMAIN s]
  BY DEF FoldLeft, MapThenFoldSet
<1>2. DOMAIN s = 1 .. n
  OBVIOUS
<1>3. \E g : Iter(g)
  <2> DEFINE F == [p \in UncobsState \X (1 .. n) |-> UncobsByte(p[1], s[p[2]])]
  <2>1. ASSUME NEW a \in UncobsState, NEW i \in 1 .. n
        PROVE  F[<<a, i>>] = UncobsByte(a, s[i]) /\ F[<<a, i>>] \in UncobsState
    <3>1. F[<<a, i>>] = UncobsByte(a, s[i])
      OBVIOUS
    <3>2. s[i] \in Cell
      OBVIOUS
    <3> QED
      BY <3>1, <3>2, UncobsTyped
  <2>2. F \in [UncobsState \X (1 .. n) -> UncobsState]
    <3>1. ASSUME NEW p \in UncobsState \X (1 .. n)
          PROVE  UncobsByte(p[1], s[p[2]]) \in UncobsState
      <4>1. p[1] \in UncobsState /\ s[p[2]] \in Cell
        OBVIOUS
      <4> QED
        BY <4>1, UncobsTyped
    <3> QED
      BY <3>1
  <2> HIDE DEF F
  <2>3. PICK g \in [SUBSET (1 .. n) -> UncobsState] : Folds(g, base, F, n)
    BY <2>2, FoldExists
  <2>4. ASSUME NEW d \in SUBSET (1 .. n)
        PROVE  g[d] = IF d = {} THEN base
                      ELSE UncobsByte(g[d \ {Max(d)}], s[Max(d)])
    <3>1. g[d] = IF d = {} THEN base ELSE F[<<g[d \ {Max(d)}], Max(d)>>]
      BY <2>3 DEF Folds
    <3>2. d # {} => Max(d) \in 1 .. n
      BY MaxIn
    <3>3. g[d \ {Max(d)}] \in UncobsState
      BY <2>3
    <3> QED
      BY <2>1, <3>1, <3>2, <3>3
  <2>5. g = [d \in SUBSET (1 .. n) |-> g[d]]
    OBVIOUS
  <2>6. Iter(g)
    BY <1>2, <2>4, <2>5
  <2> HIDE DEF Iter
  <2> QED
    BY <2>6
<1>4. Iter(f)
  <2> HIDE DEF Iter
  <2> QED
    BY <1>3
<1>5. ASSUME NEW d \in SUBSET (1 .. n)
      PROVE  f[d] = IF d = {} THEN base
                    ELSE UncobsByte(f[d \ {Max(d)}], s[Max(d)])
  BY <1>2, <1>4
<1> HIDE DEF f
<1> DEFINE h == [i \in 0 .. n |-> f[1 .. i]]
<1>6. h[0] = base
  <2>1. 1 .. 0 = {} /\ 0 \in 0 .. n /\ {} \in SUBSET (1 .. n)
    OBVIOUS
  <2>2. f[{}] = base
    BY <1>5, <2>1
  <2> QED
    BY <2>1, <2>2
<1>7. ASSUME NEW i \in 1 .. n PROVE h[i] = UncobsByte(h[i - 1], s[i])
  <2>1. i \in 0 .. n /\ i - 1 \in 0 .. n
    OBVIOUS
  <2>2. h[i] = f[1 .. i] /\ h[i - 1] = f[1 .. i - 1]
    BY <2>1
  <2> HIDE DEF h
  <2>3. f[1 .. i] = UncobsByte(f[1 .. i - 1], s[i])
    BY <1>5, MaxUpTo
  <2> QED
    BY <2>2, <2>3
<1>8. FoldLeft(UncobsByte, base, s) = h[n]
  BY <1>1, <1>2
<1> HIDE DEF h
<1> QED
  BY <1>6, <1>7, <1>8 DEF UncobsRun

(* The decoder after p bytes of the frame of b: a byte behind, and within  *)
(* a block unless it has seen it all.                                      *)
Remains(b, n, p, l) ==
  /\ l \in Nat /\ p + l <= n + 1
  /\ \A j \in p .. p + l - 1 : b[j] # 0
  /\ p + l = n + 1 \/ b[p + l] = 0
Prefix(o, b, k) ==
  o \in Seq(Cell) /\ Len(o) = k /\ \A j \in 1 .. k : o[j] = b[j]
Decoding(z, b, n, p) ==
  /\ z \in UncobsState
  /\ IF p = 0 THEN z.out = <<>> /\ z.left = 0 /\ z.full
     ELSE Prefix(z.out, b, p - 1) /\ ~z.full /\ Remains(b, n, p, z.left)

LEMMA BlockBegins ==
  ASSUME NEW b, NEW n \in Nat, n + 1 < TopCell, NEW p \in 0 .. n, NEW c,
         IsCode(c, b, n, p)
  PROVE  Remains(b, n, p + 1, c - 1) /\ c \in Int /\ c # TopCell
<1>1. /\ c \in 1 .. n + 1 - p /\ TopCell \in Nat
      /\ \A j \in p + 1 .. p + c - 1 : b[j] # 0
      /\ p + c = n + 1 \/ b[p + c] = 0
  BY Bytes DEF IsCode
<1>2. p + 1 + (c - 1) = p + c
  BY <1>1
<1>3. c - 1 \in Nat /\ p + c <= n + 1 /\ c # TopCell
  BY <1>1
<1> QED
  BY <1>1, <1>2, <1>3 DEF Remains

LEMMA BlockGoesOn ==
  ASSUME NEW b, NEW n \in Nat, NEW p \in 1 .. n + 1, NEW l, l > 0,
         Remains(b, n, p, l)
  PROVE  Remains(b, n, p + 1, l - 1) /\ p \in 1 .. n /\ b[p] # 0
<1>1. /\ l \in Nat /\ p + l <= n + 1
      /\ \A j \in p .. p + l - 1 : b[j] # 0
      /\ p + l = n + 1 \/ b[p + l] = 0
  BY DEF Remains
<1>2. /\ p + 1 + (l - 1) = p + l /\ l - 1 \in Nat
      /\ p \in p .. p + l - 1 /\ p \in 1 .. n
  BY <1>1
<1> QED
  BY <1>1, <1>2 DEF Remains

LEMMA PrefixMore ==
  ASSUME NEW o, NEW b, NEW k \in Nat, Prefix(o, b, k), NEW v \in Cell,
         v = b[k + 1]
  PROVE  Prefix(Append(o, v), b, k + 1)
<1> DEFINE r == Append(o, v)
<1>1. /\ r \in Seq(Cell) /\ Len(r) = k + 1
      /\ \A j \in 1 .. k : r[j] = o[j]
      /\ r[k + 1] = v
  BY Appended DEF Prefix
<1> HIDE DEF r
<1>2. ASSUME NEW j \in 1 .. k + 1 PROVE r[j] = b[j]
  <2>1. CASE j = k + 1
    BY <1>1, <2>1
  <2>2. CASE j # k + 1
    <3>1. j \in 1 .. k
      BY <2>2
    <3> QED
      BY <1>1, <3>1 DEF Prefix
  <2> QED
    BY <2>1, <2>2
<1> QED
  BY <1>1, <1>2 DEF Prefix, r

LEMMA DecodingMore ==
  ASSUME NEW b \in Seq(Cell), NEW n \in Nat, Len(b) = n, n + 1 < TopCell,
         NEW e \in Seq(Cell), IsEncoded(e, b, n), NEW p \in 0 .. n,
         NEW z, Decoding(z, b, n, p)
  PROVE  Decoding(UncobsByte(z, e[p + 1]), b, n, p + 1)
<1>1. \A k \in 0 .. n : Starts(b, k) => IsCode(e[k + 1], b, n, k)
  BY DEF IsEncoded, Block
<1>2. e[p + 1] \in Cell /\ \A j \in 1 .. n : b[j] # 0 => e[j + 1] = b[j]
  BY DEF IsEncoded
<1> DEFINE x == e[p + 1]
           y == UncobsByte(z, x)
<1>3. x \in Cell /\ (Starts(b, p) => IsCode(x, b, n, p))
  BY <1>1, <1>2
<1>4. p \in 1 .. n /\ b[p] # 0 => x = b[p]
  BY <1>2
<1> HIDE DEF x
<1>5. y \in UncobsState
  BY <1>3, UncobsTyped DEF Decoding
<1>6. p + 1 # 0 /\ p + 1 - 1 = p
  OBVIOUS
<1>7. SUFFICES /\ Prefix(y.out, b, p) /\ ~y.full
               /\ Remains(b, n, p + 1, y.left)
  BY <1>5, <1>6 DEF Decoding, x
<1>8. CASE Starts(b, p) /\ z.left = 0
  <2>1. Remains(b, n, p + 1, x - 1) /\ x # TopCell
    BY <1>3, <1>8, BlockBegins
  <2>2. /\ y.left = x - 1 /\ y.full = (x = TopCell)
        /\ y.out = IF z.full THEN z.out ELSE Append(z.out, 0)
    BY <1>8 DEF UncobsByte
  <2> HIDE DEF y
  <2>3. CASE p = 0
    <3>1. y.out = <<>>
      BY <2>2, <2>3 DEF Decoding
    <3>2. Prefix(<<>>, b, 0)
      BY DEF Prefix
    <3> QED
      BY <2>1, <2>2, <2>3, <3>1, <3>2
  <2>4. CASE p # 0
    <3>1. y.out = Append(z.out, 0) /\ Prefix(z.out, b, p - 1) /\ b[p] = 0
      BY <1>8, <2>2, <2>4 DEF Decoding, Starts
    <3>2. p - 1 \in Nat /\ p - 1 + 1 = p
      BY <2>4
    <3>3. Prefix(Append(z.out, 0), b, p - 1 + 1)
      BY <3>1, <3>2, PrefixMore
    <3> QED
      BY <2>1, <2>2, <3>1, <3>2, <3>3
  <2> QED
    BY <2>3, <2>4
<1>9. CASE p # 0 /\ z.left > 0
  <2>1. p \in 1 .. n + 1 /\ Remains(b, n, p, z.left) /\ ~z.full
        /\ Prefix(z.out, b, p - 1)
    BY <1>9 DEF Decoding
  <2>2. Remains(b, n, p + 1, z.left - 1) /\ p \in 1 .. n /\ b[p] # 0
    BY <1>9, <2>1, BlockGoesOn
  <2>3. x = b[p]
    BY <1>4, <2>2
  <2>4. y.out = Append(z.out, x) /\ y.left = z.left - 1 /\ y.full = z.full
    BY <1>9 DEF UncobsByte, Decoding, UncobsState
  <2> HIDE DEF y
  <2>5. p - 1 \in Nat /\ p - 1 + 1 = p
    BY <2>2
  <2>6. Prefix(Append(z.out, x), b, p - 1 + 1)
    BY <1>3, <2>1, <2>3, <2>5, PrefixMore
  <2> QED
    BY <2>1, <2>2, <2>4, <2>5, <2>6
<1>10. CASE p # 0 /\ ~(z.left > 0)
  <2>1. Remains(b, n, p, z.left)
    BY <1>10 DEF Decoding
  <2>2. z.left = 0 /\ b[p] = 0
    BY <1>10, <2>1 DEF Remains
  <2> QED
    BY <1>8, <2>2 DEF Starts
<1>11. CASE p = 0
  BY <1>8, <1>11 DEF Decoding, Starts
<1> QED
  BY <1>9, <1>10, <1>11

LEMMA DecodedIs ==
  ASSUME NEW b \in Seq(Cell), NEW n \in Nat, Len(b) = n, n + 1 < TopCell,
         NEW e \in Seq(Cell), IsEncoded(e, b, n)
  PROVE  CobsDecoded(e) = [ok |-> TRUE, bytes |-> b]
<1> DEFINE base == [out |-> <<>>, left |-> 0, full |-> TRUE]
           N == n + 1
<1>1. base \in UncobsState /\ e \in Seq(Cell) /\ Len(e) = N /\ N \in Nat
  <2>1. <<>> \in Seq(Cell) /\ 0 \in Int
    OBVIOUS
  <2> QED
    BY <2>1 DEF UncobsState, IsEncoded
<1>2. PICK h : UncobsRun(h, base, e, N)
  <2> HIDE DEF base, N
  <2> QED
    BY <1>1, UncobsSteps
<1> DEFINE Done == {p \in Nat : p <= N => Decoding(h[p], b, n, p)}
<1>3. 0 \in Done
  BY <1>1, <1>2 DEF UncobsRun, Decoding
<1>4. ASSUME NEW p \in Nat, p \in Done PROVE p + 1 \in Done
  <2> SUFFICES ASSUME p + 1 <= N PROVE Decoding(h[p + 1], b, n, p + 1)
    OBVIOUS
  <2>1. Decoding(h[p], b, n, p) /\ p \in 0 .. n
    BY <1>4
  <2>2. h[p + 1] = UncobsByte(h[p], e[p + 1])
    <3> DEFINE k == p + 1
    <3>1. k \in 1 .. N /\ k - 1 = p
      OBVIOUS
    <3> HIDE DEF k, N
    <3>2. h[k] = UncobsByte(h[k - 1], e[k])
      BY <1>2, <3>1 DEF UncobsRun
    <3> QED
      BY <3>1, <3>2 DEF k
  <2> QED
    BY <2>1, <2>2, DecodingMore
<1>5. Nat \subseteq Done
  <2> HIDE DEF Done
  <2> QED
    BY <1>3, <1>4, SetInduction
<1> DEFINE z == h[N]
<1>6. Decoding(z, b, n, N)
  BY <1>1, <1>5
<1>7. CobsDecoded(e) = [ok |-> z.left = 0, bytes |-> z.out]
  BY <1>2 DEF CobsDecoded, UncobsRun
<1> HIDE DEF z
<1>8. /\ z.out \in Seq(Cell) /\ Len(z.out) = n /\ z.left \in Int
      /\ z.left = 0 /\ \A j \in 1 .. n : z.out[j] = b[j]
  <2>1. N # 0 /\ N - 1 = n
    OBVIOUS
  <2>2. Prefix(z.out, b, n) /\ Remains(b, n, N, z.left)
    BY <1>6, <2>1 DEF Decoding
  <2>3. z.left = 0
    BY <2>2 DEF Remains
  <2> QED
    BY <2>2, <2>3 DEF Prefix
<1>9. z.out = b
  BY <1>8, SeqEqual
<1> QED
  BY <1>7, <1>8, <1>9

LEMMA UncobsCells ==
  ASSUME NEW e \in Seq(Cell)
  PROVE  CobsDecoded(e).bytes \in Seq(Cell)
<1> DEFINE base == [out |-> <<>>, left |-> 0, full |-> TRUE]
           n == Len(e)
<1>1. base \in UncobsState /\ n \in Nat
  <2>1. <<>> \in Seq(Cell) /\ 0 \in Int /\ n \in Nat
    BY LenProperties
  <2> QED
    BY <2>1 DEF UncobsState
<1> HIDE DEF base
<1>2. PICK h : UncobsRun(h, base, e, n)
  BY <1>1, UncobsSteps
<1> DEFINE Done == {i \in Nat : i <= n => h[i] \in UncobsState}
<1>3. 0 \in Done
  BY <1>1, <1>2 DEF UncobsRun
<1>4. ASSUME NEW i \in Nat, i \in Done PROVE i + 1 \in Done
  <2> SUFFICES ASSUME i + 1 <= n PROVE h[i + 1] \in UncobsState
    OBVIOUS
  <2> DEFINE k == i + 1
  <2>1. k \in 1 .. n /\ k - 1 = i /\ h[i] \in UncobsState
    BY <1>1, <1>4
  <2> HIDE DEF k
  <2>2. h[k] = UncobsByte(h[k - 1], e[k]) /\ e[k] \in Cell
    BY <1>2, <2>1 DEF UncobsRun
  <2>3. h[k] \in UncobsState
    BY <2>1, <2>2, UncobsTyped
  <2> QED
    BY <2>3 DEF k
<1>5. Nat \subseteq Done
  <2> HIDE DEF Done
  <2> QED
    BY <1>3, <1>4, SetInduction
<1>6. CobsDecoded(e).bytes = h[n].out
  BY <1>2 DEF CobsDecoded, UncobsRun, base
<1>7. h[n] \in UncobsState
  <2>1. n \in Done /\ n <= n
    <3>1. n <= n
      BY <1>1
    <3> HIDE DEF Done, n
    <3> QED
      BY <1>1, <1>5, <3>1
  <2> QED
    BY <2>1
<1> QED
  BY <1>6, <1>7 DEF UncobsState

-----------------------------------------------------------------------------
(* Frames.                                                                 *)

(* The packets an endpoint puts together, and what it takes for one.       *)
Packet ==
  [type : DOMAIN TypeCode, seq : 0 .. 1, step : {0},
   payload : {c \in Seq(Cell) : Len(c) <= MaxPayload}]

(* The checksum fits in the two bytes it is given.                         *)
CrcFits ==
  \A bytes \in Seq(Cell) :
    Crc(bytes) \in Nat /\ Crc(bytes) \div (TopCell + 1) \in Cell

LEMMA CrcIsCells ==
  ASSUME CrcFits, NEW bytes \in Seq(Cell)
  PROVE  IsCells(CrcBytes(bytes), 2)
<1> DEFINE crc == Crc(bytes)
           w == TopCell + 1
           lo == crc % w
           hi == crc \div w
<1>1. crc \in Nat /\ hi \in Cell /\ w \in Nat /\ w > 0 /\ w - 1 = TopCell
  BY Bytes DEF CrcFits
<1>2. CrcBytes(bytes) = <<lo, hi>>
  BY DEF CrcBytes
<1> HIDE DEF crc, w, hi
<1>3. lo \in 0 .. w - 1
  BY <1>1
<1>4. lo \in Cell
  BY <1>1, <1>3 DEF Cell
<1> HIDE DEF lo
<1> QED
  BY <1>1, <1>2, <1>4 DEF IsCells

(* The head of a packet, its payload and its checksum.                     *)
HeadOf(p) == <<Version, TypeCode[p.type], Len(p.payload), p.seq, p.step>>
Body(p) == HeadOf(p) \o p.payload
IsRaw(raw, p, k) ==
  /\ IsCells(raw, k + 7) /\ IsPart(Body(p), raw, 0, k + 5)
  /\ IsPart(CrcBytes(Body(p)), raw, k + 5, 2) /\ IsPart(p.payload, raw, 5, k)
  /\ raw[1] = Version /\ raw[2] = TypeCode[p.type] /\ raw[3] = k
  /\ raw[4] = p.seq /\ raw[5] = p.step

LEMMA RawIs ==
  ASSUME CrcFits, NEW p \in Packet, NEW k \in Nat, Len(p.payload) = k
  PROVE  /\ IsRaw(RawBytes(p), p, k)
         /\ k <= MaxPayload /\ k + 7 \in 7 .. MaxRaw /\ k + 8 < TopCell
<1> DEFINE head == HeadOf(p)
           body == Body(p)
           crc == CrcBytes(body)
           raw == RawBytes(p)
<1>1. /\ IsCells(p.payload, k) /\ k <= MaxPayload
      /\ p.seq \in Cell /\ p.step \in Cell /\ p.type \in DOMAIN TypeCode
  BY Bytes DEF Packet, IsCells, Cell
<1>2. /\ k + 7 \in 7 .. MaxRaw /\ k + 8 < TopCell
      /\ k \in Cell /\ Version \in Cell
  BY <1>1, Bytes DEF MaxRaw, HeaderSize, CrcSize, Cell, Version
<1>3. /\ IsCells(head, 5) /\ head[1] = Version
      /\ head[2] = TypeCode[p.type] /\ head[3] = k
      /\ head[4] = p.seq /\ head[5] = p.step
  <2>1. TypeCode[p.type] \in Cell
    BY <1>1, WireAssumption
  <2> DEFINE code == TypeCode[p.type]
  <2> HIDE DEF code
  <2>2. head = <<Version, code, k, p.seq, p.step>> /\ code \in Cell
    BY <2>1 DEF HeadOf, code
  <2> HIDE DEF head
  <2> QED
    BY <1>1, <1>2, <2>2 DEF IsCells, code
<1>4. body = head \o p.payload
  BY DEF Body
<1> HIDE DEF head
<1>5. IsJoin(body, head, 5, p.payload, k)
  BY <1>1, <1>3, <1>4, Joined
<1>6. raw = body \o crc
  BY DEF RawBytes, Body, HeadOf
<1> HIDE DEF body
<1>7. IsCells(body, 5 + k) /\ body \in Seq(Cell)
  BY <1>5 DEF IsJoin, IsCells
<1>8. IsCells(crc, 2)
  BY <1>7, CrcIsCells
<1> HIDE DEF crc
<1>9. IsJoin(raw, body, 5 + k, crc, 2)
  BY <1>6, <1>7, <1>8, Joined
<1> HIDE DEF raw
<1>10. 5 + k = k + 5 /\ k + 5 + 2 = k + 7
  OBVIOUS
<1>11. IsCells(raw, k + 7) /\ IsPart(crc, raw, k + 5, 2)
  BY <1>8, <1>9, <1>10 DEF IsJoin, IsPart
<1>12. IsPart(body, raw, 0, k + 5)
  <2>1. ASSUME NEW j \in 1 .. k + 5 PROVE raw[0 + j] = body[j]
    BY <1>9 DEF IsJoin
  <2> QED
    BY <1>7, <1>10, <2>1 DEF IsPart, Holds
<1>13. IsPart(p.payload, raw, 5, k)
  <2>1. ASSUME NEW j \in 1 .. k PROVE raw[5 + j] = p.payload[j]
    <3>1. 5 + j \in 1 .. 5 + k
      OBVIOUS
    <3>2. raw[5 + j] = body[5 + j]
      BY <1>9, <3>1 DEF IsJoin
    <3>3. body[5 + j] = p.payload[j]
      BY <1>5 DEF IsJoin, Holds
    <3> QED
      BY <3>2, <3>3
  <2> QED
    BY <1>1, <2>1 DEF IsPart, Holds
<1>14. ASSUME NEW j \in 1 .. 5 PROVE raw[j] = head[j]
  BY <1>5, <1>9 DEF IsJoin
<1>15. IsRaw(raw, p, k)
  BY <1>3, <1>11, <1>12, <1>13, <1>14 DEF IsRaw, crc, body
<1> QED
  BY <1>1, <1>2, <1>15 DEF raw

LEMMA TypesDiffer ==
  ASSUME NEW t \in DOMAIN TypeCode
  PROVE  TypesOf(TypeCode[t]) = {t}
  BY DEF TypesOf, TypeCode

(* What encode_packet frames, decode_packet and cobs_decode find again: a  *)
(* frame is short enough for the parser, has no delimiter inside and holds *)
(* the packet it was made of, and nothing else.                            *)
THEOREM FrameHolds ==
  ASSUME CrcFits, NEW p \in Packet
  PROVE  LET e == CobsEncoded(RawBytes(p))
         IN  /\ e \in Seq(Cell) /\ Len(e) \in 8 .. MaxEncoded
             /\ \A i \in 1 .. Len(e) : e[i] # 0
             /\ PacketsOf(e) = {p}
<1> DEFINE raw == RawBytes(p)
           e == CobsEncoded(raw)
           k == Len(p.payload)
           n == k + 7
<1>1. k \in Nat
  BY LenProperties DEF Packet
<1> HIDE DEF k
<1>2. /\ IsRaw(raw, p, k) /\ k <= MaxPayload /\ n \in 7 .. MaxRaw
      /\ n \in Nat /\ n + 1 < TopCell
  BY <1>1, RawIs DEF k
<1> HIDE DEF raw
<1>3. raw \in Seq(Cell) /\ Len(raw) = n
  BY <1>2 DEF IsRaw, IsCells
<1> HIDE DEF n
<1>4. IsEncoded(e, raw, n)
  BY <1>2, <1>3, EncodedIs
<1> HIDE DEF e
<1>5. /\ e \in Seq(Cell) /\ \A i \in 1 .. n + 1 : e[i] # 0
      /\ Len(e) = n + 1
  BY <1>2, <1>3, <1>4, NoZeros DEF IsEncoded
<1>6. CobsDecoded(e) = [ok |-> TRUE, bytes |-> raw]
  BY <1>2, <1>3, <1>4, <1>5, DecodedIs
<1> DEFINE body == Body(p)
           crc == CrcBytes(body)
<1>7. /\ Cut(raw, 0, k + 5) = body /\ Cut(raw, k + 5, 2) = crc
      /\ Cut(raw, 5, k) = p.payload
  <2>1. /\ IsCells(raw, k + 7) /\ IsPart(body, raw, 0, k + 5)
        /\ IsPart(crc, raw, k + 5, 2) /\ IsPart(p.payload, raw, 5, k)
    BY <1>2 DEF IsRaw
  <2> HIDE DEF body, crc
  <2>2. k + 5 \in Nat /\ k + 7 \in Nat /\ 0 + (k + 5) <= k + 7
        /\ k + 5 + 2 <= k + 7 /\ 5 + k <= k + 7
    BY <1>1
  <2>3. Cut(raw, 0, k + 5) = body
    BY <2>1, <2>2, PartIs
  <2>4. Cut(raw, k + 5, 2) = crc
    BY <2>1, <2>2, PartIs
  <2>5. Cut(raw, 5, k) = p.payload
    BY <1>1, <2>1, <2>2, PartIs
  <2> QED
    BY <2>3, <2>4, <2>5
<1>8. /\ SubSeq(raw, 1, Len(raw) - CrcSize) = body
      /\ SubSeq(raw, Len(raw) - 1, Len(raw)) = crc
      /\ SubSeq(raw, HeaderSize + 1, Len(raw) - CrcSize) = p.payload
  <2>1. /\ Len(raw) - CrcSize = 0 + (k + 5) /\ 0 + 1 = 1
        /\ Len(raw) - CrcSize = 5 + k /\ HeaderSize + 1 = 5 + 1
        /\ Len(raw) - 1 = k + 5 + 1 /\ Len(raw) = k + 5 + 2
    BY <1>1, <1>3 DEF n, CrcSize, HeaderSize
  <2> HIDE DEF body, crc
  <2> QED
    BY <1>7, <2>1 DEF Cut
<1>9. RawIntact(raw)
  <2>1. Len(raw) \in HeaderSize + CrcSize .. MaxRaw
    BY <1>2, <1>3 DEF HeaderSize, CrcSize
  <2> QED
    BY <1>8, <2>1 DEF RawIntact
<1>10. /\ raw[1] = Version /\ raw[2] = TypeCode[p.type] /\ raw[3] = k
       /\ raw[4] = p.seq /\ raw[5] = p.step
  BY <1>2 DEF IsRaw
<1>11. p = [type |-> p.type, seq |-> p.seq, step |-> p.step,
            payload |-> p.payload] /\ p.type \in DOMAIN TypeCode
  BY DEF Packet
<1>12. PacketsOf(e) = {p}
  <2> DEFINE P(t) == [type |-> t, seq |-> raw[4], step |-> raw[5],
                      payload |-> p.payload]
             Types == {u \in TypesOf(raw[2]) :
                         raw[1] = Version /\ raw[3] = Len(p.payload)}
  <2>1. PacketsOf(e) = {P(t) : t \in Types}
    <3> DEFINE c == SubSeq(raw, HeaderSize + 1, Len(raw) - CrcSize)
    <3>1. PacketsOf(e) =
            {[type |-> t, seq |-> raw[4], step |-> raw[5], payload |-> c] :
              t \in {u \in TypesOf(raw[2]) :
                       raw[1] = Version /\ raw[3] = Len(c)}}
      <4>1. CobsDecoded(e).ok /\ CobsDecoded(e).bytes = raw
        BY <1>6
      <4> QED
        BY <1>9, <4>1, Zenon DEF PacketsOf
    <3>2. c = p.payload
      BY <1>8
    <3> HIDE DEF c
    <3> QED
      BY <3>1, <3>2
  <2>2. TypesOf(raw[2]) = {p.type}
    BY <1>10, <1>11, TypesDiffer
  <2>3. Types = {p.type}
    BY <1>10, <2>2 DEF k
  <2>4. P(p.type) = p
    BY <1>10, <1>11
  <2> HIDE DEF P, Types
  <2> QED
    BY <2>1, <2>3, <2>4
<1>13. Len(e) \in 8 .. MaxEncoded
  BY <1>2, <1>5, Bytes DEF MaxEncoded, MaxRaw, HeaderSize, CrcSize
<1> QED
  BY <1>5, <1>12, <1>13 DEF e, raw

-----------------------------------------------------------------------------
(* The parser.                                                             *)

(* The parser, and what it may hear.                                       *)
Heard == UNION {PacketsOf(e) : e \in Seq(Cell)}
ParserState == [encoded : Seq(Cell), discard : BOOLEAN]
FedState == [parser : ParserState, packets : SUBSET Heard]
FedRun(h, base, s, n) ==
  /\ h[0] = base /\ FoldLeft(ByteFed, base, s) = h[n]
  /\ \A i \in 1 .. n : h[i] = ByteFed(h[i - 1], s[i])

LEMMA FedTyped ==
  ASSUME NEW a \in FedState, NEW b \in Cell
  PROVE  ByteFed(a, b) \in FedState
<1>1. /\ a.parser \in ParserState /\ a.packets \in SUBSET Heard
      /\ a.parser.encoded \in Seq(Cell) /\ a.parser.discard \in BOOLEAN
      /\ <<>> \in Seq(Cell)
  BY DEF FedState, ParserState
<1>2. CASE b = 0
  <2>1. PacketsOf(a.parser.encoded) \in SUBSET Heard
    BY <1>1 DEF Heard
  <2>2. ByteFed(a, b) = Delimited(a)
    BY <1>2 DEF ByteFed
  <2>3. Delimited(a).parser \in ParserState
    BY <1>1 DEF Delimited, Emptied, ParserState
  <2>4. Delimited(a).packets \in SUBSET Heard
    BY <1>1, <2>1 DEF Delimited
  <2>5. Delimited(a) = [parser |-> Delimited(a).parser,
                        packets |-> Delimited(a).packets]
    BY DEF Delimited
  <2> QED
    BY <2>2, <2>3, <2>4, <2>5 DEF FedState
<1>3. CASE b # 0 /\ a.parser.discard
  <2>1. ByteFed(a, b) = a
    BY <1>3 DEF ByteFed
  <2> QED
    BY <2>1
<1>4. CASE b # 0 /\ ~a.parser.discard /\ Full(a.parser.encoded)
  <2>1. ByteFed(a, b)
          = [a EXCEPT !.parser = [encoded |-> <<>>, discard |-> TRUE]]
    BY <1>4 DEF ByteFed
  <2>2. [encoded |-> <<>>, discard |-> TRUE] \in ParserState
    BY <1>1 DEF ParserState
  <2> QED
    BY <2>1, <2>2 DEF FedState
<1>5. CASE b # 0 /\ ~a.parser.discard /\ ~Full(a.parser.encoded)
  <2>1. ByteFed(a, b) = [a EXCEPT !.parser.encoded = Append(@, b)]
    BY <1>5 DEF ByteFed
  <2>2. Append(a.parser.encoded, b) \in Seq(Cell)
    BY <1>1
  <2>3. [a.parser EXCEPT !.encoded = Append(a.parser.encoded, b)]
          \in ParserState
    BY <1>1, <2>2 DEF ParserState
  <2> QED
    BY <2>1, <2>3 DEF FedState
<1> QED
  BY <1>2, <1>3, <1>4, <1>5

LEMMA FedSteps ==
  ASSUME NEW base \in FedState, NEW n \in Nat, NEW s \in Seq(Cell), Len(s) = n
  PROVE  \E h : FedRun(h, base, s, n)
<1> DEFINE Iter(g) == g = [d \in SUBSET DOMAIN s |->
                             IF d = {} THEN base
                             ELSE ByteFed(g[d \ {Max(d)}], s[Max(d)])]
           f == CHOOSE g : Iter(g)
<1>1. FoldLeft(ByteFed, base, s) = f[DOMAIN s]
  BY DEF FoldLeft, MapThenFoldSet
<1>2. DOMAIN s = 1 .. n
  OBVIOUS
<1>3. \E g : Iter(g)
  <2> DEFINE F == [p \in FedState \X (1 .. n) |-> ByteFed(p[1], s[p[2]])]
  <2>1. ASSUME NEW a \in FedState, NEW i \in 1 .. n
        PROVE  F[<<a, i>>] = ByteFed(a, s[i]) /\ F[<<a, i>>] \in FedState
    <3>1. F[<<a, i>>] = ByteFed(a, s[i])
      OBVIOUS
    <3>2. s[i] \in Cell
      OBVIOUS
    <3> QED
      BY <3>1, <3>2, FedTyped
  <2>2. F \in [FedState \X (1 .. n) -> FedState]
    <3>1. ASSUME NEW p \in FedState \X (1 .. n)
          PROVE  ByteFed(p[1], s[p[2]]) \in FedState
      <4>1. p[1] \in FedState /\ s[p[2]] \in Cell
        OBVIOUS
      <4> QED
        BY <4>1, FedTyped
    <3> QED
      BY <3>1
  <2> HIDE DEF F
  <2>3. PICK g \in [SUBSET (1 .. n) -> FedState] : Folds(g, base, F, n)
    BY <2>2, FoldExists
  <2>4. ASSUME NEW d \in SUBSET (1 .. n)
        PROVE  g[d] = IF d = {} THEN base
                      ELSE ByteFed(g[d \ {Max(d)}], s[Max(d)])
    <3>1. g[d] = IF d = {} THEN base ELSE F[<<g[d \ {Max(d)}], Max(d)>>]
      BY <2>3 DEF Folds
    <3>2. d # {} => Max(d) \in 1 .. n
      BY MaxIn
    <3>3. g[d \ {Max(d)}] \in FedState
      BY <2>3
    <3> QED
      BY <2>1, <3>1, <3>2, <3>3
  <2>5. g = [d \in SUBSET (1 .. n) |-> g[d]]
    OBVIOUS
  <2>6. Iter(g)
    BY <1>2, <2>4, <2>5
  <2> HIDE DEF Iter
  <2> QED
    BY <2>6
<1>4. Iter(f)
  <2> HIDE DEF Iter
  <2> QED
    BY <1>3
<1>5. ASSUME NEW d \in SUBSET (1 .. n)
      PROVE  f[d] = IF d = {} THEN base
                    ELSE ByteFed(f[d \ {Max(d)}], s[Max(d)])
  BY <1>2, <1>4
<1> HIDE DEF f
<1> DEFINE h == [i \in 0 .. n |-> f[1 .. i]]
<1>6. h[0] = base
  <2>1. 1 .. 0 = {} /\ 0 \in 0 .. n /\ {} \in SUBSET (1 .. n)
    OBVIOUS
  <2>2. f[{}] = base
    BY <1>5, <2>1
  <2> QED
    BY <2>1, <2>2
<1>7. ASSUME NEW i \in 1 .. n PROVE h[i] = ByteFed(h[i - 1], s[i])
  <2>1. i \in 0 .. n /\ i - 1 \in 0 .. n
    OBVIOUS
  <2>2. h[i] = f[1 .. i] /\ h[i - 1] = f[1 .. i - 1]
    BY <2>1
  <2> HIDE DEF h
  <2>3. f[1 .. i] = ByteFed(f[1 .. i - 1], s[i])
    BY <1>5, MaxUpTo
  <2> QED
    BY <2>2, <2>3
<1>8. FoldLeft(ByteFed, base, s) = h[n]
  BY <1>1, <1>2
<1> HIDE DEF h
<1> QED
  BY <1>6, <1>7, <1>8 DEF FedRun

LEMMA FedIs ==
  ASSUME NEW p \in ParserState, NEW n \in Nat, NEW s \in Seq(Cell), Len(s) = n
  PROVE  /\ Fed(p, s) \in FedState
         /\ \E h : FedRun(h, [parser |-> p, packets |-> {}], s, n)
         /\ n > 0 /\ s[n] = 0 => Fed(p, s).parser = Emptied
<1> DEFINE base == [parser |-> p, packets |-> {}]
<1>1. base \in FedState
  BY DEF FedState
<1> HIDE DEF base
<1>2. PICK h : FedRun(h, base, s, n)
  BY <1>1, FedSteps
<1> DEFINE Done == {i \in Nat : i <= n => h[i] \in FedState}
<1>3. 0 \in Done
  BY <1>1, <1>2 DEF FedRun
<1>4. ASSUME NEW i \in Nat, i \in Done PROVE i + 1 \in Done
  <2> SUFFICES ASSUME i + 1 <= n PROVE h[i + 1] \in FedState
    OBVIOUS
  <2> DEFINE k == i + 1
  <2>1. k \in 1 .. n /\ k - 1 = i /\ h[i] \in FedState
    BY <1>4
  <2> HIDE DEF k
  <2>2. h[k] = ByteFed(h[k - 1], s[k]) /\ s[k] \in Cell
    BY <1>2, <2>1 DEF FedRun
  <2>3. h[k] \in FedState
    BY <2>1, <2>2, FedTyped
  <2> QED
    BY <2>3 DEF k
<1>5. Nat \subseteq Done
  <2> HIDE DEF Done
  <2> QED
    BY <1>3, <1>4, SetInduction
<1>6. Fed(p, s) = h[n]
  BY <1>2 DEF Fed, FedRun, base
<1>7. h[n] \in FedState
  BY <1>5
<1>8. ASSUME n > 0, s[n] = 0 PROVE Fed(p, s).parser = Emptied
  <2>1. h[n] = ByteFed(h[n - 1], s[n])
    BY <1>2, <1>8 DEF FedRun
  <2>2. h[n] = Delimited(h[n - 1])
    BY <1>8, <2>1 DEF ByteFed
  <2> QED
    BY <1>6, <2>2 DEF Delimited
<1> QED
  BY <1>2, <1>6, <1>7, <1>8 DEF base

(* A frame on the wire, and the parser after the first k bytes of it.      *)
IsFrame(F, N, p) ==
  /\ IsCells(F, N) /\ N > 1 /\ N - 1 <= MaxEncoded
  /\ F[N] = 0 /\ \A i \in 1 .. N - 1 : F[i] # 0
  /\ PacketsOf(Cut(F, 0, N - 1)) = {p}
Partway(F, k) == [encoded |-> Cut(F, 0, k), discard |-> FALSE]

LEMMA FrameIs ==
  ASSUME CrcFits, NEW p \in Packet
  PROVE  \E N \in Nat : IsFrame(Frame(p), N, p)
<1> DEFINE e == CobsEncoded(RawBytes(p))
           n == Len(e)
           F == e \o <<0>>
<1>1. /\ e \in Seq(Cell) /\ n \in 8 .. MaxEncoded
      /\ \A i \in 1 .. n : e[i] # 0
      /\ PacketsOf(e) = {p}
  BY FrameHolds
<1>2. Frame(p) = F
  BY DEF Frame
<1> HIDE DEF e
<1>3. n \in Nat /\ IsCells(e, n)
  BY <1>1, LenProperties DEF IsCells
<1> HIDE DEF n
<1>4. IsCells(<<0>>, 1)
  BY Bytes DEF IsCells, Cell
<1>5. IsJoin(F, e, n, <<0>>, 1)
  BY <1>3, <1>4, Joined
<1> HIDE DEF F
<1>6. /\ IsCells(F, n + 1) /\ F[n + 1] = 0 /\ \A i \in 1 .. n : F[i] # 0
  <2>1. IsCells(F, n + 1) /\ \A i \in 1 .. n : F[i] = e[i]
    BY <1>5 DEF IsJoin
  <2>2. F[n + 1] = <<0>>[1]
    BY <1>5 DEF IsJoin, Holds
  <2> QED
    BY <1>1, <2>1, <2>2 DEF n
<1>7. Cut(F, 0, n) = e
  <2>1. \A i \in 1 .. n : F[0 + i] = e[i]
    BY <1>5 DEF IsJoin
  <2>2. IsPart(e, F, 0, n)
    BY <1>3, <2>1 DEF IsPart, Holds
  <2>3. n + 1 \in Nat /\ 0 \in Nat /\ 0 + n <= n + 1
    BY <1>3
  <2> QED
    BY <1>3, <1>6, <2>2, <2>3, PartIs
<1>8. n + 1 \in Nat /\ n + 1 - 1 = n /\ n + 1 > 1 /\ n <= MaxEncoded
  BY <1>1, <1>3, Bytes DEF MaxEncoded, MaxRaw, HeaderSize, CrcSize, n
<1>9. IsFrame(F, n + 1, p)
  BY <1>1, <1>6, <1>7, <1>8 DEF IsFrame
<1> QED
  BY <1>2, <1>8, <1>9

LEMMA PartwayTyped ==
  ASSUME NEW F, NEW N \in Nat, IsCells(F, N), NEW k \in 0 .. N
  PROVE  Partway(F, k) \in ParserState /\ Len(Cut(F, 0, k)) = k
<1>1. 0 + k <= N /\ k \in Nat
  OBVIOUS
<1>2. IsPart(Cut(F, 0, k), F, 0, k)
  BY <1>1, Cutting
<1> QED
  BY <1>2 DEF IsPart, IsCells, ParserState, Partway

LEMMA CutMore ==
  ASSUME NEW F, NEW N \in Nat, IsCells(F, N), NEW k \in Nat, k < N
  PROVE  Append(Cut(F, 0, k), F[k + 1]) = Cut(F, 0, k + 1)
<1> DEFINE a == Cut(F, 0, k)
           r == Append(a, F[k + 1])
           x == F[k + 1]
<1>1. 0 + k <= N /\ k + 1 \in Nat /\ 0 + (k + 1) <= N /\ k + 1 \in 1 .. N
  OBVIOUS
<1>2. IsPart(a, F, 0, k)
  BY <1>1, Cutting
<1> HIDE DEF a
<1>3. a \in Seq(Cell) /\ Len(a) = k /\ \A j \in 1 .. k : F[0 + j] = a[j]
  BY <1>2 DEF IsPart, IsCells, Holds
<1>4. x \in Cell
  BY <1>1, CellAt
<1>5. /\ r \in Seq(Cell) /\ Len(r) = k + 1
      /\ \A j \in 1 .. k : r[j] = a[j]
      /\ r[k + 1] = x
  <2> HIDE DEF x
  <2>1. /\ Append(a, x) \in Seq(Cell) /\ Len(Append(a, x)) = k + 1
        /\ \A j \in 1 .. k : Append(a, x)[j] = a[j]
        /\ Append(a, x)[k + 1] = x
    BY <1>3, <1>4, Appended
  <2> QED
    BY <2>1 DEF x
<1> HIDE DEF r
<1>6. ASSUME NEW j \in 1 .. k + 1 PROVE F[0 + j] = r[j]
  <2>1. CASE j = k + 1
    BY <1>5, <2>1
  <2>2. CASE j # k + 1
    <3>1. j \in 1 .. k
      BY <2>2
    <3> QED
      BY <1>3, <1>5, <3>1
  <2> QED
    BY <2>1, <2>2
<1>7. IsPart(r, F, 0, k + 1)
  BY <1>5, <1>6 DEF IsPart, IsCells, Holds
<1>8. Cut(F, 0, k + 1) = r
  BY <1>1, <1>7, PartIs
<1> QED
  BY <1>8 DEF r, a

LEMMA ByteGoesIn ==
  ASSUME NEW F, NEW N \in Nat, NEW p, IsFrame(F, N, p),
         NEW k \in Nat, k + 1 < N
  PROVE  ByteFed([parser |-> Partway(F, k), packets |-> {}], F[k + 1])
           = [parser |-> Partway(F, k + 1), packets |-> {}]
<1> DEFINE s == [parser |-> Partway(F, k), packets |-> {}]
           x == F[k + 1]
           a == Cut(F, 0, k)
<1>1. IsCells(F, N) /\ x # 0 /\ k <= N /\ k < N /\ k < MaxEncoded
  <2>1. N - 1 <= MaxEncoded /\ k + 1 \in 1 .. N - 1
    BY DEF IsFrame
  <2>2. MaxEncoded \in Nat
    BY Bytes DEF MaxEncoded, MaxRaw, HeaderSize, CrcSize
  <2> QED
    BY <2>1, <2>2 DEF IsFrame
<1>2. Len(a) = k
  BY <1>1, PartwayTyped
<1>3. Append(a, x) = Cut(F, 0, k + 1)
  BY <1>1, CutMore
<1>4. ~Full(a)
  BY <1>1, <1>2, Bytes DEF Full, MaxEncoded, MaxRaw, HeaderSize, CrcSize
<1> HIDE DEF a, x
<1>5. s = [parser |-> [encoded |-> a, discard |-> FALSE], packets |-> {}]
  BY DEF Partway, a
<1> HIDE DEF s
<1>6. ByteFed(s, x) = [s EXCEPT !.parser.encoded = Append(@, x)]
  BY <1>1, <1>4, <1>5 DEF ByteFed
<1>7. ByteFed(s, x)
        = [parser |-> [encoded |-> Append(a, x), discard |-> FALSE],
           packets |-> {}]
  BY <1>5, <1>6
<1> QED
  BY <1>3, <1>7 DEF s, x, Partway

LEMMA ByteEnds ==
  ASSUME NEW F, NEW N \in Nat, NEW p, IsFrame(F, N, p), NEW k, k = N - 1
  PROVE  ByteFed([parser |-> Partway(F, k), packets |-> {}], F[N]).packets
           = {p}
<1> DEFINE s == [parser |-> Partway(F, k), packets |-> {}]
           a == Cut(F, 0, k)
<1>1. /\ IsCells(F, N) /\ F[N] = 0 /\ k \in 0 .. N /\ k > 0
      /\ PacketsOf(a) = {p}
  BY DEF IsFrame
<1>2. Len(a) = k
  BY <1>1, PartwayTyped
<1>3. a # <<>>
  BY <1>1, <1>2
<1> HIDE DEF a
<1>4. s = [parser |-> [encoded |-> a, discard |-> FALSE], packets |-> {}]
  BY DEF Partway, a
<1> HIDE DEF s
<1>5. ByteFed(s, F[N]) = Delimited(s)
  BY <1>1 DEF ByteFed
<1>6. Delimited(s).packets = {p}
  BY <1>1, <1>3, <1>4 DEF Delimited
<1> QED
  BY <1>5, <1>6 DEF s

(* A read within a frame.                                                  *)
UpTo(fed, F, N, p, k) ==
  IF k = N THEN fed.packets = {p}
  ELSE fed = [parser |-> Partway(F, k), packets |-> {}]

LEMMA FedOn ==
  ASSUME NEW F, NEW N \in Nat, NEW p, IsFrame(F, N, p),
         NEW k \in Nat, NEW n \in Nat, n > 0, k + n <= N,
         NEW s, IsPart(s, F, k, n)
  PROVE  UpTo(Fed(Partway(F, k), s), F, N, p, k + n)
<1> DEFINE base == [parser |-> Partway(F, k), packets |-> {}]
<1>1. IsCells(F, N)
  BY DEF IsFrame
<1>2. Partway(F, k) \in ParserState /\ s \in Seq(Cell) /\ Len(s) = n
  <2>1. k \in 0 .. N
    OBVIOUS
  <2> QED
    BY <1>1, <2>1, PartwayTyped DEF IsPart, IsCells
<1>3. PICK h : FedRun(h, base, s, n)
  <2> HIDE DEF base
  <2> QED
    BY <1>2, FedIs DEF base
<1>4. Fed(Partway(F, k), s) = h[n]
  BY <1>3 DEF FedRun, Fed
<1> DEFINE Done == {i \in Nat : i <= n /\ k + i < N =>
                      h[i] = [parser |-> Partway(F, k + i), packets |-> {}]}
<1>5. 0 \in Done
  <2>1. k + 0 = k /\ h[0] = base
    BY <1>3 DEF FedRun
  <2> QED
    BY <2>1
<1>6. ASSUME NEW i \in Nat, i + 1 <= n
      PROVE  h[i + 1] = ByteFed(h[i], F[k + i + 1])
  <2> DEFINE j == i + 1
  <2>1. j \in 1 .. n /\ j - 1 = i
    BY <1>6
  <2>2. k + i + 1 = k + j
    OBVIOUS
  <2> HIDE DEF j
  <2>3. h[j] = ByteFed(h[j - 1], s[j])
    BY <1>3, <2>1 DEF FedRun
  <2>4. F[k + j] = s[j]
    BY <2>1 DEF IsPart, Holds
  <2> QED
    BY <2>1, <2>2, <2>3, <2>4 DEF j
<1>7. ASSUME NEW i \in Nat, i \in Done PROVE i + 1 \in Done
  <2> SUFFICES ASSUME i + 1 <= n, k + (i + 1) < N
               PROVE  h[i + 1] = [parser |-> Partway(F, k + (i + 1)),
                                  packets |-> {}]
    OBVIOUS
  <2>1. h[i] = [parser |-> Partway(F, k + i), packets |-> {}]
    BY <1>7
  <2>2. h[i + 1] = ByteFed(h[i], F[k + i + 1])
    BY <1>6
  <2>3. k + i \in Nat /\ k + i + 1 < N /\ k + i + 1 = k + (i + 1)
    OBVIOUS
  <2>4. ByteFed([parser |-> Partway(F, k + i), packets |-> {}], F[k + i + 1])
          = [parser |-> Partway(F, k + i + 1), packets |-> {}]
    BY <2>3, ByteGoesIn
  <2> QED
    BY <2>1, <2>2, <2>3, <2>4
<1>8. Nat \subseteq Done
  <2> HIDE DEF Done
  <2> QED
    BY <1>5, <1>7, SetInduction
<1>9. CASE k + n = N
  <2> DEFINE i == n - 1
  <2>1. i \in Nat /\ i + 1 = n /\ k + i = N - 1 /\ k + i + 1 = N /\ i <= n
        /\ k + i < N
    BY <1>9
  <2> HIDE DEF i
  <2>2. h[i] = [parser |-> Partway(F, k + i), packets |-> {}]
    BY <1>8, <2>1
  <2>3. h[i + 1] = ByteFed(h[i], F[k + i + 1])
    BY <1>6, <2>1
  <2>4. ByteFed([parser |-> Partway(F, k + i), packets |-> {}], F[N]).packets
          = {p}
    BY <2>1, ByteEnds
  <2> QED
    BY <1>4, <1>9, <2>1, <2>2, <2>3, <2>4 DEF UpTo
<1>10. CASE k + n # N
  <2>1. k + n < N
    BY <1>10
  <2>2. h[n] = [parser |-> Partway(F, k + n), packets |-> {}]
    BY <1>8, <2>1
  <2> QED
    BY <1>4, <1>10, <2>2 DEF UpTo
<1> QED
  BY <1>9, <1>10

-----------------------------------------------------------------------------
(* The wire.  TypeOK is what the proofs need of the types.                 *)
TypeOK ==
  /\ parser \in ParserState /\ flight \in Seq(Cell) /\ sent \in Packet
  /\ intact \in BOOLEAN /\ apart \in BOOLEAN /\ got \in SUBSET Heard

(* After a delimiter the parser holds nothing.                             *)
Parted == apart => parser = Emptied

(* The packet under way says what the message last accepted does.          *)
Said ==
  message.type # "Refused" =>
    /\ message \in Message /\ Valid(message)
    /\ sent.type = message.type /\ sent.payload = Cells(message)

(* An untouched frame is in the parser as far as it has been read, and     *)
(* still to be read from there; once it has been read, it is received.     *)
Midway(F, N, k) ==
  /\ IsPart(flight, F, k, N - k)
  /\ IF k = N THEN got = {sent} ELSE got = {} /\ parser = Partway(F, k)
Underway ==
  intact => \E N \in Nat : IsFrame(Frame(sent), N, sent)
                             /\ \E k \in 0 .. N : Midway(Frame(sent), N, k)

Inv == TypeOK /\ Parted /\ Said /\ Underway

LEMMA InitInv ==
  ASSUME CrcFits
  PROVE  Init => Inv
<1> SUFFICES ASSUME Init PROVE Inv
  OBVIOUS
<1>1. <<>> \in Seq(Cell) /\ Len(<<>>) = 0
  OBVIOUS
<1>2. Emptied \in ParserState
  BY <1>1 DEF Emptied, ParserState
<1>3. Nothing \in Packet
  BY <1>1, Bytes DEF Nothing, Packet, TypeCode
<1>4. TypeOK
  BY <1>1, <1>2, <1>3 DEF Init, TypeOK
<1> QED
  BY <1>4 DEF Init, Inv, Parted, Said, Underway, Refused

LEMMA ReplacedCells ==
  ASSUME NEW c \in Seq(Cell), NEW i \in DOMAIN c, NEW v \in Cell
  PROVE  ReplaceAt(c, i, v) \in Seq(Cell) /\ Len(ReplaceAt(c, i, v)) = Len(c)
<1> DEFINE r == [c EXCEPT ![i] = v]
           n == Len(c)
<1>1. DOMAIN c = 1 .. n /\ n \in Nat /\ \A j \in 1 .. n : c[j] \in Cell
  BY LenProperties
<1> HIDE DEF n
<1>2. r = [j \in 1 .. n |-> IF j = i THEN v ELSE c[j]]
  BY <1>1
<1>3. r \in [1 .. n -> Cell]
  BY <1>1, <1>2
<1> HIDE DEF r
<1>4. r \in Seq(Cell) /\ Len(r) = n
  BY <1>1, <1>3
<1> QED
  BY <1>4 DEF ReplaceAt, r, n

LEMMA TouchedCells ==
  ASSUME NEW c \in Seq(Cell), NEW d \in Touched(c)
  PROVE  d \in Seq(Cell)
<1> DEFINE n == Len(c)
<1>1. /\ DOMAIN c = 1 .. n /\ n \in Nat /\ IsCells(c, n)
      /\ Garbage \subseteq Cell
  BY LenProperties, WireAssumption DEF IsCells
<1>2. PICK i \in DOMAIN c :
        \/ d = RemoveAt(c, i)
        \/ \E v \in Garbage : d = ReplaceAt(c, i, v)
        \/ \E v \in Garbage : d = InsertAt(c, i, v)
  BY DEF Touched
<1> HIDE DEF n
<1>3. i \in 1 .. n /\ i - 1 \in Nat /\ i - 1 + 1 = i /\ i \in Nat
  BY <1>1, <1>2
<1> DEFINE a == SubSeq(c, 1, i - 1)
           b == SubSeq(c, i + 1, n)
           e == SubSeq(c, i, n)
<1>4. a \in Seq(Cell) /\ b \in Seq(Cell) /\ e \in Seq(Cell)
  <2>1. IsPart(SubSeq(c, 0 + 1, i - 1), c, 0, i - 1 - 0)
    BY <1>1, <1>3, Part
  <2>2. IsPart(b, c, i, n - i)
    BY <1>1, <1>3, Part
  <2>3. IsPart(SubSeq(c, i - 1 + 1, n), c, i - 1, n - (i - 1))
    BY <1>1, <1>3, Part
  <2>4. 0 + 1 = 1 /\ i - 1 + 1 = i
    BY <1>3
  <2> QED
    BY <2>1, <2>2, <2>3, <2>4 DEF IsPart, IsCells
<1>5. RemoveAt(c, i) = a \o b
  BY DEF RemoveAt, n
<1>6. \A v : InsertAt(c, i, v) = a \o <<v>> \o e
  BY DEF InsertAt, n
<1> HIDE DEF a, b, e
<1>7. a \o b \in Seq(Cell)
  BY <1>4, ConcatProperties
<1>8. ASSUME NEW v \in Garbage
      PROVE  a \o <<v>> \o e \in Seq(Cell) /\ ReplaceAt(c, i, v) \in Seq(Cell)
  <2>1. <<v>> \in Seq(Cell)
    BY <1>1
  <2>2. a \o <<v>> \in Seq(Cell)
    BY <1>4, <2>1, ConcatProperties
  <2>3. a \o <<v>> \o e \in Seq(Cell)
    BY <1>4, <2>2, ConcatProperties
  <2>4. ReplaceAt(c, i, v) \in Seq(Cell)
    BY <1>1, <1>2, ReplacedCells
  <2> QED
    BY <2>3, <2>4
<1> QED
  BY <1>2, <1>5, <1>6, <1>7, <1>8

(* A frame that sets out from an empty parser.                             *)
LEMMA SetsOut ==
  ASSUME CrcFits, sent' \in Packet, flight' = Frame(sent'),
         Parted, parser' = parser, got' = {}, intact' = apart
  PROVE  flight' \in Seq(Cell) /\ Underway'
<1>0. PICK F : F = Frame(sent')
  OBVIOUS
<1>1. PICK N \in Nat : IsFrame(F, N, sent')
  BY <1>0, FrameIs
<1>2. IsCells(F, N) /\ N > 1
  BY <1>1 DEF IsFrame
<1>3. F \in Seq(Cell) /\ flight' = F
  BY <1>0, <1>2 DEF IsCells
<1>4. IsPart(F, F, 0, N)
  BY <1>2 DEF IsPart, Holds, IsCells
<1>5. Cut(F, 0, 0) = <<>>
  <2>1. Len(Cut(F, 0, 0)) = 0 /\ Partway(F, 0) \in ParserState
    BY <1>2, PartwayTyped
  <2> QED
    BY <2>1 DEF ParserState, Partway
<1>6. ASSUME intact' PROVE Underway'
  <2>1. parser' = Partway(F, 0)
    BY <1>5, <1>6 DEF Parted, Emptied, Partway
  <2>2. N - 0 = N /\ 0 # N /\ 0 \in 0 .. N
    BY <1>2
  <2>3. Midway(F, N, 0)'
    BY <1>3, <1>4, <2>1, <2>2 DEF Midway
  <2> QED
    BY <1>0, <1>1, <2>2, <2>3 DEF Underway
<1> QED
  BY <1>3, <1>6 DEF Underway

LEMMA SendInv ==
  ASSUME CrcFits, Inv, NEW m \in Messages, Send(m)
  PROVE  Inv'
<1>1. m \in Message /\ Valid(m) /\ Len(Cells(m)) <= MaxPayload
  BY WireAssumption DEF Send, Sendable
<1>2. Cells(m) \in Seq(Cell)
  BY <1>1, MessageRestored
<1>3. m.type \in DOMAIN TypeCode /\ m.type # "Refused"
  BY <1>1 DEF Message, Hellos, HelloAcks, SensorFrames, RouteChunks,
     Commands, Estimates, Healths, Heartbeats, Errors, SafeStops, TypeCode
<1>4. /\ message' = m /\ flight' = Frame(sent') /\ intact' = apart
      /\ got' = {} /\ parser' = parser /\ apart' = apart
      /\ sent' = [type |-> m.type, seq |-> 1 - sent.seq, step |-> 0,
                  payload |-> Cells(m)]
  BY <1>3 DEF Send, Departs
<1>5. sent' \in Packet
  <2>1. sent.seq \in 0 .. 1
    BY DEF Inv, TypeOK, Packet
  <2>2. 1 - sent.seq \in 0 .. 1
    BY <2>1
  <2> QED
    BY <1>1, <1>2, <1>3, <1>4, <2>2 DEF Packet
<1>6. flight' \in Seq(Cell) /\ Underway'
  BY <1>4, <1>5, SetsOut DEF Inv
<1>7. TypeOK'
  BY <1>4, <1>5, <1>6 DEF Inv, TypeOK
<1>8. Said'
  BY <1>1, <1>4 DEF Said
<1> QED
  BY <1>4, <1>6, <1>7, <1>8 DEF Inv, Parted

LEMMA SendDamagedInv ==
  ASSUME CrcFits, Inv, NEW m \in Messages, SendDamaged(m)
  PROVE  Inv'
<1>1. m \in Message /\ Valid(m) /\ Len(Cells(m)) <= MaxPayload
  BY WireAssumption DEF SendDamaged, Sendable
<1>2. Cells(m) \in Seq(Cell)
  BY <1>1, MessageRestored
<1>3. m.type \in DOMAIN TypeCode
  BY <1>1 DEF Message, Hellos, HelloAcks, SensorFrames, RouteChunks,
     Commands, Estimates, Healths, Heartbeats, Errors, SafeStops, TypeCode
<1>4. PICK i \in DOMAIN Cells(m), v \in Garbage :
        /\ message' = Refused
        /\ sent' = [type |-> m.type, seq |-> 0, step |-> 0,
                    payload |-> ReplaceAt(Cells(m), i, v)]
  BY DEF SendDamaged
<1>5. /\ flight' = Frame(sent') /\ intact' = apart
      /\ got' = {} /\ parser' = parser /\ apart' = apart
  BY DEF SendDamaged
<1>6. sent' \in Packet
  <2>1. v \in Cell
    BY WireAssumption
  <2> DEFINE c == ReplaceAt(Cells(m), i, v)
  <2>2. c \in Seq(Cell) /\ Len(c) <= MaxPayload
    BY <1>1, <1>2, <2>1, ReplacedCells
  <2> HIDE DEF c
  <2>3. sent' = [type |-> m.type, seq |-> 0, step |-> 0, payload |-> c]
    BY <1>4 DEF c
  <2> QED
    BY <1>3, <2>2, <2>3 DEF Packet
<1>7. flight' \in Seq(Cell) /\ Underway'
  BY <1>5, <1>6, SetsOut DEF Inv
<1>8. TypeOK'
  BY <1>5, <1>6, <1>7 DEF Inv, TypeOK
<1>9. Said'
  BY <1>4 DEF Said, Refused
<1> QED
  BY <1>5, <1>7, <1>8, <1>9 DEF Inv, Parted

LEMMA DisturbInv ==
  ASSUME Inv, Disturb
  PROVE  Inv'
<1>1. flight' \in Seq(Cell)
  BY TouchedCells DEF Inv, TypeOK, Disturb
<1>2. /\ ~intact' /\ intact' \in BOOLEAN
      /\ UNCHANGED <<parser, message, sent, apart, got>>
  BY DEF Disturb
<1> QED
  BY <1>1, <1>2 DEF Inv, TypeOK, Parted, Said, Underway

LEMMA ReadInv ==
  ASSUME Inv, NEW size \in ReadSizes, Read(size)
  PROVE  Inv'
<1> DEFINE l == Len(flight)
           n == IF size < l THEN size ELSE l
           bytes == SubSeq(flight, 1, n)
           rest == SubSeq(flight, n + 1, l)
           fed == Fed(parser, bytes)
<1>1. /\ l \in Nat /\ l > 0 /\ size \in Nat \ {0} /\ flight \in Seq(Cell)
      /\ IsCells(flight, l) /\ parser \in ParserState
  BY LenProperties, WireAssumption DEF Inv, TypeOK, Read, IsCells
<1>2. /\ parser' = fed.parser /\ got' = got \cup fed.packets
      /\ flight' = rest /\ apart' = (flight[n] = 0)
      /\ UNCHANGED <<message, sent, intact>>
  BY DEF Read
<1> HIDE DEF l
<1>3. n \in Nat /\ n > 0 /\ n <= l
  BY <1>1
<1> HIDE DEF n
<1>4. IsPart(bytes, flight, 0, n) /\ IsPart(rest, flight, n, l - n)
  <2>1. IsPart(SubSeq(flight, 0 + 1, n), flight, 0, n - 0)
    BY <1>1, <1>3, Part
  <2>2. IsPart(rest, flight, n, l - n)
    BY <1>1, <1>3, Part
  <2>3. 0 + 1 = 1 /\ n - 0 = n
    BY <1>3
  <2> QED
    BY <2>1, <2>2, <2>3
<1> HIDE DEF bytes, rest
<1>5. bytes \in Seq(Cell) /\ Len(bytes) = n /\ rest \in Seq(Cell)
  BY <1>4 DEF IsPart, IsCells
<1>6. bytes[n] = flight[n]
  <2>1. n \in 1 .. n /\ 0 + n = n
    BY <1>3
  <2> QED
    BY <1>4, <2>1 DEF IsPart, Holds
<1>7. /\ fed \in FedState
      /\ bytes[n] = 0 => fed.parser = Emptied
  BY <1>1, <1>3, <1>5, FedIs
<1>8. TypeOK'
  BY <1>2, <1>5, <1>7 DEF Inv, TypeOK, FedState
<1>9. Parted' /\ Said'
  BY <1>2, <1>6, <1>7 DEF Inv, Parted, Said
<1>10. ASSUME intact PROVE Underway'
  <2>0. PICK F : F = Frame(sent)
    OBVIOUS
  <2>1. PICK N \in Nat :
          IsFrame(F, N, sent) /\ \E k \in 0 .. N : Midway(F, N, k)
    BY <2>0, <1>10 DEF Inv, Underway
  <2>2. PICK k \in 0 .. N : Midway(F, N, k)
    BY <2>1
  <2>3. IsPart(flight, F, k, N - k) /\ l = N - k /\ k \in Nat
    BY <2>2 DEF Midway, IsPart, IsCells, l
  <2>4. k # N /\ got = {} /\ parser = Partway(F, k)
    BY <1>1, <2>2, <2>3 DEF Midway
  <2>5. /\ k + n \in 0 .. N /\ k + n <= N /\ 0 + n <= N - k
        /\ n + (l - n) <= N - k
        /\ l - n \in Nat /\ N - k \in Nat /\ k + 0 = k /\ l - n = N - (k + n)
    BY <1>1, <1>3, <2>3
  <2>6. IsPart(bytes, F, k + 0, n)
    BY <1>3, <1>4, <2>3, <2>5, PartOfPart
  <2>7. IsPart(rest, F, k + n, l - n)
    BY <1>3, <1>4, <2>3, <2>5, PartOfPart
  <2>8. UpTo(fed, F, N, sent, k + n)
    <3>1. UpTo(Fed(Partway(F, k), bytes), F, N, sent, k + n)
      <4>1. IsPart(bytes, F, k, n)
        BY <2>5, <2>6
      <4> QED
        BY <1>3, <2>1, <2>3, <2>5, <4>1, FedOn
    <3> QED
      BY <2>4, <3>1
  <2> HIDE DEF fed
  <2>9. PICK j : j = k + n
    OBVIOUS
  <2>10. /\ j \in 0 .. N /\ IsPart(flight', F, j, N - j)
         /\ UpTo(fed, F, N, sent, j)
    BY <1>2, <2>5, <2>7, <2>8, <2>9
  <2>11. CASE j = N
    <3>1. got' = {sent'}
      BY <1>2, <2>4, <2>10, <2>11 DEF UpTo
    <3>2. Midway(F, N, j)'
      BY <2>10, <2>11, <3>1 DEF Midway
    <3> QED
      BY <1>2, <2>0, <2>1, <2>10, <3>2 DEF Underway
  <2>12. CASE j # N
    <3>1. got' = {} /\ parser' = Partway(F, j)
      BY <1>2, <2>4, <2>10, <2>12 DEF UpTo
    <3>2. Midway(F, N, j)'
      BY <2>10, <2>12, <3>1 DEF Midway
    <3> QED
      BY <1>2, <2>0, <2>1, <2>10, <3>2 DEF Underway
  <2> QED
    BY <2>11, <2>12
<1>11. Underway'
  BY <1>2, <1>10 DEF Underway
<1> QED
  BY <1>8, <1>9, <1>11 DEF Inv

LEMMA ResetInv ==
  ASSUME Inv, Reset
  PROVE  Inv'
<1>1. /\ parser' = Emptied /\ apart' = TRUE
      /\ intact' = (intact /\ parser.encoded = <<>>)
      /\ UNCHANGED <<flight, message, sent, got>>
  BY DEF Reset
<1>2. Emptied \in ParserState
  BY DEF Emptied, ParserState
<1>3. TypeOK'
  BY <1>1, <1>2 DEF Inv, TypeOK
<1>4. Parted' /\ Said'
  BY <1>1 DEF Inv, Parted, Said
<1>5. ASSUME intact, parser.encoded = <<>> PROVE Underway'
  <2>0. PICK F : F = Frame(sent)
    OBVIOUS
  <2>1. PICK N \in Nat :
          IsFrame(F, N, sent) /\ \E k \in 0 .. N : Midway(F, N, k)
    BY <2>0, <1>5 DEF Inv, Underway
  <2>2. PICK k \in 0 .. N : Midway(F, N, k)
    BY <2>1
  <2>3. Midway(F, N, k)'
    <3>1. CASE k = N
      BY <1>1, <2>2, <3>1 DEF Midway
    <3>2. CASE k # N
      <4>1. parser = Partway(F, k)
        BY <2>2, <3>2 DEF Midway
      <4>2. parser = Emptied
        BY <1>5, <4>1 DEF Partway, Emptied
      <4> QED
        BY <1>1, <2>2, <4>2 DEF Midway
    <3> QED
      BY <3>1, <3>2
  <2> QED
    BY <1>1, <2>0, <2>1, <2>3 DEF Underway
<1>6. Underway'
  BY <1>1, <1>5 DEF Underway
<1> QED
  BY <1>3, <1>4, <1>6 DEF Inv

(* The invariant holds: a frame is where the parser and the flight say.    *)
THEOREM Inductive ==
  ASSUME CrcFits
  PROVE  Spec => []Inv
<1>1. Init => Inv
  BY InitInv
<1>2. Inv /\ [Next]_vars => Inv'
  <2> SUFFICES ASSUME Inv, [Next]_vars PROVE Inv'
    OBVIOUS
  <2>1. ASSUME NEW m \in Messages, Send(m) PROVE Inv'
    BY <2>1, SendInv
  <2>2. ASSUME NEW m \in Messages, SendDamaged(m) PROVE Inv'
    BY <2>2, SendDamagedInv
  <2>3. CASE Disturb
    BY <2>3, DisturbInv
  <2>4. ASSUME NEW size \in ReadSizes, Read(size) PROVE Inv'
    BY <2>4, ReadInv
  <2>5. CASE Reset
    BY <2>5, ResetInv
  <2>6. CASE UNCHANGED vars
    BY <2>6 DEF vars, Inv, TypeOK, Parted, Said, Underway, Midway
  <2> QED
    BY <2>1, <2>2, <2>3, <2>4, <2>5, <2>6 DEF Next
<1> QED
  BY <1>1, <1>2, PTL DEF Spec

(* A frame that arrives untouched after a delimiter is received as sent,   *)
(* whatever noise left in the parser before and however the stream is cut  *)
(* into reads.                                                             *)
THEOREM CleanFrames ==
  ASSUME CrcFits
  PROVE  Spec => []CleanFrameArrives
<1>1. Inv => CleanFrameArrives
  <2> SUFFICES ASSUME Inv, flight = <<>>, intact PROVE got = {sent}
    BY DEF CleanFrameArrives
  <2>0. PICK F : F = Frame(sent)
    OBVIOUS
  <2>1. PICK N \in Nat :
          IsFrame(F, N, sent) /\ \E k \in 0 .. N : Midway(F, N, k)
    BY <2>0 DEF Inv, Underway
  <2>2. PICK k \in 0 .. N : Midway(F, N, k)
    BY <2>1
  <2>3. Len(flight) = N - k /\ Len(<<>>) = 0
    BY <2>2 DEF Midway, IsPart, IsCells
  <2>4. k = N
    BY <2>3
  <2> QED
    BY <2>2, <2>4 DEF Midway
<1> QED
  BY <1>1, Inductive, PTL

(* What the encoder accepts, the decoder of the other end accepts too, and *)
(* restores every field of it.                                             *)
THEOREM MessagesSurvive ==
  ASSUME CrcFits
  PROVE  Spec => []MessageSurvives
<1>1. Inv /\ CleanFrameArrives => MessageSurvives
  <2> SUFFICES ASSUME Inv, CleanFrameArrives, flight = <<>>, intact,
                      message.type # "Refused", NEW p \in got
               PROVE  Decoded(p.type, p.payload) = message
    BY DEF MessageSurvives
  <2>1. p = sent
    BY DEF CleanFrameArrives
  <2>2. /\ message \in Message /\ Valid(message)
        /\ sent.type = message.type /\ sent.payload = Cells(message)
    BY DEF Inv, Said
  <2>3. Decoded(message.type, Cells(message)) = message
    BY <2>2, MessageRestored
  <2> QED
    BY <2>1, <2>2, <2>3
<1> QED
  BY <1>1, Inductive, CleanFrames, PTL

LEMMA HeardIs ==
  ASSUME NEW p \in Heard
  PROVE  p.type \in DOMAIN TypeCode /\ p.payload \in Seq(Cell)
<1>1. PICK e \in Seq(Cell) : p \in PacketsOf(e)
  BY DEF Heard
<1> DEFINE raw == CobsDecoded(e).bytes
           c == SubSeq(raw, HeaderSize + 1, Len(raw) - CrcSize)
<1>2. RawIntact(raw) /\ p.payload = c /\ p.type \in DOMAIN TypeCode
  <2>1. PacketsOf(e) =
          IF ~CobsDecoded(e).ok \/ ~RawIntact(raw) THEN {}
          ELSE {[type |-> t, seq |-> raw[4], step |-> raw[5], payload |-> c] :
                 t \in {u \in TypesOf(raw[2]) :
                          raw[1] = Version /\ raw[3] = Len(c)}}
    BY Zenon DEF PacketsOf
  <2> HIDE DEF c
  <2>2. RawIntact(raw)
    BY <1>1, <2>1
  <2> HIDE DEF raw
  <2>3. PICK t \in TypesOf(raw[2]) :
          p = [type |-> t, seq |-> raw[4], step |-> raw[5], payload |-> c]
    BY <1>1, <2>1
  <2> QED
    BY <2>2, <2>3 DEF TypesOf
<1>3. raw \in Seq(Cell)
  BY UncobsCells
<1> HIDE DEF raw
<1>4. Len(raw) \in Nat /\ Len(raw) >= 7
  BY <1>2, <1>3, Bytes, LenProperties
     DEF RawIntact, HeaderSize, CrcSize, MaxRaw
<1>5. c \in Seq(Cell)
  <2>1. IsCells(raw, Len(raw))
    BY <1>3 DEF IsCells
  <2> DEFINE l == Len(raw)
             to == l - CrcSize
  <2>2. HeaderSize \in Nat /\ to \in Nat /\ HeaderSize <= to /\ to <= l
    BY <1>4 DEF HeaderSize, CrcSize
  <2>3. IsPart(SubSeq(raw, HeaderSize + 1, to), raw, HeaderSize,
               to - HeaderSize)
    BY <1>4, <2>1, <2>2, Part
  <2> QED
    BY <2>3 DEF IsPart, IsCells
<1> QED
  BY <1>2, <1>5

(* What is taken for a message is, to the byte, what that message is       *)
(* encoded to, but for the reserved bytes of a heartbeat.                  *)
THEOREM OneMeaning ==
  ASSUME CrcFits
  PROVE  Spec => []OneEncoding
<1>1. Inv => OneEncoding
  <2> SUFFICES ASSUME Inv, NEW p \in got,
                      Decoded(p.type, p.payload).type
                        \notin {"Refused", "Heartbeat"}
               PROVE  Cells(Decoded(p.type, p.payload)) = p.payload
    BY DEF OneEncoding
  <2>1. p \in Heard
    BY DEF Inv, TypeOK
  <2>2. p.type \in DOMAIN TypeCode /\ p.payload \in Seq(Cell)
    BY <2>1, HeardIs
  <2> QED
    BY <2>2, PayloadHasOneMeaning
<1> QED
  BY <1>1, Inductive, PTL
=============================================================================
