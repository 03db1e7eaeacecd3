------------------------- MODULE RenderedFileProofs -------------------------
(***************************************************************************)
(* Theorems about RenderedFile, for every table, every length of texts,    *)
(* every encoding of a length and every sealed file: the deduplication     *)
(* keeps the last row of each key, in order, and the loader reads back     *)
(* what was kept.                                                          *)
(***************************************************************************)
EXTENDS RenderedFile, TLAPS, WellFoundedInduction, SequenceTheorems

(***************************************************************************)
(* A set of numbers has a least one, and one that has 0 and with each m    *)
(* below n also m + 1 has them all up to n.                                *)
(***************************************************************************)
LEMMA LeastNumber ==
  ASSUME NEW T \in SUBSET Nat, T # {}
  PROVE  \E m \in T : \A n \in T : m <= n
<1> DEFINE less == OpToRel(<, Nat)
<1>1. IsWellFoundedOn(less, Nat)
  BY NatLessThanWellFounded
<1>2. PICK m \in T : \A n \in T : <<n, m>> \notin less
  BY <1>1, WFMin
<1>3. \A n \in T : ~(n < m)
  BY <1>2 DEF OpToRel
<1> QED BY <1>3

LEMMA UpTo ==
  ASSUME NEW n \in Nat, NEW T, 0 \in T, \A m \in 0..n - 1 : m \in T => m + 1 \in T
  PROVE  0..n \subseteq T
<1> DEFINE rest == (0..n) \ T
<1> SUFFICES ASSUME rest # {} PROVE FALSE
  OBVIOUS
<1>0. rest \in SUBSET Nat
  OBVIOUS
<1>1. PICK m \in rest : \A i \in rest : m <= i
  <2> HIDE DEF rest
  <2> QED BY <1>0, LeastNumber
<1>2. m \in 0..n /\ m # 0
  BY <1>1
<1>3. m - 1 \in 0..n - 1 /\ m - 1 \in 0..n /\ (m - 1) + 1 = m
  BY <1>2
<1>4. m - 1 \notin rest
  BY <1>1, <1>3
<1> QED BY <1>1, <1>3, <1>4

-----------------------------------------------------------------------------
(***************************************************************************)
(* What a cell adds to a key.                                              *)
(***************************************************************************)
Byte == Char \cup {NullTag, ValueTag, Separator} \cup {Length[n] : n \in 0..MaxText}

LEMMA CellFields ==
  ASSUME NEW cell \in CellValue, cell # Null
  PROVE  /\ Len(cell) = 1 /\ cell = <<cell[1]>>
         /\ cell[1] \in Seq(Char) /\ Len(cell[1]) \in 0..MaxText
<1>1. cell \in Seq(Text)
  BY DEF CellValue
<1>0. Len(cell) \in Nat
  BY <1>1, LenProperties
<1>2. Len(cell) = 1
  <2>1. cell # << >>
    BY DEF Null
  <2>2. Len(cell) # 0
    BY <1>1, <2>1, EmptySeq
  <2>3. Len(cell) <= 1
    BY DEF CellValue
  <2>4. \A n \in Nat : n # 0 /\ n <= 1 => n = 1
    OBVIOUS
  <2> QED BY <1>0, <2>2, <2>3, <2>4
<1>3. cell[1] \in Text /\ cell = <<cell[1]>>
  BY <1>1, <1>2
<1>4. cell[1] \in Seq(Char) /\ Len(cell[1]) <= MaxText /\ Len(cell[1]) \in Nat /\ MaxText \in Nat
  BY <1>3, LenProperties, TextAssumption DEF Text
<1> QED BY <1>2, <1>3, <1>4

LEMMA BytesOfNull ==
  /\ CellBytes(Null) \in Seq(Byte)
  /\ Len(CellBytes(Null)) = 1 /\ CellBytes(Null)[1] = NullTag
BY DEF CellBytes, Byte

LEMMA BytesOfText ==
  ASSUME NEW cell \in CellValue, cell # Null
  PROVE  /\ CellBytes(cell) \in Seq(Byte)
         /\ Len(CellBytes(cell)) = Len(cell[1]) + 3
         /\ CellBytes(cell)[1] = ValueTag
         /\ CellBytes(cell)[2] = Length[Len(cell[1])]
         /\ \A i \in 1..Len(cell[1]) : CellBytes(cell)[i + 2] = cell[1][i]
<1> DEFINE t == cell[1]
           n == Len(t)
           front == <<Length[n]>>
           body == front \o t
           back == <<Separator>>
<1>1. t \in Seq(Char) /\ n \in 0..MaxText /\ n \in Nat /\ Char \subseteq Byte
  BY CellFields, LenProperties DEF Byte
<1>2. t \in Seq(Byte)
  BY <1>1
<1>3. <<ValueTag>> \in Seq(Byte) /\ front \in Seq(Byte) /\ back \in Seq(Byte)
  BY <1>1 DEF Byte
<1>4. CellBytes(cell) = (<<ValueTag>> \o body) \o back
  BY DEF CellBytes, append_value_bytes
<1> HIDE DEF t, n
<1>5. /\ body \in Seq(Byte) /\ Len(body) = n + 1 /\ body[1] = Length[n]
      /\ \A i \in 1..n : body[i + 1] = t[i]
  BY <1>1, <1>2, <1>3 DEF n
<1> HIDE DEF body
<1>6. /\ <<ValueTag>> \o body \in Seq(Byte)
      /\ Len(<<ValueTag>> \o body) = n + 2
      /\ (<<ValueTag>> \o body)[1] = ValueTag
      /\ \A i \in 1..n + 1 : (<<ValueTag>> \o body)[i + 1] = body[i]
  BY <1>1, <1>3, <1>5
<1> DEFINE long == <<ValueTag>> \o body
<1> HIDE DEF long
<1>7. /\ long \o back \in Seq(Byte)
      /\ Len(long \o back) = n + 3
      /\ \A i \in 1..n + 2 : (long \o back)[i] = long[i]
  BY <1>1, <1>3, <1>6 DEF long
<1>8. /\ long[1] = ValueTag /\ long[2] = Length[n]
      /\ \A i \in 1..n : long[i + 2] = t[i]
  <2>1. long[2] = body[1]
    <3>1. 1 \in 1..n + 1 /\ 1 + 1 = 2
      BY <1>1
    <3>2. long[1 + 1] = body[1]
      BY <1>6, <3>1 DEF long
    <3> QED BY <3>1, <3>2
  <2>2. ASSUME NEW i \in 1..n PROVE long[i + 2] = t[i]
    <3>1. i + 1 \in 1..n + 1 /\ (i + 1) + 1 = i + 2
      BY <1>1
    <3>2. long[(i + 1) + 1] = body[i + 1]
      BY <1>6, <3>1 DEF long
    <3>3. i \in 1..n /\ body[i + 1] = t[i]
      BY <1>5
    <3> QED BY <3>1, <3>2, <3>3
  <2> QED BY <1>5, <1>6, <2>1, <2>2 DEF long
<1>9. CellBytes(cell) = long \o back
  BY <1>4 DEF long
<1>10. 1 \in 1..n + 2 /\ 2 \in 1..n + 2 /\ \A i \in 1..n : i + 2 \in 1..n + 2
  BY <1>1
<1> QED BY <1>7, <1>8, <1>9, <1>10 DEF n, t

LEMMA BytesType ==
  ASSUME NEW cell \in CellValue
  PROVE  CellBytes(cell) \in Seq(Byte) /\ Len(CellBytes(cell)) \in Nat
BY BytesOfNull, BytesOfText, LenProperties

\* The bytes of cell stand in k behind s.
Spells(k, s, cell) == \A i \in 1..Len(CellBytes(cell)) : k[s + i] = CellBytes(cell)[i]

(***************************************************************************)
(* No cell's bytes begin with those of another: a tag tells NULL from a    *)
(* text, and the length in front of a text says where it ends, whatever    *)
(* bytes it holds.                                                         *)
(***************************************************************************)
LEMMA CellIsUnambiguous ==
  ASSUME NEW cell \in CellValue, NEW other \in CellValue, NEW k, NEW s \in Nat,
         Spells(k, s, cell), Spells(k, s, other)
  PROVE  cell = other
<1>1. NullTag # ValueTag
  BY DEF NullTag, ValueTag
<1>2. ASSUME NEW c \in CellValue, Spells(k, s, c)
      PROVE  /\ c = Null => k[s + 1] = NullTag
             /\ c # Null => /\ k[s + 1] = ValueTag /\ k[s + 2] = Length[Len(c[1])]
                            /\ \A i \in 1..Len(c[1]) : k[s + (i + 2)] = c[1][i]
  <2>1. CASE c = Null
    BY <1>2, <2>1, BytesOfNull DEF Spells
  <2>2. CASE c # Null
    <3>1. Len(c[1]) \in Nat
      BY <2>2, CellFields
    <3>2. \A i \in 1..Len(c[1]) + 3 : k[s + i] = CellBytes(c)[i]
      BY <1>2, <2>2, BytesOfText DEF Spells
    <3>3. 1 \in 1..Len(c[1]) + 3 /\ 2 \in 1..Len(c[1]) + 3
          /\ \A i \in 1..Len(c[1]) : i + 2 \in 1..Len(c[1]) + 3
      BY <3>1
    <3> QED BY <2>2, <3>2, <3>3, BytesOfText
  <2> QED BY <2>1, <2>2
<1>3. (cell = Null) <=> (other = Null)
  BY <1>1, <1>2
<1>4. CASE cell # Null
  <2>1. other # Null
    BY <1>3, <1>4
  <2>2. Len(cell[1]) \in 0..MaxText /\ Len(other[1]) \in 0..MaxText
        /\ cell[1] \in Seq(Char) /\ other[1] \in Seq(Char)
        /\ cell = <<cell[1]>> /\ other = <<other[1]>>
    BY <1>4, <2>1, CellFields
  <2>3. Len(cell[1]) = Len(other[1])
    <3>1. Length[Len(cell[1])] = k[s + 2] /\ Length[Len(other[1])] = k[s + 2]
      BY <1>2, <1>4, <2>1
    <3>2. Length[Len(cell[1])] = Length[Len(other[1])]
      BY <3>1
    <3> QED BY <2>2, <3>2, TextAssumption
  <2>4. \A i \in 1..Len(cell[1]) : cell[1][i] = other[1][i]
    BY <1>2, <1>4, <2>1, <2>3
  <2>5. cell[1] = other[1]
    BY <2>2, <2>3, <2>4, SeqEqual
  <2> QED BY <2>2, <2>5
<1> QED BY <1>3, <1>4

-----------------------------------------------------------------------------
(***************************************************************************)
(* What a key says of the cells of a row's primary key: off[c] bytes of it *)
(* are spent on the first c of them.                                       *)
(***************************************************************************)
KeyCells == [1..Len(PkColumns) -> CellValue]

SpelledAt(off, k, row, n) ==
  /\ off \in [0..n -> 0..Len(k)]
  /\ off[0] = 0 /\ off[n] = Len(k)
  /\ \A c \in 1..n : /\ off[c] = off[c - 1] + Len(CellBytes(row[c]))
                     /\ Spells(k, off[c - 1], row[c])

Spelled(k, row, n) == \E off : SpelledAt(off, k, row, n)

LEMMA KeyTypes ==
  /\ Len(PkColumns) \in Nat
  /\ \A c \in 1..Len(PkColumns) : PkColumns[c] \in 1..Len(Names)
  /\ \A row \in Row : KeyOf(row) \in KeyCells
<1>1. Len(PkColumns) \in Nat /\ \A c \in 1..Len(PkColumns) : PkColumns[c] \in 1..Len(Names)
  BY LenProperties, TableAssumption
<1> QED BY <1>1 DEF KeyOf, KeyCells, Row

LEMMA NothingSpelled == \A row : Spelled(<< >>, row, 0)
<1> TAKE row
<1> DEFINE off == [c \in 0..0 |-> 0]
<1>1. Len(<< >>) = 0 /\ off \in [0..0 -> 0..0] /\ off[0] = 0 /\ \A c \in 1..0 : FALSE
  OBVIOUS
<1> HIDE DEF off
<1>2. SpelledAt(off, << >>, row, 0)
  BY <1>1 DEF SpelledAt
<1> QED BY <1>2 DEF Spelled

LEMMA CellIsSpelled ==
  ASSUME NEW k \in Seq(Byte), NEW row \in KeyCells, NEW n \in 0..Len(PkColumns) - 1, Spelled(k, row, n)
  PROVE  /\ k \o CellBytes(row[n + 1]) \in Seq(Byte)
         /\ Spelled(k \o CellBytes(row[n + 1]), row, n + 1)
<1> DEFINE new == CellBytes(row[n + 1])
           long == k \o new
<1>1. n \in Nat /\ n + 1 \in 1..Len(PkColumns) /\ row[n + 1] \in CellValue
  BY LenProperties, KeyTypes DEF KeyCells
<1>2. new \in Seq(Byte) /\ Len(new) \in Nat /\ Len(k) \in Nat
  BY <1>1, BytesType, LenProperties
<1> HIDE DEF new
<1>3. /\ long \in Seq(Byte) /\ Len(long) = Len(k) + Len(new)
      /\ \A i \in 1..Len(long) : long[i] = IF i <= Len(k) THEN k[i] ELSE new[i - Len(k)]
  BY <1>2, ConcatProperties
<1> HIDE DEF long
<1>4. PICK off : SpelledAt(off, k, row, n)
  BY DEF Spelled
<1> DEFINE next == [c \in 0..n + 1 |-> IF c <= n THEN off[c] ELSE Len(long)]
<1>5. /\ off \in [0..n -> 0..Len(k)] /\ off[0] = 0 /\ off[n] = Len(k)
      /\ \A c \in 1..n : off[c] = off[c - 1] + Len(CellBytes(row[c])) /\ Spells(k, off[c - 1], row[c])
  BY <1>4 DEF SpelledAt
<1>6. /\ next \in [0..n + 1 -> 0..Len(long)] /\ next[0] = 0 /\ next[n + 1] = Len(long)
      /\ \A c \in 0..n : next[c] = off[c] /\ off[c] \in 0..Len(k)
  BY <1>1, <1>2, <1>3, <1>5
<1> HIDE DEF next
<1>7. ASSUME NEW c \in 1..n + 1
      PROVE  /\ next[c] = next[c - 1] + Len(CellBytes(row[c]))
             /\ Spells(long, next[c - 1], row[c])
  <2>1. CASE c \in 1..n
    <3>1. c - 1 \in 0..n /\ c \in 0..n /\ c \in 1..Len(PkColumns) /\ row[c] \in CellValue
      BY <1>1, <2>1, LenProperties, KeyTypes DEF KeyCells
    <3>2. next[c] = off[c] /\ next[c - 1] = off[c - 1] /\ off[c] \in 0..Len(k) /\ off[c - 1] \in 0..Len(k)
      BY <1>6, <3>1
    <3>3. off[c] = off[c - 1] + Len(CellBytes(row[c])) /\ Spells(k, off[c - 1], row[c])
      BY <1>5, <2>1
    <3>4. Len(CellBytes(row[c])) \in Nat
      BY <3>1, BytesType
    <3>5. ASSUME NEW i \in 1..Len(CellBytes(row[c])) PROVE long[off[c - 1] + i] = CellBytes(row[c])[i]
      <4>1. off[c - 1] + i \in 1..Len(long) /\ off[c - 1] + i <= Len(k)
        BY <1>2, <1>3, <3>2, <3>3, <3>4
      <4>2. long[off[c - 1] + i] = k[off[c - 1] + i]
        BY <1>3, <4>1
      <4> QED BY <3>3, <4>2 DEF Spells
    <3> QED BY <3>2, <3>3, <3>5 DEF Spells
  <2>2. CASE c = n + 1
    <3>1. c - 1 = n /\ n \in 0..n
      BY <1>1, <2>2
    <3>2. next[c - 1] = Len(k) /\ next[c] = Len(long) /\ CellBytes(row[c]) = new
      BY <1>5, <1>6, <2>2, <3>1 DEF new
    <3>3. ASSUME NEW i \in 1..Len(new) PROVE long[Len(k) + i] = new[i]
      <4>1. Len(k) + i \in 1..Len(long) /\ ~(Len(k) + i <= Len(k)) /\ (Len(k) + i) - Len(k) = i
        BY <1>2, <1>3
      <4> QED BY <1>3, <4>1
    <3> QED BY <1>3, <3>2, <3>3 DEF Spells
  <2> QED BY <1>1, <2>1, <2>2
<1>8. SpelledAt(next, long, row, n + 1)
  BY <1>6, <1>7 DEF SpelledAt
<1> QED BY <1>3, <1>8 DEF Spelled, long, new

(***************************************************************************)
(* Two rows with the same first n cells have the same key.                 *)
(***************************************************************************)
LEMMA SameCellsSameKey ==
  ASSUME NEW k \in Seq(Byte), NEW l \in Seq(Byte), NEW r \in KeyCells, NEW q \in KeyCells,
         NEW n \in 0..Len(PkColumns), Spelled(k, r, n), Spelled(l, q, n), \A c \in 1..n : r[c] = q[c]
  PROVE  k = l
<1>1. n \in Nat /\ Len(k) \in Nat /\ Len(l) \in Nat
  BY LenProperties, KeyTypes
<1>2. PICK off : SpelledAt(off, k, r, n)
  BY DEF Spelled
<1>3. PICK woff : SpelledAt(woff, l, q, n)
  BY DEF Spelled
<1>4. ASSUME NEW c \in 1..n
      PROVE  /\ r[c] \in CellValue /\ q[c] = r[c] /\ Len(CellBytes(r[c])) \in Nat
             /\ off[c] = off[c - 1] + Len(CellBytes(r[c])) /\ Spells(k, off[c - 1], r[c])
             /\ woff[c] = woff[c - 1] + Len(CellBytes(r[c])) /\ Spells(l, woff[c - 1], r[c])
  <2>1. c \in 1..Len(PkColumns)
    BY LenProperties, KeyTypes
  <2>2. r[c] \in CellValue
    BY <2>1 DEF KeyCells
  <2>3. Len(CellBytes(r[c])) \in Nat
    BY <2>2, BytesType
  <2> QED BY <1>2, <1>3, <2>2, <2>3 DEF SpelledAt
<1>5. \A c \in 0..n : off[c] = woff[c]
  <2> DEFINE T == {c \in 0..n : off[c] = woff[c]}
  <2>1. 0 \in T
    BY <1>1, <1>2, <1>3 DEF SpelledAt
  <2>2. ASSUME NEW c \in 0..n - 1, c \in T PROVE c + 1 \in T
    <3>1. c + 1 \in 1..n /\ c + 1 \in 0..n /\ (c + 1) - 1 = c
      BY <1>1
    <3> QED BY <1>4, <2>2, <3>1
  <2> HIDE DEF T
  <2>3. 0..n \subseteq T
    BY <1>1, <2>1, <2>2, UpTo
  <2> QED BY <2>3 DEF T
<1>6. Len(k) = Len(l)
  <2>1. n \in 0..n
    BY <1>1
  <2> QED BY <1>2, <1>3, <1>5, <2>1 DEF SpelledAt
<1>7. ASSUME NEW j \in 1..Len(k) PROVE k[j] = l[j]
  <2> DEFINE T == {c \in 0..n : j <= off[c]}
  <2>1. off \in [0..n -> 0..Len(k)] /\ off[0] = 0 /\ off[n] = Len(k)
    BY <1>2 DEF SpelledAt
  <2>2. T \in SUBSET Nat /\ n \in T
    BY <1>1, <2>1
  <2>3. PICK c \in T : \A d \in T : c <= d
    <3> HIDE DEF T
    <3> QED BY <2>2, LeastNumber
  <2>4. c \in 1..n /\ c - 1 \in 0..n
    BY <1>1, <2>1, <2>3
  <2>5. off[c - 1] \in Nat /\ off[c - 1] < j /\ j <= off[c]
    <3>1. off[c - 1] \in 0..Len(k)
      BY <2>1, <2>4
    <3>2. c - 1 \notin T
      BY <1>1, <2>3, <2>4
    <3> QED BY <1>1, <2>3, <2>4, <3>1, <3>2
  <2> DEFINE i == j - off[c - 1]
  <2>6. i \in 1..Len(CellBytes(r[c])) /\ off[c - 1] + i = j
    <3>1. off[c] = off[c - 1] + Len(CellBytes(r[c])) /\ Len(CellBytes(r[c])) \in Nat
      BY <1>4, <2>4
    <3> QED BY <1>1, <2>5, <3>1
  <2>7. k[off[c - 1] + i] = CellBytes(r[c])[i] /\ l[off[c - 1] + i] = CellBytes(r[c])[i]
    <3>1. Spells(k, off[c - 1], r[c]) /\ Spells(l, woff[c - 1], r[c]) /\ woff[c - 1] = off[c - 1]
      BY <1>4, <1>5, <2>4
    <3> HIDE DEF i
    <3> QED BY <2>6, <3>1 DEF Spells
  <2> QED BY <2>6, <2>7
<1> QED BY <1>6, <1>7, SeqEqual

(***************************************************************************)
(* A key says which cells it was made from: no two rows with different     *)
(* cells have the same one.                                                *)
(***************************************************************************)
LEMMA SameKeySameCells ==
  ASSUME NEW k \in Seq(Byte), NEW r \in KeyCells, NEW q \in KeyCells,
         NEW n \in 0..Len(PkColumns), Spelled(k, r, n), Spelled(k, q, n)
  PROVE  \A c \in 1..n : r[c] = q[c]
<1>1. n \in Nat /\ Len(k) \in Nat
  BY LenProperties, KeyTypes
<1>2. PICK off : SpelledAt(off, k, r, n)
  BY DEF Spelled
<1>3. PICK woff : SpelledAt(woff, k, q, n)
  BY DEF Spelled
<1> DEFINE Agree(c) == off[c] = woff[c] /\ (c # 0 => r[c] = q[c])
           T == {c \in 0..n : Agree(c)}
<1>4. 0 \in T
  BY <1>1, <1>2, <1>3 DEF SpelledAt
<1>5. ASSUME NEW c \in 0..n - 1, c \in T PROVE c + 1 \in T
  <2>1. c + 1 \in 1..n /\ c + 1 \in 0..n /\ (c + 1) - 1 = c /\ c \in 0..n
    BY <1>1
  <2>2. c + 1 \in 1..Len(PkColumns)
    BY <2>1, LenProperties, KeyTypes
  <2>3. r[c + 1] \in CellValue /\ q[c + 1] \in CellValue
    BY <2>2 DEF KeyCells
  <2>4. off[c] \in Nat /\ off[c] = woff[c]
    BY <1>1, <1>2, <1>5, <2>1 DEF SpelledAt
  <2>5. /\ off[c + 1] = off[c] + Len(CellBytes(r[c + 1])) /\ Spells(k, off[c], r[c + 1])
        /\ woff[c + 1] = off[c] + Len(CellBytes(q[c + 1])) /\ Spells(k, off[c], q[c + 1])
    BY <1>2, <1>3, <2>1, <2>4 DEF SpelledAt
  <2>6. r[c + 1] = q[c + 1]
    BY <2>3, <2>4, <2>5, CellIsUnambiguous
  <2>7. off[c + 1] = woff[c + 1]
    BY <2>5, <2>6
  <2> QED BY <2>1, <2>6, <2>7
<1> HIDE DEF T
<1>6. 0..n \subseteq T
  BY <1>1, <1>4, <1>5, UpTo
<1>7. \A c \in 1..n : c \in 0..n /\ c # 0
  BY <1>1
<1> QED BY <1>6, <1>7 DEF T

-----------------------------------------------------------------------------
(***************************************************************************)
(* The rows of a file and their order.                                     *)
(***************************************************************************)
Above0 == Nat \ {0}

LEMMA PositionFacts ==
  ASSUME batches \in Seq(Seq(Row))
  PROVE  \A p : p \in Positions <=>
           /\ p = <<p[1], p[2]>> /\ p[1] \in 1..Len(batches) /\ p[2] \in 1..Len(batches[p[1]])
<1> TAKE p
<1>1. p \in Positions <=> \E b \in 1..Len(batches) : \E i \in 1..Len(batches[b]) : p = <<b, i>>
  <2> DEFINE Part(b) == {<<b, i>> : i \in 1..Len(batches[b])}
  <2>1. \A b : p \in Part(b) <=> \E i \in 1..Len(batches[b]) : p = <<b, i>>
    OBVIOUS
  <2>2. Positions = UNION {Part(b) : b \in 1..Len(batches)}
    BY DEF Positions
  <2> HIDE DEF Part
  <2>3. p \in Positions <=> \E b \in 1..Len(batches) : p \in Part(b)
    BY <2>2
  <2> QED BY <2>1, <2>3
<1>2. \A b, i : p = <<b, i>> => p[1] = b /\ p[2] = i
  OBVIOUS
<1>3. ASSUME p \in Positions
      PROVE  p = <<p[1], p[2]>> /\ p[1] \in 1..Len(batches) /\ p[2] \in 1..Len(batches[p[1]])
  BY <1>1, <1>2, <1>3
<1> QED BY <1>1, <1>3

LEMMA PositionTypes ==
  ASSUME batches \in Seq(Seq(Row))
  PROVE  \A p \in Positions : p[1] \in Above0 /\ p[2] \in Above0 /\ p \in Above0 \X Above0 /\ RowAt(p) \in Row
<1> TAKE p \in Positions
<1>1. p = <<p[1], p[2]>> /\ p[1] \in 1..Len(batches) /\ p[2] \in 1..Len(batches[p[1]])
  BY PositionFacts
<1>2. batches[p[1]] \in Seq(Row)
  BY <1>1
<1>3. batches[p[1]][p[2]] \in Row
  BY <1>1, <1>2
<1>4. Len(batches) \in Nat /\ Len(batches[p[1]]) \in Nat
  BY <1>2, LenProperties
<1> QED BY <1>1, <1>3, <1>4 DEF RowAt, Above0

LEMMA BeforeOrder ==
  ASSUME NEW p \in Above0 \X Above0, NEW q \in Above0 \X Above0, NEW r \in Above0 \X Above0
  PROVE  /\ ~Before(p, p)
         /\ Before(p, q) \/ Before(q, p) \/ p = q
         /\ Before(p, q) /\ Before(q, r) => Before(p, r)
         /\ ~(Before(p, q) /\ Before(q, p))
BY DEF Before, Above0

-----------------------------------------------------------------------------
(***************************************************************************)
(* The loops of dedup_last_wins: every row up to pos is in the map under   *)
(* its own key, itself or a later version of it.                           *)
(***************************************************************************)
FileInv ==
  /\ batches \in Seq(Seq(Row)) /\ upsert \in BOOLEAN
  /\ stage \in {"dedup", "keep", "format", "rendered"}
  /\ pos \in Above0 \X Above0

KeyInv ==
  stage = "dedup" =>
    /\ AtRow => /\ col \in 1..Len(PkColumns) + 1 /\ key \in Seq(Byte)
                /\ Spelled(key, KeyOf(RowAt(pos)), col - 1)
    /\ ~AtRow => col = 1 /\ key = << >>

Entry(k) == /\ k \in Seq(Byte) /\ latest[k] \in Positions /\ Before(latest[k], pos)
            /\ Spelled(k, KeyOf(RowAt(latest[k])), Len(PkColumns))

Covered(p) == \E k \in DOMAIN latest : /\ Spelled(k, KeyOf(RowAt(p)), Len(PkColumns))
                                       /\ latest[k] = p \/ Before(p, latest[k])

LatestInv ==
  stage = "dedup" /\ upsert =>
    /\ \A k \in DOMAIN latest : Entry(k)
    /\ \A p \in Positions : Before(p, pos) => Covered(p)

DedupInv == FileInv /\ KeyInv /\ LatestInv

LEMMA AtRowFacts ==
  ASSUME FileInv, AtRow
  PROVE  /\ pos \in Positions /\ RowAt(pos) \in Row
         /\ pos = <<pos[1], pos[2]>> /\ pos[1] \in Above0 /\ pos[2] \in Above0
         /\ Len(batches) \in Nat /\ Len(batches[pos[1]]) \in Nat
<1>1. /\ batches \in Seq(Seq(Row)) /\ pos = <<pos[1], pos[2]>>
      /\ pos[1] \in Above0 /\ pos[2] \in Above0 /\ Len(batches) \in Nat
  BY LenProperties DEF FileInv
<1>2. pos[1] \in 1..Len(batches)
  BY <1>1 DEF AtRow, Above0
<1>3. batches[pos[1]] \in Seq(Row)
  BY <1>1, <1>2
<1>4. Len(batches[pos[1]]) \in Nat
  BY <1>3, LenProperties
<1>5. pos[2] \in 1..Len(batches[pos[1]])
  BY <1>1, <1>4 DEF AtRow, Above0
<1>6. pos \in Positions
  BY <1>1, <1>2, <1>5, PositionFacts
<1> QED BY <1>1, <1>4, <1>6, PositionTypes

LEMMA DedupInit == Init => DedupInv
<1> SUFFICES ASSUME Init PROVE DedupInv
  OBVIOUS
<1>1. FileInv
  BY TableAssumption DEF Init, FileInv, Above0
<1>2. KeyInv
  <2>1. col = 1 /\ key = << >> /\ Len(PkColumns) \in Nat /\ key \in Seq(Byte)
    BY KeyTypes DEF Init
  <2>2. col - 1 = 0 /\ col \in 1..Len(PkColumns) + 1 /\ Spelled(key, KeyOf(RowAt(pos)), 0)
    BY <2>1, NothingSpelled
  <2> QED BY <2>1, <2>2 DEF KeyInv
<1>3. LatestInv
  <2>1. DOMAIN latest = {} /\ pos[1] = 1 /\ pos[2] = 1
    BY DEF Init
  <2>2. \A p \in Positions : ~Before(p, pos)
    BY <1>1, <2>1, PositionTypes DEF Before, Above0, FileInv
  <2> QED BY <2>1, <2>2 DEF LatestInv
<1> QED BY <1>1, <1>2, <1>3 DEF DedupInv

LEMMA SameFile ==
  ASSUME batches' = batches
  PROVE  /\ Positions' = Positions
         /\ \A p : (RowAt(p))' = RowAt(p) /\ KeyOf(RowAt(p))' = KeyOf(RowAt(p))
BY DEF Positions, RowAt, KeyOf

LEMMA pk_keyKeeps ==
  ASSUME DedupInv, pk_key
  PROVE  DedupInv'
<1> USE DEF DedupInv
<1>1. AtRow /\ stage = "dedup" /\ upsert
  BY DEF pk_key, AtRow
<1>2. FileInv'
  BY DEF FileInv, pk_key
<1>3. Len(PkColumns) \in Nat
  BY KeyTypes
<1>4. KeyInv'
  <2> DEFINE row == KeyOf(RowAt(pos))
  <2>1. row \in KeyCells /\ col \in 1..Len(PkColumns) /\ key \in Seq(Byte) /\ Spelled(key, row, col - 1)
    BY <1>1, <1>3, AtRowFacts, KeyTypes DEF KeyInv, pk_key
  <2>2. KeyOf(RowAt(pos))' = row
    BY DEF pk_key, RowAt, KeyOf
  <2>7. row[col] = RowAt(pos)[PkColumns[col]]
    BY <2>1 DEF KeyOf
  <2> HIDE DEF row
  <2>3. col - 1 \in 0..Len(PkColumns) - 1 /\ (col - 1) + 1 = col
    BY <1>3, <2>1
  <2>4. key' = key \o CellBytes(row[col]) /\ col' = col + 1
    BY <2>7 DEF pk_key
  <2>5. key' \in Seq(Byte) /\ Spelled(key', row, col)
    BY <2>1, <2>3, <2>4, CellIsSpelled
  <2>6. AtRow' /\ col' - 1 = col /\ col' \in 1..Len(PkColumns) + 1
    BY <1>1, <1>3, <2>1, <2>4 DEF pk_key, AtRow
  <2> QED BY <2>2, <2>5, <2>6 DEF KeyInv
<1>5. LatestInv'
  BY SameFile DEF LatestInv, Entry, Covered, pk_key, RowAt, KeyOf, Before
<1> QED BY <1>2, <1>4, <1>5

LEMMA InsertKeeps ==
  ASSUME DedupInv, Insert
  PROVE  DedupInv'
<1> USE DEF DedupInv
<1>1. AtRow /\ stage = "dedup" /\ upsert /\ FileInv
  BY DEF Insert, AtRow
<1>2. /\ pos \in Positions /\ pos = <<pos[1], pos[2]>> /\ pos[1] \in Above0 /\ pos[2] \in Above0
      /\ pos' = <<pos[1], pos[2] + 1>>
  BY <1>1, AtRowFacts DEF Insert
<1>3. FileInv'
  BY <1>2 DEF FileInv, Insert, Above0
<1>4. Len(PkColumns) \in Nat
  BY KeyTypes
<1>5. KeyInv'
  <2>1. col' = 1 /\ key' = << >> /\ key' \in Seq(Byte) /\ col' - 1 = 0 /\ col' \in 1..Len(PkColumns) + 1
    BY <1>4 DEF Insert
  <2>2. Spelled(key', KeyOf(RowAt(pos))', 0)
    BY <2>1, NothingSpelled
  <2> QED BY <2>1, <2>2 DEF KeyInv
<1>6. key \in Seq(Byte) /\ Spelled(key, KeyOf(RowAt(pos)), Len(PkColumns))
  <2>1. col = Len(PkColumns) + 1 /\ col - 1 = Len(PkColumns)
    BY <1>1, <1>4 DEF KeyInv, Insert
  <2> QED BY <1>1, <2>1 DEF KeyInv
<1>7. /\ DOMAIN latest' = DOMAIN latest \cup {key} /\ latest'[key] = pos
      /\ \A k \in DOMAIN latest : k # key => latest'[k] = latest[k]
  BY DEF Insert
<1>8. Positions' = Positions /\ \A p : KeyOf(RowAt(p))' = KeyOf(RowAt(p))
  BY SameFile DEF Insert
<1>9. /\ Before(pos, pos')
      /\ \A p \in Positions : Before(p, pos) => Before(p, pos')
      /\ \A p \in Positions : Before(p, pos') => Before(p, pos) \/ p = pos
  <2>1. \A p \in Positions : p = <<p[1], p[2]>> /\ p[1] \in Nat /\ p[2] \in Nat
    BY <1>1, PositionTypes DEF FileInv, Above0
  <2>2. pos'[1] = pos[1] /\ pos'[2] = pos[2] + 1 /\ pos[1] \in Nat /\ pos[2] \in Nat
    BY <1>2 DEF Above0
  <2> QED BY <1>2, <2>1, <2>2 DEF Before
<1>10. ASSUME NEW k \in DOMAIN latest' PROVE Entry(k)'
  <2>1. CASE k = key
    BY <1>2, <1>6, <1>7, <1>8, <1>9, <2>1 DEF Entry
  <2>2. CASE k # key
    <3>1. k \in DOMAIN latest /\ Entry(k)
      BY <1>1, <1>7, <2>2 DEF LatestInv
    <3> QED BY <1>7, <1>8, <1>9, <2>2, <3>1 DEF Entry
  <2> QED BY <2>1, <2>2
<1>11. ASSUME NEW p \in Positions, Before(p, pos') PROVE Covered(p)'
  <2>1. CASE p = pos
    BY <1>6, <1>7, <1>8, <2>1 DEF Covered
  <2>2. CASE p # pos
    <3>1. Before(p, pos) /\ Covered(p)
      BY <1>1, <1>9, <1>11, <2>2 DEF LatestInv
    <3>2. PICK k \in DOMAIN latest : Spelled(k, KeyOf(RowAt(p)), Len(PkColumns)) /\ (latest[k] = p \/ Before(p, latest[k]))
      BY <3>1 DEF Covered
    <3>3. latest'[k] = p \/ Before(p, latest'[k])
      BY <1>7, <3>1, <3>2
    <3> QED BY <1>7, <1>8, <3>2, <3>3 DEF Covered
  <2> QED BY <2>1, <2>2
<1>12. LatestInv'
  BY <1>8, <1>10, <1>11 DEF LatestInv
<1> QED BY <1>3, <1>5, <1>12

LEMMA NextBatchKeeps ==
  ASSUME DedupInv, NextBatch
  PROVE  DedupInv'
<1> USE DEF DedupInv
<1>1. stage = "dedup" /\ upsert /\ FileInv /\ pos[1] \in Above0 /\ pos[2] \in Above0 /\ pos' = <<pos[1] + 1, 1>>
  BY DEF NextBatch, FileInv
<1>2. FileInv'
  BY <1>1 DEF FileInv, NextBatch, Above0
<1>3. Len(PkColumns) \in Nat
  BY KeyTypes
<1>4. Positions' = Positions /\ (\A p : KeyOf(RowAt(p))' = KeyOf(RowAt(p)))
  BY SameFile DEF NextBatch
<1>5. pos[1] \in 1..Len(batches) /\ Len(batches[pos[1]]) \in Nat /\ pos[2] > Len(batches[pos[1]])
  <2>1. batches \in Seq(Seq(Row)) /\ Len(batches) \in Nat
    BY <1>1, LenProperties DEF FileInv
  <2>2. pos[1] \in 1..Len(batches)
    BY <1>1, <2>1 DEF NextBatch, Above0
  <2>3. batches[pos[1]] \in Seq(Row)
    BY <2>1, <2>2
  <2> QED BY <2>2, <2>3, LenProperties DEF NextBatch
<1>6. KeyInv'
  <2>1. ~AtRow
    BY <1>1, <1>5 DEF AtRow, Above0
  <2>2. col = 1 /\ key = << >> /\ key \in Seq(Byte) /\ col - 1 = 0 /\ col \in 1..Len(PkColumns) + 1
    BY <1>1, <1>3, <2>1 DEF KeyInv
  <2>3. Spelled(key, KeyOf(RowAt(pos))', 0)
    BY <2>2, NothingSpelled
  <2> QED BY <2>2, <2>3 DEF KeyInv, NextBatch
<1>7. \A p \in Positions : Before(p, pos') <=> Before(p, pos)
  <2> TAKE p \in Positions
  <2>1. p[1] \in Above0 /\ p[2] \in Above0 /\ p[2] \in 1..Len(batches[p[1]])
    BY <1>1, PositionTypes, PositionFacts DEF FileInv
  <2>2. pos'[1] = pos[1] + 1 /\ pos'[2] = 1
    BY <1>1
  <2>3. p[1] = pos[1] => p[2] < pos[2]
    BY <1>1, <1>5, <2>1 DEF Above0
  <2> QED BY <1>1, <2>1, <2>2, <2>3 DEF Before, Above0
<1>8. LatestInv'
  <2>1. latest' = latest
    BY DEF NextBatch
  <2>2. ASSUME NEW k \in DOMAIN latest PROVE Entry(k)'
    BY <1>1, <1>4, <1>7, <2>1 DEF LatestInv, Entry
  <2>3. ASSUME NEW p \in Positions, Before(p, pos') PROVE Covered(p)'
    BY <1>1, <1>4, <1>7, <2>1, <2>3 DEF LatestInv, Covered
  <2> QED BY <1>4, <2>1, <2>2, <2>3 DEF LatestInv
<1> QED BY <1>2, <1>6, <1>8

(***************************************************************************)
(* The winners: the map, read out, is the last version of each key, since  *)
(* two rows share an entry just when they share the primary key.           *)
(***************************************************************************)
Staying == IF upsert THEN LastVersions ELSE Positions

KeptInOrder ==
  /\ \A i, j \in 1..Len(keep) : i < j => Before(keep[i], keep[j])
  /\ \A i \in 1..Len(keep) : \A p \in winners : Before(keep[i], p)

KeepInv ==
  /\ keep \in Seq(Positions)
  /\ stage = "dedup" => keep = << >>
  /\ stage # "dedup" => /\ winners \subseteq Positions
                        /\ {keep[i] : i \in 1..Len(keep)} \cup winners = Staying
                        /\ KeptInOrder
  /\ stage \in {"format", "rendered"} => winners = {}

LEMMA LatestAreLastVersions ==
  ASSUME DedupInv, stage = "dedup", upsert, pos[1] > Len(batches)
  PROVE  {latest[k] : k \in DOMAIN latest} = LastVersions
<1>1. /\ batches \in Seq(Seq(Row)) /\ FileInv /\ Len(batches) \in Nat
      /\ pos \in Above0 \X Above0 /\ pos[1] \in Nat
  BY LenProperties DEF DedupInv, FileInv, Above0
<1>2. Len(PkColumns) \in 0..Len(PkColumns)
  BY KeyTypes
<1>3. \A p \in Positions : p \in Above0 \X Above0 /\ KeyOf(RowAt(p)) \in KeyCells
  BY <1>1, PositionTypes, KeyTypes
<1>4. \A p \in Positions : Covered(p)
  <2>1. \A p \in Positions : p[1] \in 1..Len(batches)
    BY <1>1, PositionFacts
  <2>2. \A p \in Positions : Before(p, pos)
    BY <1>1, <2>1 DEF Before
  <2> QED BY <2>2 DEF DedupInv, LatestInv
<1>5. \A k \in DOMAIN latest : Entry(k)
  BY DEF DedupInv, LatestInv
<1>6. ASSUME NEW k \in DOMAIN latest PROVE latest[k] \in LastVersions
  <2>1. latest[k] \in Positions /\ k \in Seq(Byte) /\ Spelled(k, KeyOf(RowAt(latest[k])), Len(PkColumns))
    BY <1>5 DEF Entry
  <2>2. ASSUME NEW q \in Positions, Before(latest[k], q), KeyOf(RowAt(q)) = KeyOf(RowAt(latest[k]))
        PROVE  FALSE
    <3>1. PICK l \in DOMAIN latest : Spelled(l, KeyOf(RowAt(q)), Len(PkColumns)) /\ (latest[l] = q \/ Before(q, latest[l]))
      BY <1>4 DEF Covered
    <3>2. l \in Seq(Byte)
      BY <1>5 DEF Entry
    <3>4. l = k
      BY <1>2, <1>3, <2>1, <2>2, <3>1, <3>2, SameCellsSameKey
    <3>5. latest[k] \in Above0 \X Above0 /\ q \in Above0 \X Above0
      BY <1>3, <2>1
    <3> QED BY <2>2, <3>1, <3>4, <3>5, BeforeOrder
  <2> QED BY <2>1, <2>2 DEF LastVersions
<1>7. ASSUME NEW p \in LastVersions PROVE \E k \in DOMAIN latest : latest[k] = p
  <2>1. p \in Positions /\ \A q \in Positions : Before(p, q) => KeyOf(RowAt(q)) # KeyOf(RowAt(p))
    BY DEF LastVersions
  <2>2. PICK k \in DOMAIN latest : Spelled(k, KeyOf(RowAt(p)), Len(PkColumns)) /\ (latest[k] = p \/ Before(p, latest[k]))
    BY <1>4, <2>1 DEF Covered
  <2>3. latest[k] \in Positions /\ k \in Seq(Byte) /\ Spelled(k, KeyOf(RowAt(latest[k])), Len(PkColumns))
    BY <1>5 DEF Entry
  <2>4. \A c \in 1..Len(PkColumns) : KeyOf(RowAt(latest[k]))[c] = KeyOf(RowAt(p))[c]
    BY <1>2, <1>3, <2>1, <2>2, <2>3, SameKeySameCells
  <2>5. KeyOf(RowAt(latest[k])) = KeyOf(RowAt(p))
    BY <1>3, <2>1, <2>3, <2>4 DEF KeyCells
  <2> QED BY <2>1, <2>2, <2>3, <2>5
<1> QED BY <1>6, <1>7

LEMMA StayingStays ==
  ASSUME batches' = batches, upsert' = upsert
  PROVE  Staying' = Staying /\ Positions' = Positions
BY DEF Staying, LastVersions, Positions, KeyOf, RowAt, Before

LEMMA StayingPositions == Staying \subseteq Positions
BY DEF Staying, LastVersions

LEMMA NothingInEmpty == \A f : {f[i] : i \in 1..Len(<< >>)} = {} /\ \A i \in 1..Len(<< >>) : FALSE
OBVIOUS

LEMMA CollectKeeps ==
  ASSUME DedupInv, KeepInv, Collect
  PROVE  DedupInv' /\ KeepInv'
<1>1. stage = "dedup" /\ stage' = "keep" /\ keep = << >> /\ keep' = keep
  BY DEF Collect, KeepInv
<1>2. DedupInv'
  BY <1>1 DEF DedupInv, FileInv, KeyInv, LatestInv, Collect
<1>3. Staying' = Staying /\ Positions' = Positions
  BY StayingStays DEF Collect
<1>4. winners' = Staying
  <2>1. CASE upsert
    BY <1>1, <2>1, LatestAreLastVersions DEF Collect, Staying
  <2>2. CASE ~upsert
    BY <2>2 DEF Collect, Staying
  <2> QED BY <2>1, <2>2
<1>5. {keep[i] : i \in 1..Len(keep)} = {} /\ \A i \in 1..Len(keep) : FALSE
  BY <1>1, NothingInEmpty
<1>6. KeptInOrder'
  BY <1>1, <1>5 DEF KeptInOrder
<1>7. winners' \subseteq Positions' /\ {keep'[i] : i \in 1..Len(keep')} \cup winners' = Staying'
  BY <1>1, <1>3, <1>4, <1>5, StayingPositions
<1>8. keep' \in Seq(Positions')
  BY <1>1, <1>3 DEF KeepInv
<1> QED BY <1>1, <1>2, <1>6, <1>7, <1>8 DEF KeepInv

LEMMA KeepKeeps ==
  ASSUME DedupInv, KeepInv, Keep
  PROVE  DedupInv' /\ KeepInv'
<1>1. DedupInv' /\ stage = "keep" /\ stage' = "keep"
  BY DEF DedupInv, FileInv, KeyInv, LatestInv, Keep
<1>2. Staying' = Staying /\ Positions' = Positions
  BY StayingStays DEF Keep
<1>3. PICK p \in winners : /\ \A q \in winners : q = p \/ Before(p, q)
                           /\ keep' = Append(keep, p)
                           /\ winners' = winners \ {p}
  BY DEF Keep
<1>4. keep \in Seq(Positions) /\ p \in Positions /\ Len(keep) \in Nat
  BY <1>1, LenProperties DEF KeepInv
<1>5. /\ keep' \in Seq(Positions) /\ Len(keep') = Len(keep) + 1 /\ keep'[Len(keep) + 1] = p
      /\ \A i \in 1..Len(keep) : keep'[i] = keep[i]
  BY <1>3, <1>4, AppendProperties
<1>6. \A i : i \in 1..Len(keep') <=> i \in 1..Len(keep) \/ i = Len(keep) + 1
  BY <1>4, <1>5
<1>7. {keep'[i] : i \in 1..Len(keep')} = {keep[i] : i \in 1..Len(keep)} \cup {p}
  BY <1>5, <1>6
<1>8. KeptInOrder'
  <2>1. KeptInOrder
    BY <1>1 DEF KeepInv
  <2>2. \A i \in 1..Len(keep) : i < Len(keep) + 1 /\ i # Len(keep) + 1 /\ ~(Len(keep) + 1 < i)
    BY <1>4
  <2>3. ASSUME NEW i \in 1..Len(keep'), NEW j \in 1..Len(keep'), i < j PROVE Before(keep'[i], keep'[j])
    <3>1. i \in 1..Len(keep)
      BY <1>4, <1>5, <2>3
    <3>2. CASE j \in 1..Len(keep)
      BY <1>5, <2>1, <2>3, <3>1, <3>2 DEF KeptInOrder
    <3>3. CASE j = Len(keep) + 1
      BY <1>5, <2>1, <3>1, <3>3 DEF KeptInOrder
    <3> QED BY <1>6, <3>2, <3>3
  <2>4. ASSUME NEW i \in 1..Len(keep'), NEW q \in winners' PROVE Before(keep'[i], q)
    <3>1. q \in winners /\ q # p
      BY <1>3
    <3> QED BY <1>3, <1>5, <1>6, <2>1, <3>1 DEF KeptInOrder
  <2> QED BY <2>3, <2>4 DEF KeptInOrder, Before
<1>9. winners' \subseteq Positions /\ {keep'[i] : i \in 1..Len(keep')} \cup winners' = Staying
  <2>1. winners \subseteq Positions /\ {keep[i] : i \in 1..Len(keep)} \cup winners = Staying
    BY <1>1 DEF KeepInv
  <2> QED BY <1>3, <1>7, <2>1
<1> QED BY <1>1, <1>2, <1>5, <1>8, <1>9 DEF KeepInv

LEMMA KeptKeeps ==
  ASSUME DedupInv, KeepInv, Kept
  PROVE  DedupInv' /\ KeepInv'
<1>1. DedupInv'
  BY DEF DedupInv, FileInv, KeyInv, LatestInv, Kept
<1>2. Staying' = Staying /\ Positions' = Positions
  BY StayingStays DEF Kept
<1> QED BY <1>1, <1>2 DEF KeepInv, Kept, KeptInOrder, Before

\* The formatter changes nothing of all this.
FormatStep ==
  /\ stage \in {"format", "rendered"} /\ stage' \in {"format", "rendered"}
  /\ UNCHANGED <<batches, upsert, pos, winners, keep>>

LEMMA FormatStepKeeps ==
  ASSUME DedupInv, KeepInv, FormatStep
  PROVE  DedupInv' /\ KeepInv'
<1>1. DedupInv'
  BY DEF DedupInv, FileInv, KeyInv, LatestInv, FormatStep
<1>2. Staying' = Staying /\ Positions' = Positions
  BY StayingStays DEF FormatStep
<1> QED BY <1>1, <1>2 DEF KeepInv, FormatStep, KeptInOrder, Before

LEMMA StillKeeps ==
  ASSUME DedupInv, KeepInv, UNCHANGED vars
  PROVE  DedupInv' /\ KeepInv'
<1>1. Staying' = Staying /\ Positions' = Positions
  BY StayingStays DEF vars
<1>2. DedupInv'
  BY <1>1, SameFile DEF DedupInv, FileInv, KeyInv, AtRow, LatestInv, Entry, Covered, Before, RowAt, vars
<1> QED BY <1>1, <1>2 DEF KeepInv, KeptInOrder, Before, vars

-----------------------------------------------------------------------------
(***************************************************************************)
(* What the loader makes of a character.                                   *)
(***************************************************************************)
Field == [text : Seq(Char), quoted : BOOLEAN, open : BOOLEAN]

LoadedRow == Seq(Seq(Seq(Char)))

Reading == [rows : Seq(LoadedRow), row : LoadedRow, field : Field]

InQuotes(text) == [text |-> text, quoted |-> TRUE, open |-> TRUE]

LEMMA LoadableType ==
  ASSUME NEW f \in Field
  PROVE  /\ Loadable(f) \in Seq(Seq(Char))
         /\ f = NoField => Loadable(f) = Null
         /\ f.quoted => Loadable(f) = <<f.text>>
<1>1. f.text \in Seq(Char)
  BY DEF Field
<1>2. <<f.text>> \in Seq(Seq(Char)) /\ Null \in Seq(Seq(Char))
  BY <1>1 DEF Null
<1> QED BY <1>2 DEF Loadable, NoField, Null

LEMMA NothingReadType == NothingRead \in Reading /\ NoField \in Field
<1>1. << >> \in Seq(Char) /\ << >> \in Seq(LoadedRow) /\ << >> \in LoadedRow
  BY DEF LoadedRow
<1> QED BY <1>1 DEF NothingRead, Reading, NoField, Field

LEMMA QuotedFields ==
  ASSUME NEW f, NEW text
  PROVE  /\ f = NoField => Quoted(f) = InQuotes(<< >>)
         /\ f = InQuotes(text) => Quoted(f) = [text |-> text, quoted |-> TRUE, open |-> FALSE]
         /\ f = [text |-> text, quoted |-> TRUE, open |-> FALSE] => Quoted(f) = InQuotes(Append(text, Quote))
<1>1. ASSUME f.open = FALSE PROVE (~f.open) = TRUE
  BY <1>1
<1>2. ASSUME f.open = TRUE PROVE (~f.open) = FALSE
  BY <1>2
<1>3. ASSUME f = NoField PROVE Quoted(f) = InQuotes(<< >>)
  <2>1. f.open = FALSE /\ f.quoted = FALSE /\ f.text = << >>
    BY <1>3 DEF NoField
  <2> QED BY <1>1, <2>1 DEF Quoted, InQuotes
<1>4. ASSUME f = InQuotes(text) PROVE Quoted(f) = [text |-> text, quoted |-> TRUE, open |-> FALSE]
  <2>1. f.open = TRUE /\ f.quoted = TRUE /\ f.text = text
    BY <1>4 DEF InQuotes
  <2> QED BY <1>2, <2>1 DEF Quoted
<1>5. ASSUME f = [text |-> text, quoted |-> TRUE, open |-> FALSE]
      PROVE  Quoted(f) = InQuotes(Append(text, Quote))
  <2>1. f.open = FALSE /\ f.quoted = TRUE /\ f.text = text
    BY <1>5
  <2> QED BY <1>1, <2>1 DEF Quoted, InQuotes
<1> QED BY <1>3, <1>4, <1>5

LEMMA WithField ==
  ASSUME NEW acc \in Reading, NEW f \in Field
  PROVE  LET after == [acc EXCEPT !.field = f]
         IN  after \in Reading /\ after.rows = acc.rows /\ after.row = acc.row /\ after.field = f
BY DEF Reading

LEMMA QuoteRead ==
  ASSUME NEW acc
  PROVE  ReadChar(acc, Quote) = [acc EXCEPT !.field = Quoted(acc.field)]
<1>1. Quote # Delimiter /\ Quote # Newline
  BY DEF Quote, Delimiter, Newline
<1> QED BY <1>1 DEF ReadChar

LEMMA QuoteOpens ==
  ASSUME NEW acc \in Reading, acc.field = NoField
  PROVE  /\ ReadChar(acc, Quote) \in Reading
         /\ ReadChar(acc, Quote).rows = acc.rows /\ ReadChar(acc, Quote).row = acc.row
         /\ ReadChar(acc, Quote).field = InQuotes(<< >>)
<1>1. InQuotes(<< >>) \in Field
  BY DEF InQuotes, Field
<1>2. ReadChar(acc, Quote) = [acc EXCEPT !.field = InQuotes(<< >>)]
  BY QuoteRead, QuotedFields
<1> QED BY <1>1, <1>2, WithField

LEMMA QuoteCloses ==
  ASSUME NEW acc \in Reading, NEW text \in Seq(Char), acc.field = InQuotes(text)
  PROVE  /\ ReadChar(acc, Quote) \in Reading
         /\ ReadChar(acc, Quote).rows = acc.rows /\ ReadChar(acc, Quote).row = acc.row
         /\ ReadChar(acc, Quote).field = [text |-> text, quoted |-> TRUE, open |-> FALSE]
<1> DEFINE closed == [text |-> text, quoted |-> TRUE, open |-> FALSE]
<1>1. closed \in Field
  BY DEF Field
<1>2. ReadChar(acc, Quote) = [acc EXCEPT !.field = closed]
  BY QuoteRead, QuotedFields
<1> HIDE DEF closed
<1>3. /\ ReadChar(acc, Quote) \in Reading
      /\ ReadChar(acc, Quote).rows = acc.rows /\ ReadChar(acc, Quote).row = acc.row
      /\ ReadChar(acc, Quote).field = closed
  BY <1>1, <1>2, WithField
<1> QED BY <1>3 DEF closed

LEMMA DoubledQuote ==
  ASSUME NEW acc \in Reading, NEW text \in Seq(Char), acc.field = InQuotes(text), Quote \in Char
  PROVE  LET after == ReadChar(ReadChar(acc, Quote), Quote)
         IN  /\ after \in Reading /\ after.rows = acc.rows /\ after.row = acc.row
             /\ after.field = InQuotes(Append(text, Quote))
<1> DEFINE mid == ReadChar(acc, Quote)
<1>1. /\ mid \in Reading /\ mid.rows = acc.rows /\ mid.row = acc.row
      /\ mid.field = [text |-> text, quoted |-> TRUE, open |-> FALSE]
  BY QuoteCloses
<1> HIDE DEF mid
<1>2. Quoted(mid.field) = InQuotes(Append(text, Quote))
  BY <1>1, QuotedFields
<1>3. InQuotes(Append(text, Quote)) \in Field
  BY AppendProperties DEF InQuotes, Field
<1>4. ReadChar(mid, Quote) = [mid EXCEPT !.field = InQuotes(Append(text, Quote))]
  BY <1>2, QuoteRead
<1>5. /\ ReadChar(mid, Quote) \in Reading /\ ReadChar(mid, Quote).rows = acc.rows
      /\ ReadChar(mid, Quote).row = acc.row
      /\ ReadChar(mid, Quote).field = InQuotes(Append(text, Quote))
  BY <1>1, <1>3, <1>4, WithField
<1> QED BY <1>5 DEF mid

LEMMA CharInQuotes ==
  ASSUME NEW acc \in Reading, NEW text \in Seq(Char), acc.field = InQuotes(text), NEW c \in Char, c # Quote
  PROVE  /\ ReadChar(acc, c) \in Reading
         /\ ReadChar(acc, c).rows = acc.rows /\ ReadChar(acc, c).row = acc.row
         /\ ReadChar(acc, c).field = InQuotes(Append(text, c))
<1>1. acc.field.open /\ acc.field.text = text /\ acc.field.quoted
  BY DEF InQuotes
<1>2. ReadChar(acc, c) = [acc EXCEPT !.field.text = Append(acc.field.text, c)]
  BY <1>1 DEF ReadChar
<1>3. InQuotes(Append(text, c)) \in Field
  BY AppendProperties DEF InQuotes, Field
<1>4. [acc EXCEPT !.field.text = Append(acc.field.text, c)]
        = [acc EXCEPT !.field = [acc.field EXCEPT !.text = Append(acc.field.text, c)]]
  BY DEF Reading
<1>5. [acc.field EXCEPT !.text = Append(acc.field.text, c)] = InQuotes(Append(text, c))
  <2> DEFINE f == [acc.field EXCEPT !.text = Append(text, c)]
             g == InQuotes(Append(text, c))
  <2>1. acc.field \in Field /\ Append(text, c) \in Seq(Char)
    BY AppendProperties DEF Reading
  <2>2. f \in Field /\ f.text = Append(text, c) /\ f.quoted = acc.field.quoted /\ f.open = acc.field.open
    BY <2>1 DEF Field
  <2>3. g.text = Append(text, c) /\ g.quoted = TRUE /\ g.open = TRUE
    BY DEF InQuotes
  <2>4. acc.field.quoted = TRUE /\ acc.field.open = TRUE
    BY DEF InQuotes
  <2> HIDE DEF f, g
  <2>5. f = g
    BY <1>3, <2>2, <2>3, <2>4 DEF g, Field
  <2> QED BY <1>1, <2>5 DEF f, g
<1>6. ReadChar(acc, c) = [acc EXCEPT !.field = InQuotes(Append(text, c))]
  BY <1>1, <1>2, <1>4, <1>5
<1> QED BY <1>3, <1>6, WithField

LEMMA DelimiterRead ==
  ASSUME NEW acc \in Reading, ~acc.field.open
  PROVE  /\ ReadChar(acc, Delimiter) \in Reading
         /\ ReadChar(acc, Delimiter).rows = acc.rows
         /\ ReadChar(acc, Delimiter).row = Append(acc.row, Loadable(acc.field))
         /\ ReadChar(acc, Delimiter).field = NoField
<1>1. acc.field \in Field /\ acc.row \in LoadedRow
  BY DEF Reading
<1>2. Append(acc.row, Loadable(acc.field)) \in LoadedRow
  BY <1>1, LoadableType, AppendProperties DEF LoadedRow
<1>3. Delimiter # Quote /\ Delimiter # Newline
  BY DEF Quote, Delimiter, Newline
<1>4. ReadChar(acc, Delimiter) = [acc EXCEPT !.row = Append(acc.row, Loadable(acc.field)), !.field = NoField]
  BY <1>3 DEF ReadChar
<1> QED BY <1>2, <1>4, NothingReadType DEF Reading

LEMMA NewlineRead ==
  ASSUME NEW acc \in Reading, ~acc.field.open
  PROVE  /\ ReadChar(acc, Newline) \in Reading
         /\ ReadChar(acc, Newline).rows = Append(acc.rows, Append(acc.row, Loadable(acc.field)))
         /\ ReadChar(acc, Newline).row = << >>
         /\ ReadChar(acc, Newline).field = NoField
<1>1. acc.field \in Field /\ acc.row \in LoadedRow /\ acc.rows \in Seq(LoadedRow)
  BY DEF Reading
<1>2. Append(acc.row, Loadable(acc.field)) \in LoadedRow
  BY <1>1, LoadableType, AppendProperties DEF LoadedRow
<1>3. Append(acc.rows, Append(acc.row, Loadable(acc.field))) \in Seq(LoadedRow)
  BY <1>1, <1>2, AppendProperties
<1>6. Newline # Quote /\ Newline # Delimiter
  BY DEF Quote, Delimiter, Newline
<1>4. ReadChar(acc, Newline) =
        [rows |-> Append(acc.rows, Append(acc.row, Loadable(acc.field))), row |-> << >>, field |-> NoField]
  BY <1>6 DEF ReadChar
<1>5. << >> \in LoadedRow
  BY DEF LoadedRow
<1> QED BY <1>3, <1>4, <1>5, NothingReadType DEF Reading

-----------------------------------------------------------------------------
(***************************************************************************)
(* A text without its NULs, one character after the other.                 *)
(***************************************************************************)
EmbedsAt(from, t, s, n) ==
  /\ from \in [1..Len(t) -> 1..n]
  /\ \A i, j \in 1..Len(t) : i < j => from[i] < from[j]
  /\ \A i \in 1..Len(t) : t[i] = s[from[i]] /\ s[from[i]] # NUL
  /\ \A m \in 1..n : s[m] = NUL \/ \E i \in 1..Len(t) : from[i] = m

LEMMA WithoutNULEmbeds == \A t, s, n : WithoutNUL(t, s, n) <=> \E from : EmbedsAt(from, t, s, n)
BY DEF WithoutNUL, EmbedsAt

LEMMA NothingWithoutNUL == \A s : WithoutNUL(<< >>, s, 0)
<1> TAKE s
<1> DEFINE from == [i \in 1..0 |-> i]
<1>1. Len(<< >>) = 0 /\ from \in [1..0 -> 1..0] /\ \A i \in 1..0 : FALSE
  OBVIOUS
<1> HIDE DEF from
<1>2. EmbedsAt(from, << >>, s, 0)
  BY <1>1 DEF EmbedsAt
<1> QED BY <1>2, WithoutNULEmbeds

LEMMA NULIsLeftOut ==
  ASSUME NEW t \in Seq(Char), NEW s, NEW n \in Nat, WithoutNUL(t, s, n), s[n + 1] = NUL
  PROVE  WithoutNUL(t, s, n + 1)
<1>1. PICK from : EmbedsAt(from, t, s, n)
  BY WithoutNULEmbeds
<1>2. \A m : m \in 1..n + 1 <=> m \in 1..n \/ m = n + 1
  OBVIOUS
<1>3. EmbedsAt(from, t, s, n + 1)
  BY <1>1, <1>2 DEF EmbedsAt
<1> QED BY <1>3, WithoutNULEmbeds

LEMMA CharIsAppended ==
  ASSUME NEW t \in Seq(Char), NEW s, NEW n \in Nat, WithoutNUL(t, s, n),
         s[n + 1] \in Char, s[n + 1] # NUL
  PROVE  WithoutNUL(Append(t, s[n + 1]), s, n + 1)
<1> DEFINE c == s[n + 1]
           u == Append(t, c)
<1>1. PICK from : EmbedsAt(from, t, s, n)
  BY WithoutNULEmbeds
<1>2. /\ Len(t) \in Nat /\ Len(u) = Len(t) + 1 /\ u[Len(t) + 1] = c
      /\ \A i \in 1..Len(t) : u[i] = t[i]
  BY LenProperties, AppendProperties
<1> HIDE DEF u
<1> DEFINE next == [i \in 1..Len(u) |-> IF i \in 1..Len(t) THEN from[i] ELSE n + 1]
<1>3. \A i : i \in 1..Len(u) <=> i \in 1..Len(t) \/ i = Len(t) + 1
  BY <1>2
<1>4. Len(t) + 1 \notin 1..Len(t)
  BY <1>2
<1>5. from \in [1..Len(t) -> 1..n]
  BY <1>1 DEF EmbedsAt
<1>6. /\ next \in [1..Len(u) -> 1..n + 1] /\ next[Len(t) + 1] = n + 1
      /\ \A i \in 1..Len(t) : next[i] = from[i] /\ from[i] \in 1..n
  BY <1>3, <1>4, <1>5
<1> HIDE DEF next
<1>7. ASSUME NEW i \in 1..Len(u), NEW j \in 1..Len(u), i < j PROVE next[i] < next[j]
  <2>1. i \in 1..Len(t)
    BY <1>2, <1>7
  <2>2. CASE j \in 1..Len(t)
    BY <1>1, <1>6, <1>7, <2>1, <2>2 DEF EmbedsAt
  <2>3. CASE j = Len(t) + 1
    BY <1>6, <2>1, <2>3
  <2> QED BY <1>3, <2>2, <2>3
<1>8. ASSUME NEW i \in 1..Len(u) PROVE u[i] = s[next[i]] /\ s[next[i]] # NUL
  <2>1. CASE i \in 1..Len(t)
    BY <1>1, <1>2, <1>6, <2>1 DEF EmbedsAt
  <2>2. CASE i = Len(t) + 1
    BY <1>2, <1>6, <2>2
  <2> QED BY <1>3, <2>1, <2>2
<1>9. ASSUME NEW m \in 1..n + 1 PROVE s[m] = NUL \/ \E i \in 1..Len(u) : next[i] = m
  <2>1. CASE m = n + 1
    BY <1>3, <1>6, <2>1
  <2>2. CASE m # n + 1
    <3>1. m \in 1..n
      BY <2>2
    <3>2. s[m] = NUL \/ \E i \in 1..Len(t) : from[i] = m
      BY <1>1, <3>1 DEF EmbedsAt
    <3> QED BY <1>3, <1>6, <3>2
  <2> QED BY <2>1, <2>2
<1>10. EmbedsAt(next, u, s, n + 1)
  BY <1>6, <1>7, <1>8, <1>9 DEF EmbedsAt
<1> QED BY <1>10, WithoutNULEmbeds DEF u

-----------------------------------------------------------------------------
(***************************************************************************)
(* The formatter: what the loader has read is, cell by cell, what was      *)
(* written, and inside a cell it is the characters written so far.         *)
(***************************************************************************)
RowReads(got, row, n) ==
  got \in LoadedRow /\ Len(got) = n /\ \A c \in 1..n : ReadsAs(got[c], row[c])

\* The row as it were if it ended here.
RowSoFar == IF chr = 0 /\ col > 1 THEN Append(read.row, Loadable(read.field)) ELSE read.row

CursorInv ==
  /\ line \in 0..Len(keep) + 1 /\ col \in 1..Len(Names) + 1 /\ chr \in Nat
  /\ line = Len(keep) + 1 => col = 1 /\ chr = 0

RowsInv ==
  Len(read.rows) = line /\ \A n \in 1..line : RowReads(read.rows[n], Line(n - 1), Len(Names))

InCell ==
  /\ line <= Len(keep) /\ col <= Len(Names) /\ Cell # Null /\ chr <= Len(Cell[1]) + 1
  /\ \E text \in Seq(Char) : read.field = InQuotes(text) /\ WithoutNUL(text, Cell[1], chr - 1)

FieldInv ==
  /\ chr = 0 /\ col = 1 => read.field = NoField
  /\ chr = 0 /\ col > 1 => ~read.field.open
  /\ chr > 0 => InCell

FormatInv ==
  /\ stage \in {"dedup", "keep"} => line = 0 /\ chr = 0 /\ read = NothingRead
  /\ stage = "keep" => col = 1
  /\ stage \in {"format", "rendered"} =>
       /\ CursorInv /\ read \in Reading /\ RowsInv /\ FieldInv
       /\ RowReads(RowSoFar, Line(line), col - 1)
  /\ stage = "rendered" => line = Len(keep) + 1

LEMMA NoRow == \A row : RowReads(<< >>, row, 0)
BY DEF RowReads, LoadedRow

LEMMA RowGrows ==
  ASSUME NEW row, NEW got, NEW n \in Nat, RowReads(got, row, n),
         NEW cell \in Seq(Seq(Char)), ReadsAs(cell, row[n + 1])
  PROVE  RowReads(Append(got, cell), row, n + 1)
<1>1. got \in Seq(Seq(Seq(Char))) /\ Len(got) = n /\ \A c \in 1..n : ReadsAs(got[c], row[c])
  BY DEF RowReads, LoadedRow
<1>2. /\ Append(got, cell) \in Seq(Seq(Seq(Char))) /\ Len(Append(got, cell)) = n + 1
      /\ Append(got, cell)[n + 1] = cell
      /\ \A c \in 1..n : Append(got, cell)[c] = got[c]
  BY <1>1, AppendProperties
<1>3. \A c : c \in 1..n + 1 <=> c \in 1..n \/ c = n + 1
  OBVIOUS
<1>4. ASSUME NEW c \in 1..n + 1 PROVE ReadsAs(Append(got, cell)[c], row[c])
  <2>1. CASE c \in 1..n
    BY <1>1, <1>2, <2>1
  <2>2. CASE c = n + 1
    BY <1>2, <2>2
  <2> QED BY <1>3, <2>1, <2>2
<1> QED BY <1>2, <1>4 DEF RowReads, LoadedRow

LEMMA LineType ==
  ASSUME DedupInv, KeepInv, NEW n \in 0..Len(keep)
  PROVE  Line(n) \in Row
<1>1. Len(Names) \in Nat /\ \A c \in 1..Len(Names) : Names[c] \in Text
  BY LenProperties, TableAssumption
<1>2. CASE n = 0
  <2>1. \A t \in Text : <<t>> \in CellValue
    BY DEF CellValue
  <2> QED BY <1>1, <1>2, <2>1 DEF Line, Row
<1>3. CASE n # 0
  <2>1. n \in 1..Len(keep) /\ keep \in Seq(Positions)
    BY <1>3, LenProperties DEF KeepInv
  <2>2. keep[n] \in Positions
    BY <2>1
  <2> QED BY <1>3, <2>2, PositionTypes DEF Line, DedupInv, FileInv
<1> QED BY <1>2, <1>3

LEMMA LineStays ==
  ASSUME batches' = batches, keep' = keep
  PROVE  \A n : (Line(n))' = Line(n)
BY DEF Line, RowAt

LEMMA RowsStay ==
  ASSUME batches' = batches, keep' = keep, line' = line, read'.rows = read.rows, RowsInv
  PROVE  RowsInv'
<1>1. \A n : (Line(n))' = Line(n)
  BY LineStays
<1>2. \A n \in 1..line : RowReads(read'.rows[n], Line(n - 1), Len(Names))
  BY DEF RowsInv
<1> QED BY <1>1, <1>2 DEF RowsInv

LEMMA FormatTypes ==
  ASSUME DedupInv, KeepInv, FormatInv, AtLine
  PROVE  /\ CursorInv /\ read \in Reading /\ RowsInv /\ FieldInv
         /\ RowReads(RowSoFar, Line(line), col - 1)
         /\ Len(keep) \in Nat /\ Len(Names) \in Nat /\ Len(Names) >= 1
         /\ line \in 0..Len(keep) /\ col \in 1..Len(Names) + 1 /\ chr \in Nat
         /\ Line(line) \in Row
         /\ col <= Len(Names) => Cell \in CellValue
<1>1. CursorInv /\ read \in Reading /\ RowsInv /\ FieldInv /\ RowReads(RowSoFar, Line(line), col - 1)
  BY DEF FormatInv, AtLine
<1>2. Len(keep) \in Nat /\ Len(Names) \in Nat /\ Len(Names) >= 1
  BY LenProperties, TableAssumption, EmptySeq DEF KeepInv
<1>3. line \in 0..Len(keep) /\ col \in 1..Len(Names) + 1 /\ chr \in Nat
  BY <1>1, <1>2 DEF CursorInv, AtLine
<1>4. Line(line) \in Row
  BY <1>3, LineType
<1>5. ASSUME col <= Len(Names) PROVE Cell \in CellValue
  <2>1. col \in 1..Len(Names)
    BY <1>2, <1>3, <1>5
  <2> QED BY <1>4, <2>1 DEF Row, Cell
<1> QED BY <1>1, <1>2, <1>3, <1>4, <1>5

LEMMA DelimitedReads ==
  ASSUME DedupInv, KeepInv, FormatInv, AtLine, chr = 0
  PROVE  /\ Delimited \in Reading /\ Delimited.rows = read.rows /\ Delimited.field = NoField
         /\ RowReads(Delimited.row, Line(line), col - 1)
<1>1. /\ read \in Reading /\ FieldInv /\ RowReads(RowSoFar, Line(line), col - 1)
      /\ col \in 1..Len(Names) + 1 /\ Len(Names) \in Nat
  BY FormatTypes
<1>2. CASE col > 1
  <2>1. ~read.field.open /\ Delimited = ReadChar(read, Delimiter)
    BY <1>1, <1>2 DEF FieldInv, Delimited
  <2>2. RowSoFar = Append(read.row, Loadable(read.field))
    BY <1>2 DEF RowSoFar
  <2> QED BY <1>1, <2>1, <2>2, DelimiterRead
<1>3. CASE col = 1
  <2>1. read.field = NoField /\ Delimited = read /\ RowSoFar = read.row
    BY <1>1, <1>3 DEF FieldInv, Delimited, RowSoFar
  <2> QED BY <1>1, <2>1
<1> QED BY <1>1, <1>2, <1>3

LEMMA BeginCellKeeps ==
  ASSUME DedupInv, KeepInv, FormatInv, BeginCell
  PROVE  FormatInv'
<1>1. AtLine /\ chr = 0 /\ col <= Len(Names)
  BY DEF BeginCell
<1>2. /\ RowsInv /\ Len(keep) \in Nat /\ Len(Names) \in Nat
      /\ line \in 0..Len(keep) /\ col \in 1..Len(Names) /\ Cell \in CellValue
  BY <1>1, FormatTypes
<1>3. /\ Delimited \in Reading /\ Delimited.rows = read.rows /\ Delimited.field = NoField
      /\ RowReads(Delimited.row, Line(line), col - 1)
  BY <1>1, DelimitedReads
<1>4. /\ batches' = batches /\ keep' = keep /\ line' = line
      /\ stage = "format" /\ stage' = "format"
  BY <1>1 DEF BeginCell, AtLine
<1>5. (\A n : (Line(n))' = Line(n)) /\ Line(line)' = Line(line)
  BY <1>4, LineStays
<1>6. CASE Cell = Null
  <2>1. read' = Delimited /\ col' = col + 1 /\ chr' = 0
    BY <1>1, <1>6 DEF BeginCell
  <2>2. CursorInv'
    BY <1>2, <1>4, <2>1 DEF CursorInv
  <2>3. read' \in Reading /\ RowsInv'
    BY <1>2, <1>3, <1>4, <2>1, RowsStay
  <2>4. FieldInv'
    BY <1>2, <1>3, <2>1 DEF FieldInv, NoField
  <2>5. RowSoFar' = Append(Delimited.row, Null)
    <3>1. Loadable(Delimited.field) = Null
      BY <1>3 DEF Loadable, NoField
    <3>2. chr' = 0 /\ col' > 1
      BY <1>2, <2>1
    <3> QED BY <2>1, <3>1, <3>2 DEF RowSoFar
  <2>6. RowReads(RowSoFar', Line(line), col)
    <3>1. col - 1 \in Nat /\ (col - 1) + 1 = col /\ Null \in Seq(Seq(Char))
      BY <1>2 DEF Null
    <3>2. ReadsAs(Null, Line(line)[(col - 1) + 1])
      BY <1>6, <3>1 DEF ReadsAs, Cell
    <3>3. RowReads(Append(Delimited.row, Null), Line(line), (col - 1) + 1)
      BY <1>3, <3>1, <3>2, RowGrows
    <3> QED BY <2>5, <3>1, <3>3
  <2>7. RowReads(RowSoFar, Line(line), col - 1)'
    <3>1. col' - 1 = col
      BY <1>2, <2>1
    <3> QED BY <1>5, <2>6, <3>1 DEF RowReads
  <2> QED BY <1>4, <2>2, <2>3, <2>4, <2>7 DEF FormatInv
<1>7. CASE Cell # Null
  <2>1. read' = ReadChar(Delimited, Quote) /\ col' = col /\ chr' = 1
    BY <1>1, <1>7 DEF BeginCell
  <2>2. /\ read' \in Reading /\ read'.rows = read.rows /\ read'.row = Delimited.row
        /\ read'.field = InQuotes(<< >>)
    BY <1>3, <2>1, QuoteOpens
  <2>3. CursorInv'
    BY <1>2, <1>4, <2>1 DEF CursorInv
  <2>4. RowsInv'
    BY <1>2, <1>4, <2>2, RowsStay
  <2>5. Cell' = Cell
    BY <1>5, <2>1 DEF Cell
  <2>6. FieldInv'
    <3>1. Len(Cell[1]) \in Nat
      BY <1>2, <1>7, CellFields
    <3>2. << >> \in Seq(Char) /\ chr' - 1 = 0 /\ WithoutNUL(<< >>, Cell[1], 0)
      BY <2>1, NothingWithoutNUL
    <3>3. \E text \in Seq(Char) : read'.field = InQuotes(text) /\ WithoutNUL(text, Cell[1], chr' - 1)
      BY <2>2, <3>2
    <3>4. InCell'
      BY <1>2, <1>4, <1>7, <2>1, <2>5, <3>1, <3>3 DEF InCell
    <3> QED BY <2>1, <3>4 DEF FieldInv
  <2>7. RowReads(RowSoFar, Line(line), col - 1)'
    <3>1. RowSoFar' = Delimited.row
      BY <2>1, <2>2 DEF RowSoFar
    <3> QED BY <1>3, <1>5, <2>1, <3>1 DEF RowReads
  <2> QED BY <1>4, <2>2, <2>3, <2>4, <2>6, <2>7 DEF FormatInv
<1> QED BY <1>6, <1>7

LEMMA InCellFacts ==
  ASSUME DedupInv, KeepInv, FormatInv, AtLine, chr > 0
  PROVE  /\ col \in 1..Len(Names) /\ Cell \in CellValue /\ Cell # Null
         /\ Cell[1] \in Seq(Char) /\ Len(Cell[1]) \in Nat /\ chr \in 1..Len(Cell[1]) + 1
         /\ RowReads(read.row, Line(line), col - 1)
         /\ \E text \in Seq(Char) : read.field = InQuotes(text) /\ WithoutNUL(text, Cell[1], chr - 1)
<1>1. /\ FieldInv /\ RowReads(RowSoFar, Line(line), col - 1) /\ Len(Names) \in Nat
      /\ col \in 1..Len(Names) + 1 /\ chr \in Nat /\ (col <= Len(Names) => Cell \in CellValue)
  BY FormatTypes
<1>2. InCell
  BY <1>1 DEF FieldInv
<1>3. col \in 1..Len(Names) /\ Cell \in CellValue /\ Cell # Null
  BY <1>1, <1>2 DEF InCell
<1>4. Cell[1] \in Seq(Char) /\ Len(Cell[1]) \in Nat
  BY <1>3, CellFields
<1>5. chr \in 1..Len(Cell[1]) + 1
  BY <1>1, <1>2, <1>4 DEF InCell
<1>6. RowSoFar = read.row
  BY DEF RowSoFar
<1> QED BY <1>1, <1>2, <1>3, <1>4, <1>5, <1>6 DEF InCell

LEMMA WriteCharKeeps ==
  ASSUME DedupInv, KeepInv, FormatInv, WriteChar
  PROVE  FormatInv'
<1>1. AtLine /\ chr > 0 /\ chr <= Len(Cell[1])
  BY DEF WriteChar
<1>2. /\ read \in Reading /\ RowsInv /\ Len(keep) \in Nat /\ Len(Names) \in Nat
      /\ line \in 0..Len(keep)
  BY <1>1, FormatTypes
<1>3. /\ col \in 1..Len(Names) /\ Cell # Null
      /\ Cell[1] \in Seq(Char) /\ Len(Cell[1]) \in Nat /\ chr \in 1..Len(Cell[1])
      /\ RowReads(read.row, Line(line), col - 1)
  BY <1>1, InCellFacts
<1>4. PICK text \in Seq(Char) : read.field = InQuotes(text) /\ WithoutNUL(text, Cell[1], chr - 1)
  BY <1>1, InCellFacts
<1> DEFINE c == Cell[1][chr]
<1>5. /\ c \in Char /\ chr - 1 \in Nat /\ (chr - 1) + 1 = chr /\ chr + 1 \in Nat
      /\ (chr + 1) - 1 = chr /\ chr + 1 <= Len(Cell[1]) + 1 /\ chr + 1 > 0
  BY <1>3
<1>6. /\ read' = quote_into(c) /\ chr' = chr + 1 /\ col' = col /\ line' = line
      /\ batches' = batches /\ keep' = keep /\ stage = "format" /\ stage' = "format"
  BY <1>1 DEF WriteChar, AtLine
<1>7. /\ read' \in Reading /\ read'.rows = read.rows /\ read'.row = read.row
      /\ \E t \in Seq(Char) : read'.field = InQuotes(t) /\ WithoutNUL(t, Cell[1], chr)
  <2>1. CASE c = NUL
    <3>1. WithoutNUL(text, Cell[1], chr)
      BY <1>4, <1>5, <2>1, NULIsLeftOut
    <3> QED BY <1>2, <1>4, <1>6, <2>1, <3>1 DEF quote_into
  <2>2. ASSUME c # NUL
        PROVE  Append(text, c) \in Seq(Char) /\ WithoutNUL(Append(text, c), Cell[1], chr)
    <3>1. WithoutNUL(Append(text, Cell[1][(chr - 1) + 1]), Cell[1], (chr - 1) + 1)
      BY <1>4, <1>5, <2>2, CharIsAppended
    <3>2. Append(text, c) \in Seq(Char)
      BY <1>5, AppendProperties
    <3> QED BY <1>5, <3>1, <3>2
  <2>3. CASE c = Quote /\ c # NUL
    <3>1. read' = ReadChar(ReadChar(read, Quote), Quote)
      BY <1>6, <2>3 DEF quote_into
    <3>2. /\ read' \in Reading /\ read'.rows = read.rows /\ read'.row = read.row
          /\ read'.field = InQuotes(Append(text, Quote))
      BY <1>2, <1>4, <1>5, <2>3, <3>1, DoubledQuote
    <3> QED BY <2>2, <2>3, <3>2
  <2>4. CASE c # Quote /\ c # NUL
    <3>1. read' = ReadChar(read, c)
      BY <1>6, <2>4 DEF quote_into
    <3> HIDE DEF c
    <3>2. /\ read' \in Reading /\ read'.rows = read.rows /\ read'.row = read.row
          /\ read'.field = InQuotes(Append(text, c))
      BY <1>2, <1>4, <1>5, <2>4, <3>1, CharInQuotes
    <3> QED BY <2>2, <2>4, <3>2
  <2> QED BY <2>1, <2>3, <2>4
<1> HIDE DEF c
<1>8. CursorInv'
  BY <1>2, <1>3, <1>5, <1>6 DEF CursorInv
<1>9. RowsInv'
  BY <1>2, <1>6, <1>7, RowsStay
<1>10. (\A n : (Line(n))' = Line(n)) /\ Line(line)' = Line(line)
  BY <1>6, LineStays
<1>11. Cell' = Cell
  BY <1>6, <1>10 DEF Cell
<1>12. FieldInv'
  <2>1. chr' - 1 = chr /\ chr' > 0 /\ chr' # 0
    BY <1>5, <1>6
  <2>2. \E t \in Seq(Char) : read'.field = InQuotes(t) /\ WithoutNUL(t, Cell[1], chr' - 1)
    BY <1>7, <2>1
  <2>3. InCell'
    BY <1>2, <1>3, <1>5, <1>6, <1>11, <2>2 DEF InCell
  <2> QED BY <2>1, <2>3 DEF FieldInv
<1>13. RowReads(RowSoFar, Line(line), col - 1)'
  <2>1. RowSoFar' = read.row
    BY <1>5, <1>6, <1>7 DEF RowSoFar
  <2> QED BY <1>3, <1>6, <1>10, <2>1 DEF RowReads
<1> QED BY <1>6, <1>7, <1>8, <1>9, <1>12, <1>13 DEF FormatInv

LEMMA EndCellKeeps ==
  ASSUME DedupInv, KeepInv, FormatInv, EndCell
  PROVE  FormatInv'
<1>1. AtLine /\ chr > 0 /\ chr > Len(Cell[1])
  BY DEF EndCell
<1>2. /\ read \in Reading /\ RowsInv /\ Len(keep) \in Nat /\ Len(Names) \in Nat
      /\ line \in 0..Len(keep)
  BY <1>1, FormatTypes
<1>3. /\ col \in 1..Len(Names) /\ Cell # Null /\ Len(Cell[1]) \in Nat /\ chr - 1 = Len(Cell[1])
      /\ RowReads(read.row, Line(line), col - 1)
  BY <1>1, InCellFacts
<1>4. PICK text \in Seq(Char) : read.field = InQuotes(text) /\ WithoutNUL(text, Cell[1], Len(Cell[1]))
  BY <1>1, <1>3, InCellFacts
<1>5. /\ read' = ReadChar(read, Quote) /\ chr' = 0 /\ col' = col + 1 /\ line' = line
      /\ batches' = batches /\ keep' = keep /\ stage = "format" /\ stage' = "format"
  BY <1>1 DEF EndCell, AtLine
<1>6. /\ read' \in Reading /\ read'.rows = read.rows /\ read'.row = read.row
      /\ read'.field = [text |-> text, quoted |-> TRUE, open |-> FALSE]
  BY <1>2, <1>4, <1>5, QuoteCloses
<1>7. Loadable(read'.field) = <<text>> /\ <<text>> \in Seq(Seq(Char))
  BY <1>6 DEF Loadable
<1>8. CursorInv'
  BY <1>2, <1>3, <1>5 DEF CursorInv
<1>9. RowsInv'
  BY <1>2, <1>5, <1>6, RowsStay
<1>10. (\A n : (Line(n))' = Line(n)) /\ Line(line)' = Line(line)
  BY <1>5, LineStays
<1>11. FieldInv'
  BY <1>3, <1>5, <1>6 DEF FieldInv
<1>12. RowReads(RowSoFar, Line(line), col - 1)'
  <2>1. RowSoFar' = Append(read.row, <<text>>)
    <3>1. chr' = 0 /\ col' > 1
      BY <1>3, <1>5
    <3> QED BY <1>6, <1>7, <3>1 DEF RowSoFar
  <2>2. ReadsAs(<<text>>, Cell)
    BY <1>3, <1>4 DEF ReadsAs, Null
  <2>3. col - 1 \in Nat /\ (col - 1) + 1 = col /\ col' - 1 = col
    BY <1>3, <1>5
  <2>4. ReadsAs(<<text>>, Line(line)[(col - 1) + 1])
    BY <2>2, <2>3 DEF Cell
  <2>5. RowReads(Append(read.row, <<text>>), Line(line), (col - 1) + 1)
    BY <1>3, <1>7, <2>3, <2>4, RowGrows
  <2> QED BY <1>10, <2>1, <2>3, <2>5 DEF RowReads
<1> QED BY <1>5, <1>6, <1>8, <1>9, <1>11, <1>12 DEF FormatInv

LEMMA EndLineKeeps ==
  ASSUME DedupInv, KeepInv, FormatInv, EndLine
  PROVE  FormatInv'
<1>1. AtLine /\ chr = 0 /\ col > Len(Names)
  BY DEF EndLine
<1>2. /\ read \in Reading /\ RowsInv /\ FieldInv /\ Len(keep) \in Nat /\ Len(Names) \in Nat
      /\ line \in 0..Len(keep) /\ col = Len(Names) + 1 /\ col > 1
      /\ RowReads(RowSoFar, Line(line), Len(Names))
  BY <1>1, FormatTypes
<1>3. ~read.field.open /\ RowSoFar = Append(read.row, Loadable(read.field))
  BY <1>1, <1>2 DEF FieldInv, RowSoFar
<1>4. /\ read' = ReadChar(read, Newline) /\ chr' = 0 /\ col' = 1 /\ line' = line + 1
      /\ batches' = batches /\ keep' = keep /\ stage = "format" /\ stage' = "format"
  BY <1>1 DEF EndLine, AtLine
<1>5. /\ read' \in Reading /\ read'.rows = Append(read.rows, RowSoFar)
      /\ read'.row = << >> /\ read'.field = NoField
  BY <1>2, <1>3, <1>4, NewlineRead
<1>6. CursorInv'
  BY <1>2, <1>4 DEF CursorInv
<1>7. \A n : (Line(n))' = Line(n)
  BY <1>4, LineStays
<1>8. RowsInv'
  <2>1. read.rows \in Seq(LoadedRow) /\ Len(read.rows) = line /\ RowSoFar \in LoadedRow
    BY <1>2 DEF Reading, RowsInv, RowReads
  <2>2. /\ Len(read'.rows) = line + 1 /\ read'.rows[line + 1] = RowSoFar
        /\ \A n \in 1..line : read'.rows[n] = read.rows[n]
    BY <1>5, <2>1, AppendProperties
  <2>3. ASSUME NEW n \in 1..line + 1 PROVE RowReads(read'.rows[n], Line(n - 1), Len(Names))
    <3>1. CASE n \in 1..line
      BY <1>2, <2>2, <3>1 DEF RowsInv
    <3>2. CASE n = line + 1
      <4>1. n - 1 = line
        BY <1>2, <3>2
      <4> QED BY <1>2, <2>2, <3>2, <4>1
    <3>3. n \in 1..line \/ n = line + 1
      BY <1>2
    <3> QED BY <3>1, <3>2, <3>3
  <2> QED BY <1>4, <1>7, <2>2, <2>3 DEF RowsInv
<1>9. FieldInv'
  BY <1>4, <1>5 DEF FieldInv
<1>10. RowReads(RowSoFar, Line(line), col - 1)'
  <2>1. RowSoFar' = << >> /\ col' - 1 = 0
    BY <1>4, <1>5 DEF RowSoFar
  <2> QED BY <2>1, NoRow DEF RowReads
<1> QED BY <1>4, <1>5, <1>6, <1>8, <1>9, <1>10 DEF FormatInv

LEMMA DedupStepsFormat ==
  ASSUME DedupInv, KeepInv, FormatInv, dedup_last_wins
  PROVE  FormatInv'
<1>1. CASE pk_key \/ Insert \/ NextBatch \/ Keep
  BY <1>1 DEF FormatInv, pk_key, Insert, NextBatch, Keep, AtRow
<1>2. CASE Collect
  <2>1. stage = "dedup" /\ ~AtRow
    <3>1. pos[1] \in Nat /\ Len(batches) \in Nat
      BY LenProperties DEF DedupInv, FileInv, Above0
    <3> QED BY <1>2, <3>1 DEF Collect, AtRow
  <2>2. col = 1
    BY <2>1 DEF DedupInv, KeyInv
  <2> QED BY <1>2, <2>1, <2>2 DEF FormatInv, Collect
<1>3. CASE Kept
  <2>1. /\ stage = "keep" /\ line = 0 /\ chr = 0 /\ read = NothingRead /\ col = 1
        /\ line' = 0 /\ chr' = 0 /\ read' = NothingRead /\ col' = 1 /\ stage' = "format"
    BY <1>3 DEF FormatInv, Kept
  <2>2. keep' = keep /\ Len(keep) \in Nat /\ Len(Names) \in Nat
    BY <1>3, LenProperties, TableAssumption DEF Kept, KeepInv
  <2>3. CursorInv'
    BY <2>1, <2>2 DEF CursorInv
  <2>4. RowsInv'
    BY <2>1 DEF RowsInv, NothingRead
  <2>5. FieldInv'
    BY <2>1 DEF FieldInv, NothingRead
  <2>6. RowReads(RowSoFar, Line(line), col - 1)'
    <3>1. RowSoFar' = << >> /\ col' - 1 = 0
      BY <2>1 DEF RowSoFar, NothingRead
    <3> QED BY <3>1, NoRow DEF RowReads
  <2> QED BY <2>1, <2>3, <2>4, <2>5, <2>6, NothingReadType DEF FormatInv
<1> QED BY <1>1, <1>2, <1>3 DEF dedup_last_wins

LEMMA RenderedKeeps ==
  ASSUME DedupInv, KeepInv, FormatInv, Rendered \/ UNCHANGED vars
  PROVE  FormatInv'
<1>1. /\ UNCHANGED <<batches, col, keep, line, chr, read>>
      /\ stage' = stage \/ (stage = "format" /\ stage' = "rendered" /\ line > Len(keep))
  BY DEF Rendered, vars
<1>2. (\A n : (Line(n))' = Line(n)) /\ Line(line)' = Line(line) /\ Cell' = Cell
  <2>1. \A n : (Line(n))' = Line(n)
    BY <1>1, LineStays
  <2>2. Line(line)' = Line(line)
    BY <1>1, <2>1
  <2> QED BY <1>1, <2>1, <2>2 DEF Cell
<1>3. ASSUME stage \in {"format", "rendered"}
      PROVE  /\ CursorInv' /\ read' \in Reading /\ RowsInv' /\ FieldInv'
             /\ RowReads(RowSoFar, Line(line), col - 1)'
  <2>1. CursorInv /\ read \in Reading /\ RowsInv /\ FieldInv /\ RowReads(RowSoFar, Line(line), col - 1)
    BY <1>3 DEF FormatInv
  <2>2. CursorInv' /\ read' \in Reading
    BY <1>1, <2>1 DEF CursorInv
  <2>3. RowsInv'
    BY <1>1, <2>1, RowsStay
  <2>4. FieldInv'
    BY <1>1, <1>2, <2>1 DEF FieldInv, InCell
  <2>5. RowReads(RowSoFar, Line(line), col - 1)'
    <3>1. RowSoFar' = RowSoFar
      BY <1>1 DEF RowSoFar
    <3> QED BY <1>1, <1>2, <2>1, <3>1 DEF RowReads
  <2> QED BY <2>2, <2>3, <2>4, <2>5
<1>4. stage' = "rendered" => line' = Len(keep') + 1
  <2>1. ASSUME stage = "format", line > Len(keep) PROVE line = Len(keep) + 1
    <3>1. line \in 0..Len(keep) + 1 /\ Len(keep) \in Nat
      BY <2>1, LenProperties DEF FormatInv, CursorInv, KeepInv
    <3> QED BY <2>1, <3>1
  <2> QED BY <1>1, <2>1 DEF FormatInv
<1> QED BY <1>1, <1>3, <1>4 DEF FormatInv

-----------------------------------------------------------------------------
(***************************************************************************)
(* What every reachable state satisfies.                                   *)
(***************************************************************************)
RenderInv == DedupInv /\ KeepInv /\ FormatInv

LEMMA RenderInvHolds == Spec => []RenderInv
<1>1. Init => RenderInv
  <2> SUFFICES ASSUME Init PROVE RenderInv
    OBVIOUS
  <2>1. KeepInv
    <3>1. keep = << >> /\ stage = "dedup"
      BY DEF Init
    <3> QED BY <3>1 DEF KeepInv
  <2>2. FormatInv
    BY DEF Init, FormatInv
  <2> QED BY <2>1, <2>2, DedupInit DEF RenderInv
<1>2. ASSUME RenderInv, [render]_vars PROVE RenderInv'
  <2> USE <1>2 DEF RenderInv
  <2>1. CASE dedup_last_wins
    <3>1. FormatInv'
      BY <2>1, DedupStepsFormat
    <3>2. CASE pk_key
      <4>1. KeepInv'
        BY <3>2, StayingStays DEF KeepInv, pk_key, AtRow
      <4> QED BY <3>1, <3>2, <4>1, pk_keyKeeps
    <3>3. CASE Insert
      <4>1. KeepInv'
        BY <3>3, StayingStays DEF KeepInv, Insert, AtRow
      <4> QED BY <3>1, <3>3, <4>1, InsertKeeps
    <3>4. CASE NextBatch
      <4>1. KeepInv'
        BY <3>4, StayingStays DEF KeepInv, NextBatch
      <4> QED BY <3>1, <3>4, <4>1, NextBatchKeeps
    <3>5. CASE Collect
      BY <3>1, <3>5, CollectKeeps
    <3>6. CASE Keep
      BY <3>1, <3>6, KeepKeeps
    <3>7. CASE Kept
      BY <3>1, <3>7, KeptKeeps
    <3> QED BY <2>1, <3>2, <3>3, <3>4, <3>5, <3>6, <3>7 DEF dedup_last_wins
  <2>2. CASE format_rows
    <3>1. DedupInv' /\ KeepInv'
      <4>1. FormatStep
        BY <2>2 DEF FormatStep, format_rows, BeginCell, WriteChar, EndCell, EndLine, Rendered, AtLine
      <4> QED BY <4>1, FormatStepKeeps
    <3>2. FormatInv'
      BY <2>2, BeginCellKeeps, WriteCharKeeps, EndCellKeeps, EndLineKeeps, RenderedKeeps DEF format_rows
    <3> QED BY <3>1, <3>2
  <2>3. CASE UNCHANGED vars
    BY <2>3, StillKeeps, RenderedKeeps
  <2> QED BY <1>2, <2>1, <2>2, <2>3 DEF render
<1> QED BY <1>1, <1>2, PTL DEF Spec

(***************************************************************************)
(* dedup_last_wins keeps of the rows with one primary key the last one,    *)
(* and the rows' order; without upsert it keeps all of them.               *)
(***************************************************************************)
THEOREM LastVersionStaysHolds == Spec => []LastVersionStays
<1>1. RenderInv => LastVersionStays
  BY DEF RenderInv, LastVersionStays, KeepInv, KeptInOrder, Staying
<1> QED BY <1>1, RenderInvHolds, PTL

LEMMA LoadedRows ==
  ASSUME RenderInv, stage = "rendered"
  PROVE  /\ Len(keep) \in Nat /\ Len(Loaded) = Len(keep)
         /\ \A n \in 1..Len(keep) : RowReads(Loaded[n], RowAt(keep[n]), Len(Names))
<1>1. /\ read \in Reading /\ RowsInv /\ line = Len(keep) + 1 /\ Len(keep) \in Nat
  BY LenProperties DEF RenderInv, KeepInv, FormatInv
<1>2. read.rows \in Seq(LoadedRow) /\ Len(read.rows) = Len(keep) + 1
  BY <1>1 DEF Reading, RowsInv
<1>3. Len(Loaded) = Len(keep) /\ \A n \in 1..Len(keep) : Loaded[n] = read.rows[n + 1]
  BY <1>1, <1>2, SubSeqProperties DEF Loaded
<1>4. ASSUME NEW n \in 1..Len(keep) PROVE RowReads(Loaded[n], RowAt(keep[n]), Len(Names))
  <2>1. n + 1 \in 1..line /\ (n + 1) - 1 = n /\ n # 0
    BY <1>1
  <2>2. RowReads(read.rows[n + 1], Line((n + 1) - 1), Len(Names))
    BY <1>1, <2>1 DEF RowsInv
  <2>3. Line(n) = RowAt(keep[n])
    BY <2>1 DEF Line
  <2> QED BY <1>3, <2>1, <2>2, <2>3
<1> QED BY <1>1, <1>3, <1>4

(***************************************************************************)
(* The loader reads back the rows that were kept, cell by cell and without *)
(* their NULs, whatever quotes, delimiters and newlines their texts hold;  *)
(* NULL and the empty string stay apart.                                   *)
(***************************************************************************)
THEOREM LoadsAsWrittenHolds == Spec => []LoadsAsWritten
<1>1. RenderInv => LoadsAsWritten
  BY LoadedRows DEF LoadsAsWritten, RowReads
<1> QED BY <1>1, RenderInvHolds, PTL

-----------------------------------------------------------------------------
(***************************************************************************)
(* Keys without NULs are loaded as they were, so no two loaded rows share  *)
(* one.                                                                    *)
(***************************************************************************)
NoNULInKeys ==
  \A p \in Positions : \A c \in 1..Len(PkColumns) :
    KeyOf(RowAt(p))[c] # Null => \A i \in 1..Len(KeyOf(RowAt(p))[c][1]) : KeyOf(RowAt(p))[c][1][i] # NUL

LEMMA NothingLeftOut ==
  ASSUME NEW t \in Seq(Char), NEW s \in Seq(Char), WithoutNUL(t, s, Len(s)),
         \A i \in 1..Len(s) : s[i] # NUL
  PROVE  t = s
<1> DEFINE m == Len(t)
           n == Len(s)
<1>1. m \in Nat /\ n \in Nat
  BY LenProperties
<1>2. PICK from : EmbedsAt(from, t, s, n)
  BY WithoutNULEmbeds
<1>3. /\ from \in [1..m -> 1..n]
      /\ \A i, j \in 1..m : i < j => from[i] < from[j]
      /\ \A i \in 1..m : t[i] = s[from[i]]
      /\ \A i \in 1..n : \E j \in 1..m : from[j] = i
  BY <1>2 DEF EmbedsAt
<1> HIDE DEF m, n
<1> DEFINE T == {i \in 0..n : i # 0 => i \in 1..m /\ from[i] = i}
<1>4. 0 \in T
  BY <1>1
<1>5. ASSUME NEW i \in 0..n - 1, i \in T PROVE i + 1 \in T
  <2>1. i + 1 \in 1..n /\ i + 1 \in 0..n /\ i \in Nat
    BY <1>1
  <2>2. PICK j \in 1..m : from[j] = i + 1
    BY <1>3, <2>1
  <2>3. i < j
    <3>1. CASE i = 0
      BY <1>1, <3>1
    <3>2. CASE i # 0
      <4>1. i \in 1..m /\ from[i] = i
        BY <1>5, <3>2
      <4>2. j # i
        BY <2>1, <2>2, <4>1
      <4>3. ~(j < i)
        <5>1. ASSUME j < i PROVE FALSE
          <6>1. from[j] < from[i]
            BY <1>3, <4>1, <5>1
          <6> QED BY <2>1, <2>2, <4>1, <6>1
        <5> QED BY <5>1
      <4> QED BY <1>1, <2>1, <4>2, <4>3
    <3> QED BY <3>1, <3>2
  <2>4. i + 1 \in 1..m
    BY <1>1, <2>1, <2>3
  <2>5. from[i + 1] \in 1..n /\ from[i + 1] <= i + 1
    <3>1. from[i + 1] \in 1..n
      BY <1>3, <2>4
    <3>2. CASE j = i + 1
      BY <2>1, <2>2, <3>1, <3>2
    <3>3. CASE j # i + 1
      <4>1. i + 1 < j
        BY <1>1, <2>1, <2>3, <3>3
      <4> QED BY <1>1, <1>3, <2>1, <2>2, <2>4, <3>1, <4>1
    <3> QED BY <3>1, <3>2, <3>3
  <2>6. from[i + 1] > i
    <3>1. CASE i = 0
      BY <1>1, <2>5, <3>1
    <3>2. CASE i # 0
      <4>1. i \in 1..m /\ from[i] = i /\ i < i + 1
        BY <1>5, <2>1, <3>2
      <4>2. from[i] < from[i + 1]
        BY <1>3, <2>4, <4>1
      <4> QED BY <4>1, <4>2
    <3> QED BY <3>1, <3>2
  <2>7. from[i + 1] = i + 1
    BY <1>1, <2>1, <2>5, <2>6
  <2> QED BY <2>1, <2>4, <2>7
<1>6. \A i \in 1..n : i \in 1..m /\ from[i] = i
  <2> HIDE DEF T
  <2>1. 0..n \subseteq T
    BY <1>1, <1>4, <1>5, UpTo
  <2>2. \A i \in 1..n : i \in 0..n /\ i # 0
    BY <1>1
  <2> QED BY <2>1, <2>2 DEF T
<1>7. m = n
  <2>1. n <= m
    <3>1. CASE n = 0
      BY <1>1, <3>1
    <3>2. CASE n # 0
      BY <1>1, <1>6, <3>2
    <3> QED BY <3>1, <3>2
  <2>2. ~(n < m)
    <3> SUFFICES ASSUME n < m PROVE FALSE
      OBVIOUS
    <3>1. m \in 1..m /\ from[m] \in 1..n
      BY <1>1, <1>3
    <3>2. from[m] \in 1..m /\ from[from[m]] = from[m] /\ from[m] < m
      BY <1>1, <1>6, <3>1
    <3>3. from[from[m]] < from[m]
      BY <1>3, <3>1, <3>2
    <3> QED BY <1>1, <3>1, <3>2, <3>3
  <2> QED BY <1>1, <2>1, <2>2
<1>8. \A i \in 1..Len(t) : t[i] = s[i]
  BY <1>3, <1>6, <1>7 DEF m
<1> QED BY <1>7, <1>8, SeqEqual DEF m, n

LEMMA ReadsAsItself ==
  ASSUME NEW cell \in Seq(Seq(Char)), NEW v \in CellValue, NEW w \in CellValue,
         ReadsAs(cell, v), ReadsAs(cell, w),
         v # Null => \A i \in 1..Len(v[1]) : v[1][i] # NUL,
         w # Null => \A i \in 1..Len(w[1]) : w[1][i] # NUL
  PROVE  v = w
<1>1. (v = Null <=> cell = Null) /\ (w = Null <=> cell = Null)
  BY DEF ReadsAs
<1>2. CASE cell # Null
  <2>1. v # Null /\ w # Null
    BY <1>1, <1>2
  <2>2. v = <<v[1]>> /\ w = <<w[1]>> /\ v[1] \in Seq(Char) /\ w[1] \in Seq(Char)
    BY <2>1, CellFields
  <2>3. WithoutNUL(cell[1], v[1], Len(v[1])) /\ WithoutNUL(cell[1], w[1], Len(w[1]))
    BY <2>1 DEF ReadsAs
  <2>4. cell[1] \in Seq(Char)
    <3>1. Len(cell) \in Nat /\ Len(cell) # 0
      BY <1>2, LenProperties, EmptySeq DEF Null
    <3>2. 1 \in 1..Len(cell)
      BY <3>1
    <3> QED BY <3>2
  <2>5. cell[1] = v[1] /\ cell[1] = w[1]
    BY <2>1, <2>2, <2>3, <2>4, NothingLeftOut
  <2> QED BY <2>2, <2>5
<1> QED BY <1>1, <1>2

(***************************************************************************)
(* When no key holds a NUL, the loader finds no two rows with one key: the *)
(* load is not rejected for a duplicate.                                   *)
(***************************************************************************)
THEOREM OneRowPerLoadedKeyHolds == Spec => [](NoNULInKeys => OneRowPerLoadedKey)
<1>1. ASSUME RenderInv, NoNULInKeys PROVE OneRowPerLoadedKey
  <2> USE <1>1
  <2> SUFFICES ASSUME stage = "rendered", upsert, NEW i \in 1..Len(Loaded), NEW j \in 1..Len(Loaded),
                      KeyOf(Loaded[i]) = KeyOf(Loaded[j])
               PROVE  i = j
    BY DEF OneRowPerLoadedKey
  <2>1. /\ Len(keep) \in Nat /\ i \in 1..Len(keep) /\ j \in 1..Len(keep)
        /\ RowReads(Loaded[i], RowAt(keep[i]), Len(Names))
        /\ RowReads(Loaded[j], RowAt(keep[j]), Len(Names))
    BY LoadedRows
  <2>2. /\ \A n \in 1..Len(keep) : keep[n] \in LastVersions
        /\ \A m, n \in 1..Len(keep) : m < n => Before(keep[m], keep[n])
    BY DEF RenderInv, KeepInv, KeptInOrder, Staying
  <2>3. keep[i] \in Positions /\ keep[j] \in Positions
    BY <2>1, <2>2 DEF LastVersions
  <2>4. RowAt(keep[i]) \in Row /\ RowAt(keep[j]) \in Row
    BY <2>3, PositionTypes DEF RenderInv, DedupInv, FileInv
  <2>5. ASSUME NEW c \in 1..Len(PkColumns) PROVE KeyOf(RowAt(keep[i]))[c] = KeyOf(RowAt(keep[j]))[c]
    <3> DEFINE d == PkColumns[c]
    <3>1. d \in 1..Len(Names)
      BY KeyTypes
    <3>2. \A row : KeyOf(row)[c] = row[d]
      BY DEF KeyOf
    <3> HIDE DEF d
    <3>3. Loaded[i][d] = Loaded[j][d]
      BY <3>2
    <3>4. /\ ReadsAs(Loaded[i][d], RowAt(keep[i])[d]) /\ ReadsAs(Loaded[j][d], RowAt(keep[j])[d])
          /\ Loaded[i][d] \in Seq(Seq(Char))
      BY <2>1, <3>1 DEF RowReads, LoadedRow
    <3>5. RowAt(keep[i])[d] \in CellValue /\ RowAt(keep[j])[d] \in CellValue
      BY <2>4, <3>1 DEF Row
    <3>6. RowAt(keep[i])[d] = RowAt(keep[j])[d]
      BY <2>3, <3>2, <3>3, <3>4, <3>5, ReadsAsItself DEF NoNULInKeys
    <3> QED BY <3>2, <3>6
  <2>6. KeyOf(RowAt(keep[i])) = KeyOf(RowAt(keep[j]))
    BY <2>4, <2>5, KeyTypes DEF KeyCells
  <2>7. ~Before(keep[i], keep[j]) /\ ~Before(keep[j], keep[i])
    BY <2>1, <2>2, <2>3, <2>6 DEF LastVersions
  <2> QED BY <2>1, <2>2, <2>7
<1>2. RenderInv => (NoNULInKeys => OneRowPerLoadedKey)
  BY <1>1
<1> QED BY <1>2, RenderInvHolds, PTL

=============================================================================
