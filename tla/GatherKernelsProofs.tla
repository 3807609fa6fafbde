------------------------ MODULE GatherKernelsProofs ------------------------
(***************************************************************************)
(* Theorems about GatherKernels: the index of the records that is read     *)
(* through a sliding buffer is the one read header by header, and that of  *)
(* the layout the file was written in, of whole files only.                *)
(***************************************************************************)
EXTENDS GatherKernels, SequenceFacts

------------------------------------------------------------------------------
(* Files, cell by cell *)

\* The parts of the files' declarations that the rest needs.
LEMMA Declared ==
  ASSUME NEW f \in Files
  PROVE  /\ Columns[f] \in ColumnSeqs /\ Columns[f] # << >>
         /\ Records[f] \in Seq(Nat) /\ Len(Records[f]) \in Nat \ {0}
         /\ Len(Columns[f]) \in Nat \ {0} /\ DOMAIN Columns[f] = 1..Len(Columns[f])
         /\ \A r \in 1..Len(Records[f]) : Records[f][r] \in Nat
         /\ \A k \in 1..Len(Columns[f]) :
              Columns[f][k].name \in STRING /\ Columns[f][k].size \in Nat \ {0}
         /\ Preamble \in Nat /\ HeaderCells \in Nat \ {0} /\ BodyAlign \in Nat \ {0}
<1>1. /\ Records[f] \in Seq(Nat) /\ Len(Records[f]) > 0 /\ Len(Columns[f]) > 0
      /\ Columns[f] \in Seq([name : STRING, size : Nat \ {0}])
      /\ Preamble \in Nat /\ HeaderCells \in Nat \ {0} /\ BodyAlign \in Nat \ {0}
  BY LayoutAssumption
<1>2. \A k \in 1..Len(Columns[f]) : Columns[f][k] \in [name : STRING, size : Nat \ {0}]
  <2> DEFINE c == Columns[f]
  <2>1. c \in Seq([name : STRING, size : Nat \ {0}])
    BY <1>1
  <2> HIDE DEF c
  <2>2. \A k \in 1..Len(c) : c[k] \in [name : STRING, size : Nat \ {0}]
    BY <2>1, ElementOfSeq
  <2> QED
    BY <2>2 DEF c
<1>3. Columns[f] \in ColumnSeqs /\ Columns[f] # << >>
  BY <1>1, EmptySeq DEF ColumnSeqs
<1> QED
  BY <1>1, <1>2, <1>3

\* The columns of a row are so many cells.
LEMMA RowSizeType == ASSUME NEW f \in Files PROVE RowSize(f) \in Nat
  BY Declared, RowCellsType DEF RowSize

\* The records before one have so many rows.
LEMMA FirstRowType ==
  ASSUME NEW f \in Files, NEW r \in 0..Len(Records[f])
  PROVE  Total(SubSeq(Records[f], 1, r)) \in Nat
<1> DEFINE s == SubSeq(Records[f], 1, r)
<1>1. r \in Nat /\ Len(s) = r /\ \A i \in 1..r : s[i] \in Nat
  BY Declared
<1> HIDE DEF s
<1>2. Total(s) \in Nat
  BY <1>1, TotalNat
<1> QED
  BY <1>2 DEF s

\* A record is a header and the room of its body.
LEMMA RecordParts ==
  ASSUME NEW f \in Files, NEW r \in 1..Len(Records[f])
  PROVE  /\ BodySize(f, r) \in Nat
         /\ RecordOf(f, r) \in Seq(CellType)
         /\ Len(RecordOf(f, r)) = BodySize(f, r) + HeaderCells
<1>1. FirstRowOf(f, r) \in Int
  <2>1. r - 1 \in 0..Len(Records[f])
    BY Declared
  <2> QED
    BY <2>1, FirstRowType DEF FirstRowOf
<1>2. /\ Columns[f] \in ColumnSeqs /\ Columns[f] # << >> /\ Records[f][r] \in Nat
      /\ HeaderCells \in Nat /\ BodyAlign \in Nat \ {0}
  BY Declared
<1>3. BodyRoom(Columns[f], Records[f][r], BodyAlign) \in Nat
  BY <1>1, <1>2, BodyFits
<1>4. LET laid == LaidOut(Columns[f], Records[f][r], FirstRowOf(f, r), HeaderCells, BodyAlign)
      IN  /\ laid \in Seq(CellType)
          /\ Len(laid) = BodyRoom(Columns[f], Records[f][r], BodyAlign) + HeaderCells
  <2> DEFINE columns == Columns[f]  m == Records[f][r]  first == FirstRowOf(f, r)
  <2>1. /\ columns \in ColumnSeqs /\ columns # << >> /\ m \in Nat /\ first \in Int
        /\ HeaderCells \in Nat /\ BodyAlign \in Nat \ {0}
    BY <1>1, <1>2
  <2> HIDE DEF columns, m, first
  <2>2. LaidOut(columns, m, first, HeaderCells, BodyAlign) \in Seq(CellType)
    BY <2>1, RecordLength
  <2>3. Len(LaidOut(columns, m, first, HeaderCells, BodyAlign)) = BodyRoom(columns, m, BodyAlign) + HeaderCells
    BY <2>1, RecordLengths, Zenon
  <2> QED
    BY <2>2, <2>3 DEF columns, m, first
<1> QED
  BY <1>3, <1>4 DEF RecordOf, BodySize

\* Where the header of record r is, or, past the last one, the end of the file.
HeaderPlace(f, r) == Preamble + Total([q \in 1..r |-> BodySize(f, q) + HeaderCells])

\* A header is a record's length behind the one before it.
LEMMA PlaceNext ==
  ASSUME NEW f \in Files, NEW r \in 1..Len(Records[f])
  PROVE  HeaderPlace(f, r) = HeaderPlace(f, r - 1) + BodySize(f, r) + HeaderCells
<1> DEFINE s(n) == [q \in 1..n |-> BodySize(f, q) + HeaderCells]
<1>1. r \in Nat \ {0} /\ r - 1 \in Nat
  BY Declared
<1>2. Len(s(r - 1)) = r - 1 /\ Len(s(r)) = r /\ \A i \in 1..(r - 1) : s(r)[i] = s(r - 1)[i]
  BY <1>1
<1>3. s(r)[r] = BodySize(f, r) + HeaderCells
  BY <1>1
<1>4. \A q \in 1..Len(Records[f]) : BodySize(f, q) + HeaderCells \in Nat
  BY RecordParts, Declared
<1>5. Total(s(r - 1)) \in Nat
  <2>1. \A i \in 1..(r - 1) : s(r - 1)[i] \in Nat
    BY <1>1, <1>4, Declared
  <2> HIDE DEF s
  <2> QED
    BY <1>1, <1>2, <2>1, TotalNat
<1> HIDE DEF s
<1>6. Total(s(r)) = Total(s(r - 1)) + s(r)[r]
  BY <1>1, <1>2, TotalMore
<1>7. HeaderPlace(f, r) = Preamble + Total(s(r)) /\ HeaderPlace(f, r - 1) = Preamble + Total(s(r - 1))
  BY Zenon DEF HeaderPlace, s
<1> QED
  BY <1>3, <1>5, <1>6, <1>7, Declared, RecordParts

\* The first header is behind the preamble.
LEMMA PlaceFirst == ASSUME NEW f \in Files PROVE HeaderPlace(f, 0) = Preamble
<1> DEFINE s == [q \in 1..0 |-> BodySize(f, q) + HeaderCells]
<1>1. Len(s) = 0
  OBVIOUS
<1> HIDE DEF s
<1>2. Total(s) = 0
  BY <1>1, TotalNone
<1> QED
  BY <1>2, Declared DEF HeaderPlace, s

\* Every header has a place.
LEMMA PlaceType ==
  ASSUME NEW f \in Files
  PROVE  \A r \in 0..Len(Records[f]) : HeaderPlace(f, r) \in Nat
<1> DEFINE n == Len(Records[f])
           S == {m \in Nat : HeaderPlace(f, m) \in Nat}
<1>1. n \in Nat /\ Preamble \in Nat /\ HeaderCells \in Nat
  BY Declared
<1>2. 0 \in S
  BY <1>1, PlaceFirst
<1>3. ASSUME NEW m \in 0..(n - 1), m \in S PROVE m + 1 \in S
  <2>1. m + 1 \in 1..n /\ (m + 1) - 1 = m
    BY <1>1
  <2>2. HeaderPlace(f, m + 1) = HeaderPlace(f, m) + BodySize(f, m + 1) + HeaderCells
    BY <2>1, PlaceNext
  <2>3. BodySize(f, m + 1) \in Nat
    BY <2>1, RecordParts
  <2> QED
    BY <1>1, <1>3, <2>2, <2>3
<1> HIDE DEF S, n
<1>4. \A m \in 0..(n - 1) : m \in S => m + 1 \in S
  BY <1>3
<1>5. \A m \in 0..n : m \in S
  BY <1>1, <1>2, <1>4, UpTo
<1> QED
  BY <1>5 DEF S, n

\* A header, and what follows it, before the next one.
LEMMA PlacesApart ==
  ASSUME NEW f \in Files, NEW q \in 0..Len(Records[f])
  PROVE  \A r \in (q + 1)..Len(Records[f]) : HeaderPlace(f, q) + HeaderCells <= HeaderPlace(f, r)
<1> DEFINE n == Len(Records[f]) - q - 1
           S == {m \in Nat : HeaderPlace(f, q) + HeaderCells <= HeaderPlace(f, q + 1 + m)}
<1>1. Len(Records[f]) \in Nat /\ HeaderCells \in Nat
  BY Declared
<1>2. CASE q = Len(Records[f])
  BY <1>1, <1>2
<1>3. CASE q < Len(Records[f])
  <2>1. n \in Nat
    BY <1>1, <1>3
  <2>2. 0 \in S
    <3>1. q + 1 \in 1..Len(Records[f]) /\ (q + 1) - 1 = q
      BY <1>1, <1>3
    <3>2. HeaderPlace(f, q + 1) = HeaderPlace(f, q) + BodySize(f, q + 1) + HeaderCells
      BY <3>1, PlaceNext
    <3>3. BodySize(f, q + 1) \in Nat /\ HeaderPlace(f, q) \in Nat /\ q + 1 + 0 = q + 1
      BY <3>1, RecordParts, PlaceType
    <3> QED
      BY <1>1, <3>2, <3>3
  <2>3. ASSUME NEW m \in 0..(n - 1), m \in S PROVE m + 1 \in S
    <3> DEFINE r == q + 1 + (m + 1)
    <3>1. r \in 1..Len(Records[f]) /\ r - 1 = q + 1 + m /\ r - 1 \in 0..Len(Records[f])
          /\ m + 1 \in Nat
      BY <1>1, <1>3
    <3>2. HeaderPlace(f, r) = HeaderPlace(f, r - 1) + BodySize(f, r) + HeaderCells
      BY <3>1, PlaceNext
    <3>3. BodySize(f, r) \in Nat /\ HeaderPlace(f, r - 1) \in Nat /\ HeaderPlace(f, q) \in Nat
      BY <3>1, RecordParts, PlaceType
    <3>4. HeaderPlace(f, q) + HeaderCells <= HeaderPlace(f, r - 1)
      BY <2>3, <3>1
    <3> HIDE DEF r
    <3>5. HeaderPlace(f, q) + HeaderCells <= HeaderPlace(f, r)
      BY <1>1, <3>2, <3>3, <3>4
    <3> QED
      BY <3>1, <3>5 DEF r
  <2> HIDE DEF S
  <2>4. \A m \in 0..n : m \in S
    <3>1. \A m \in 0..(n - 1) : m \in S => m + 1 \in S
      BY <2>3
    <3> HIDE DEF n
    <3> QED
      BY <2>1, <2>2, <3>1, UpTo
  <2>5. ASSUME NEW r \in (q + 1)..Len(Records[f])
        PROVE  HeaderPlace(f, q) + HeaderCells <= HeaderPlace(f, r)
    <3>1. r - q - 1 \in 0..n /\ q + 1 + (r - q - 1) = r
      BY <1>1
    <3>2. r - q - 1 \in S
      BY <2>4, <3>1
    <3> QED
      BY <3>1, <3>2 DEF S
  <2> QED
    BY <2>5
<1> QED
  BY <1>1, <1>2, <1>3

\* The file is as long as its layout says.
LEMMA FileLength ==
  ASSUME NEW f \in Files
  PROVE  FileEnd(f) = HeaderPlace(f, Len(Records[f]))
<1> DEFINE n == Len(Records[f])
           s == [r \in DOMAIN Records[f] |-> RecordOf(f, r)]
           sizes == [q \in 1..n |-> BodySize(f, q) + HeaderCells]
<1>1. n \in Nat \ {0} /\ DOMAIN Records[f] = 1..n /\ Preamble \in Nat
  BY Declared
<1>2. SeqsOf(CellType, s, n)
  <2>1. Len(s) = n
    BY <1>1
  <2>2. \A r \in 1..n : s[r] \in Seq(CellType)
    BY <1>1, RecordParts
  <2> HIDE DEF s
  <2> QED
    BY <1>1, <2>1, <2>2 DEF SeqsOf
<1>3. \A r \in 1..n : Len(s[r]) = BodySize(f, r) + HeaderCells
  BY <1>1, RecordParts
<1> HIDE DEF s, n
<1>4. FlattenSeq(s) \in Seq(CellType) /\ Len(FlattenSeq(s)) = Total(LengthsTo(s, n))
  BY <1>2, FlatLength
<1>5. Total(LengthsTo(s, n)) = Total(sizes)
  <2>1. /\ n \in Nat /\ Len(LengthsTo(s, n)) = n /\ Len(sizes) = n
        /\ \A r \in 1..n : LengthsTo(s, n)[r] = sizes[r]
    BY <1>1, <1>3 DEF LengthsTo
  <2> HIDE DEF sizes
  <2> QED
    BY <2>1, TotalSame
<1>6. Gap(Preamble) \in Seq(CellType) /\ Len(Gap(Preamble)) = Preamble
  BY <1>1, GapCells
<1>7. Len(Gap(Preamble) \o FlattenSeq(s)) = Preamble + Total(sizes)
  BY <1>4, <1>5, <1>6, ConcatProperties
<1>8. Image[f] = Gap(Preamble) \o FlattenSeq(s)
  BY Zenon DEF Image, Cells, s
<1> QED
  BY <1>7, <1>8, Zenon DEF FileEnd, HeaderPlace, sizes, n

------------------------------------------------------------------------------
(* The walks as functions of their own *)

\* The walk header by header is a function of the records gone through.
LEMMA PlainWalkExists ==
  ASSUME NEW f, NEW length, NEW faults, NEW n \in Nat
  PROVE  \E w : w = [i \in 0..n |-> IF i = 0 THEN WalkStart ELSE PlainStep(w[i - 1], f, length, faults, i - 1)]
<1> DEFINE Good(m) == \E w : w = [i \in 0..m |-> IF i = 0 THEN WalkStart ELSE PlainStep(w[i - 1], f, length, faults, i - 1)]
           S == {m \in Nat : Good(m)}
<1>1. Good(0)
  <2> DEFINE w == [i \in 0..0 |-> WalkStart]
  <2>1. w = [i \in 0..0 |-> IF i = 0 THEN WalkStart ELSE PlainStep(w[i - 1], f, length, faults, i - 1)]
    OBVIOUS
  <2> HIDE DEF w
  <2> QED
    BY <2>1
<1>2. ASSUME NEW m \in Nat, Good(m) PROVE Good(m + 1)
  <2>1. PICK w : w = [i \in 0..m |-> IF i = 0 THEN WalkStart ELSE PlainStep(w[i - 1], f, length, faults, i - 1)]
    BY <1>2
  <2> HIDE DEF Good, S
  <2> DEFINE g == [i \in 0..(m + 1) |-> IF i = m + 1 THEN PlainStep(w[m], f, length, faults, m) ELSE w[i]]
  <2>2. ASSUME NEW i \in 0..(m + 1)
        PROVE  g[i] = IF i = 0 THEN WalkStart ELSE PlainStep(g[i - 1], f, length, faults, i - 1)
    <3>1. CASE i = 0
      <4>1. 0 \in 0..m /\ 0 # m + 1
        OBVIOUS
      <4>2. w[0] = WalkStart
        BY <2>1, <4>1
      <4> QED
        BY <3>1, <4>1, <4>2
    <3>2. CASE i = m + 1
      <4>1. m \in 0..(m + 1) /\ m # m + 1 /\ i - 1 = m /\ i # 0
        BY <3>2
      <4>2. g[m] = w[m] /\ g[i] = PlainStep(w[m], f, length, faults, m)
        BY <3>2, <4>1
      <4> HIDE DEF g
      <4> QED
        BY <4>1, <4>2
    <3>3. CASE i \in 1..m
      <4>1. i \in 0..m /\ i - 1 \in 0..(m + 1) /\ i # 0 /\ i # m + 1 /\ i - 1 # m + 1 /\ i - 1 \in 0..m
        BY <3>3
      <4>2. w[i] = PlainStep(w[i - 1], f, length, faults, i - 1)
        BY <2>1, <4>1
      <4>3. g[i - 1] = w[i - 1] /\ g[i] = w[i]
        BY <4>1
      <4> HIDE DEF g
      <4> QED
        BY <4>1, <4>2, <4>3
    <3>4. i = 0 \/ i = m + 1 \/ i \in 1..m
      OBVIOUS
    <3> QED
      BY <3>1, <3>2, <3>3, <3>4
  <2>3. g = [i \in 0..(m + 1) |-> IF i = 0 THEN WalkStart ELSE PlainStep(g[i - 1], f, length, faults, i - 1)]
    BY <2>2
  <2> HIDE DEF g
  <2> QED
    BY <2>3 DEF Good
<1> HIDE DEF Good
<1>3. 0 \in S /\ \A m \in 0..(n - 1) : m \in S => m + 1 \in S
  BY <1>1, <1>2
<1> HIDE DEF S
<1>4. n \in S
  <2>1. \A m \in 0..n : m \in S
    BY <1>3, UpTo
  <2> QED
    BY <2>1
<1>5. Good(n)
  BY <1>4 DEF S
<1> QED
  BY <1>5 DEF Good

\* The walk, as a function w of how many records it has been through.
PlainTrace(f, length, faults, n, w) ==
  /\ PlainWalk(f, length, faults) = WalkEnd(w[n], f, length)
  /\ w[0] = WalkStart
  /\ \A m \in 0..(n - 1) : w[m + 1] = PlainStep(w[m], f, length, faults, m)

\* It is so for the whole file.
LEMMA PlainWalkSteps ==
  ASSUME NEW f, NEW length, NEW faults, NEW n \in Nat, Len(Records[f]) = n
  PROVE  \E w : PlainTrace(f, length, faults, n, w)
<1> DEFINE w == CHOOSE w : w = [i \in 0..n |-> IF i = 0 THEN WalkStart
                                              ELSE PlainStep(w[i - 1], f, length, faults, i - 1)]
<1>1. w = [i \in 0..n |-> IF i = 0 THEN WalkStart ELSE PlainStep(w[i - 1], f, length, faults, i - 1)]
  BY PlainWalkExists
<1>2. PlainWalk(f, length, faults) = WalkEnd(w[n], f, length)
  BY Zenon DEF PlainWalk
<1> HIDE DEF w
<1>3. w[0] = WalkStart
  BY <1>1
<1>4. ASSUME NEW m \in 0..(n - 1) PROVE w[m + 1] = PlainStep(w[m], f, length, faults, m)
  <2>1. m + 1 \in 0..n /\ m + 1 # 0 /\ (m + 1) - 1 = m
    OBVIOUS
  <2> QED
    BY <1>1, <2>1
<1> QED
  BY <1>2, <1>3, <1>4, Zenon DEF PlainTrace

\* The walk through a buffer is a function of the records gone through.
LEMMA BufferedWalkExists ==
  ASSUME NEW f, NEW length, NEW faults, NEW chunk, NEW n \in Nat
  PROVE  \E w : w = [i \in 0..n |-> IF i = 0 THEN WalkStart ELSE BufferedStep(w[i - 1], f, length, faults, chunk, i - 1)]
<1> DEFINE Good(m) == \E w : w = [i \in 0..m |-> IF i = 0 THEN WalkStart ELSE BufferedStep(w[i - 1], f, length, faults, chunk, i - 1)]
           S == {m \in Nat : Good(m)}
<1>1. Good(0)
  <2> DEFINE w == [i \in 0..0 |-> WalkStart]
  <2>1. w = [i \in 0..0 |-> IF i = 0 THEN WalkStart ELSE BufferedStep(w[i - 1], f, length, faults, chunk, i - 1)]
    OBVIOUS
  <2> HIDE DEF w
  <2> QED
    BY <2>1
<1>2. ASSUME NEW m \in Nat, Good(m) PROVE Good(m + 1)
  <2>1. PICK w : w = [i \in 0..m |-> IF i = 0 THEN WalkStart ELSE BufferedStep(w[i - 1], f, length, faults, chunk, i - 1)]
    BY <1>2
  <2> HIDE DEF Good, S
  <2> DEFINE g == [i \in 0..(m + 1) |-> IF i = m + 1 THEN BufferedStep(w[m], f, length, faults, chunk, m) ELSE w[i]]
  <2>2. ASSUME NEW i \in 0..(m + 1)
        PROVE  g[i] = IF i = 0 THEN WalkStart ELSE BufferedStep(g[i - 1], f, length, faults, chunk, i - 1)
    <3>1. CASE i = 0
      <4>1. 0 \in 0..m /\ 0 # m + 1
        OBVIOUS
      <4>2. w[0] = WalkStart
        BY <2>1, <4>1
      <4> QED
        BY <3>1, <4>1, <4>2
    <3>2. CASE i = m + 1
      <4>1. m \in 0..(m + 1) /\ m # m + 1 /\ i - 1 = m /\ i # 0
        BY <3>2
      <4>2. g[m] = w[m] /\ g[i] = BufferedStep(w[m], f, length, faults, chunk, m)
        BY <3>2, <4>1
      <4> HIDE DEF g
      <4> QED
        BY <4>1, <4>2
    <3>3. CASE i \in 1..m
      <4>1. i \in 0..m /\ i - 1 \in 0..(m + 1) /\ i # 0 /\ i # m + 1 /\ i - 1 # m + 1 /\ i - 1 \in 0..m
        BY <3>3
      <4>2. w[i] = BufferedStep(w[i - 1], f, length, faults, chunk, i - 1)
        BY <2>1, <4>1
      <4>3. g[i - 1] = w[i - 1] /\ g[i] = w[i]
        BY <4>1
      <4> HIDE DEF g
      <4> QED
        BY <4>1, <4>2, <4>3
    <3>4. i = 0 \/ i = m + 1 \/ i \in 1..m
      OBVIOUS
    <3> QED
      BY <3>1, <3>2, <3>3, <3>4
  <2>3. g = [i \in 0..(m + 1) |-> IF i = 0 THEN WalkStart ELSE BufferedStep(g[i - 1], f, length, faults, chunk, i - 1)]
    BY <2>2
  <2> HIDE DEF g
  <2> QED
    BY <2>3 DEF Good
<1> HIDE DEF Good
<1>3. 0 \in S /\ \A m \in 0..(n - 1) : m \in S => m + 1 \in S
  BY <1>1, <1>2
<1> HIDE DEF S
<1>4. n \in S
  <2>1. \A m \in 0..n : m \in S
    BY <1>3, UpTo
  <2> QED
    BY <2>1
<1>5. Good(n)
  BY <1>4 DEF S
<1> QED
  BY <1>5 DEF Good

\* The walk, as a function w of how many records it has been through.
BufferedTrace(f, length, faults, chunk, n, w) ==
  /\ BufferedWalk(f, length, faults, chunk) = WalkEnd(w[n], f, length)
  /\ w[0] = WalkStart
  /\ \A m \in 0..(n - 1) : w[m + 1] = BufferedStep(w[m], f, length, faults, chunk, m)

\* It is so for the whole file.
LEMMA BufferedWalkSteps ==
  ASSUME NEW f, NEW length, NEW faults, NEW chunk, NEW n \in Nat, Len(Records[f]) = n
  PROVE  \E w : BufferedTrace(f, length, faults, chunk, n, w)
<1> DEFINE w == CHOOSE w : w = [i \in 0..n |-> IF i = 0 THEN WalkStart
                                              ELSE BufferedStep(w[i - 1], f, length, faults, chunk, i - 1)]
<1>1. w = [i \in 0..n |-> IF i = 0 THEN WalkStart ELSE BufferedStep(w[i - 1], f, length, faults, chunk, i - 1)]
  BY BufferedWalkExists
<1>2. BufferedWalk(f, length, faults, chunk) = WalkEnd(w[n], f, length)
  BY Zenon DEF BufferedWalk
<1> HIDE DEF w
<1>3. w[0] = WalkStart
  BY <1>1
<1>4. ASSUME NEW m \in 0..(n - 1) PROVE w[m + 1] = BufferedStep(w[m], f, length, faults, chunk, m)
  <2>1. m + 1 \in 0..n /\ m + 1 # 0 /\ (m + 1) - 1 = m
    OBVIOUS
  <2> QED
    BY <1>1, <2>1
<1> QED
  BY <1>2, <1>3, <1>4, Zenon DEF BufferedTrace

------------------------------------------------------------------------------
(* One header *)

\* The header of record r is all there, and nothing is wrong with it.
GoodHeader(f, length, faults, r) ==
  /\ HeaderPlace(f, r) + HeaderCells <= length
  /\ \A k \in HeaderFaults : << r, k >> \notin faults

HeaderAt(f, r) == [k \in 1..HeaderCells |-> HeaderPlace(f, r) + k - 1]

\* Where the model says a record begins is where its cells are.
LEMMA StartIsPlace ==
  ASSUME NEW f \in Files
  PROVE  /\ DOMAIN RecordStartsBytes[f] = 0..(Len(Records[f]) - 1)
         /\ \A r \in 0..(Len(Records[f]) - 1) :
              /\ HeaderStart(f, r) = HeaderPlace(f, r)
              /\ RecordStartsBytes[f][r] = HeaderPlace(f, r) + HeaderCells
<1>1. RecordStartsBytes[f] = [r \in 0..(Len(Records[f]) - 1) |->
         Preamble + HeaderCells + Total([q \in 1..r |-> BodySize(f, q) + HeaderCells])]
  BY Zenon DEF RecordStartsBytes
<1>2. DOMAIN RecordStartsBytes[f] = 0..(Len(Records[f]) - 1)
  BY <1>1, Zenon
<1>3. ASSUME NEW r \in 0..(Len(Records[f]) - 1)
      PROVE  /\ HeaderStart(f, r) = HeaderPlace(f, r)
             /\ RecordStartsBytes[f][r] = HeaderPlace(f, r) + HeaderCells
  <2> DEFINE t == Total([q \in 1..r |-> BodySize(f, q) + HeaderCells])
  <2>1. RecordStartsBytes[f][r] = Preamble + HeaderCells + t
    BY <1>1, Zenon
  <2>2. HeaderPlace(f, r) = Preamble + t
    BY Zenon DEF HeaderPlace
  <2> HIDE DEF t
  <2>3. Preamble \in Nat /\ HeaderCells \in Nat /\ HeaderPlace(f, r) \in Nat
    BY Declared, PlaceType
  <2>5. t \in Int
    <3> DEFINE s == [q \in 1..r |-> BodySize(f, q) + HeaderCells]
    <3>1. r \in Nat /\ Len(s) = r /\ \A i \in 1..r : s[i] \in Nat
      BY <2>3, RecordParts, Declared
    <3> HIDE DEF s
    <3>2. Total(s) \in Nat
      BY <3>1, TotalNat
    <3> QED
      BY <3>2 DEF s, t
  <2>6. RecordStartsBytes[f][r] = HeaderPlace(f, r) + HeaderCells
    BY <2>1, <2>2, <2>3, <2>5
  <2>7. HeaderStart(f, r) = RecordStartsBytes[f][r] - HeaderCells
    BY Zenon DEF HeaderStart
  <2> QED
    BY <2>3, <2>6, <2>7
<1> QED
  BY <1>2, <1>3, Zenon

\* The cells of a header are those of one record.
LEMMA HeaderFound ==
  ASSUME NEW f \in Files, NEW r \in 0..(Len(Records[f]) - 1)
  PROVE  HeaderIn(f, HeaderAt(f, r)) = r
<1> DEFINE D == DOMAIN RecordStartsBytes[f]
           is(q) == HeaderAt(f, r) = [k \in 1..HeaderCells |-> HeaderStart(f, q) + k - 1]
<1>1. D = 0..(Len(Records[f]) - 1) /\ \A q \in D : HeaderStart(f, q) = HeaderPlace(f, q)
  BY StartIsPlace
<1>2. HeaderCells \in Nat \ {0} /\ Len(Records[f]) \in Nat
  BY Declared
<1>3. is(r)
  BY <1>1 DEF HeaderAt
<1>4. ASSUME NEW q \in D, is(q) PROVE q = r
  <2>1. HeaderPlace(f, q) \in Nat /\ HeaderPlace(f, r) \in Nat
    BY <1>1, <1>2, PlaceType
  <2>2. HeaderPlace(f, q) = HeaderPlace(f, r)
    <3>1. 1 \in 1..HeaderCells
      BY <1>2
    <3>2. HeaderAt(f, r)[1] = HeaderStart(f, q) + 1 - 1
      BY <1>4, <3>1
    <3>3. HeaderAt(f, r)[1] = HeaderPlace(f, r) + 1 - 1
      BY <3>1 DEF HeaderAt
    <3> QED
      BY <1>1, <2>1, <3>2, <3>3
  <2>3. q < r => HeaderPlace(f, q) + HeaderCells <= HeaderPlace(f, r)
    BY <1>1, <1>2, PlacesApart
  <2>4. r < q => HeaderPlace(f, r) + HeaderCells <= HeaderPlace(f, q)
    BY <1>1, <1>2, PlacesApart
  <2> QED
    BY <1>1, <1>2, <2>1, <2>2, <2>3, <2>4
<1>5. HeaderIn(f, HeaderAt(f, r)) = CHOOSE q \in D : is(q)
  BY <1>1, <1>3, Zenon DEF HeaderIn
<1> HIDE DEF is
<1>6. (CHOOSE q \in D : is(q)) = r
  BY <1>1, <1>3, <1>4, Zenon
<1> QED
  BY <1>5, <1>6

\* A header that the file has is read, another comes short.
LEMMA ReadOfHeader ==
  ASSUME NEW f \in Files, NEW r \in 0..(Len(Records[f]) - 1), NEW length \in Nat
  PROVE  IF HeaderPlace(f, r) + HeaderCells <= length
         THEN ReadAt(length, HeaderPlace(f, r), HeaderCells) = HeaderAt(f, r)
         ELSE Len(ReadAt(length, HeaderPlace(f, r), HeaderCells)) < HeaderCells
<1> DEFINE p == HeaderPlace(f, r)  c == Most(0, Least(HeaderCells, length - p))
<1>1. p \in Nat /\ HeaderCells \in Nat \ {0}
  BY Declared, PlaceType
<1>2. CASE p + HeaderCells <= length
  <2>1. c = HeaderCells
    BY <1>1, <1>2 DEF Most, Least
  <2> QED
    BY <1>2, <2>1, Zenon DEF ReadAt, HeaderAt
<1>3. CASE ~(p + HeaderCells <= length)
  <2>1. c \in Nat /\ c < HeaderCells
    BY <1>1, <1>3 DEF Most, Least
  <2> HIDE DEF c
  <2>2. Len([k \in 1..c |-> p + k - 1]) = c
    BY <2>1
  <2>3. ReadAt(length, p, HeaderCells) = [k \in 1..c |-> p + k - 1]
    BY Zenon DEF ReadAt, c
  <2> QED
    BY <1>3, <2>1, <2>2, <2>3
<1> QED
  BY <1>2, <1>3

\* A header is taken if it is all there and good.
LEMMA HeaderVerdict ==
  ASSUME NEW f \in Files, NEW r \in 0..(Len(Records[f]) - 1), NEW length \in Nat, NEW faults
  PROVE  LET e == HeaderError(f, faults, ReadAt(length, HeaderPlace(f, r), HeaderCells), r)
         IN  (e = None <=> GoodHeader(f, length, faults, r)) /\ e \in WalkErrors \cup {None}
<1> DEFINE cells == ReadAt(length, HeaderPlace(f, r), HeaderCells)
           e == HeaderError(f, faults, cells, r)
<1>1. None \notin Int /\ None \notin WalkErrors /\ r \in Int
  BY NoneAssumption, ErrorsAssumption
<1>2. CASE HeaderPlace(f, r) + HeaderCells <= length
  <2>1. cells = HeaderAt(f, r) /\ HeaderIn(f, cells) = r
    BY <1>2, ReadOfHeader, HeaderFound
  <2>2. Len(cells) = HeaderCells
    <3>1. HeaderCells \in Nat
      BY Declared
    <3> QED
      BY <2>1, <3>1 DEF HeaderAt
  <2>3. ~(Len(cells) < HeaderCells) /\ r # None
    BY <1>1, <2>2, Declared
  <2> HIDE DEF cells
  <2>4. e = IF << r, "magic" >> \in faults THEN "magic"
            ELSE IF << r, "index" >> \in faults THEN "index"
            ELSE IF << r, "checksum" >> \in faults THEN "checksum" ELSE None
    BY <2>1, <2>3, Zenon DEF HeaderError
  <2> HIDE DEF e
  <2>5. (e = None <=> \A k \in HeaderFaults : << r, k >> \notin faults) /\ e \in WalkErrors \cup {None}
    BY <1>1, <2>4 DEF HeaderFaults, WalkErrors
  <2> QED
    BY <1>2, <2>5 DEF GoodHeader, e, cells
<1>3. CASE ~(HeaderPlace(f, r) + HeaderCells <= length)
  <2>1. Len(cells) < HeaderCells
    BY <1>3, ReadOfHeader
  <2>2. e = "truncated"
    BY <2>1, Zenon DEF HeaderError
  <2> QED
    BY <1>1, <1>3, <2>2 DEF GoodHeader, WalkErrors
<1> QED
  BY <1>2, <1>3
------------------------------------------------------------------------------
(* One step of a walk *)

IsWalk(w) == w = [next |-> w.next, from |-> w.from, cells |-> w.cells, rows |-> w.rows,
                  bodies |-> w.bodies, counts |-> w.counts, error |-> w.error]

\* What the walks agree on.
SameWalk(v, w) == /\ v.next = w.next /\ v.rows = w.rows /\ v.bodies = w.bodies
                  /\ v.counts = w.counts /\ v.error = w.error

HeaderOf(w, from, cells) ==
  SubSeq(cells, w.next - from + 1, Least(w.next - from + HeaderCells, Len(cells)))

\* What a header, good or bad, does to a walk.
LEMMA TakeFields ==
  ASSUME NEW w, IsWalk(w), NEW f, NEW faults, NEW r, NEW from, NEW cells
  PROVE  LET e == HeaderError(f, faults, HeaderOf(w, from, cells), r)
             t == Take(w, f, faults, r, from, cells)
             body == w.next + HeaderCells
         IN  /\ IsWalk(t)
             /\ e # None =>
                  /\ t.next = w.next /\ t.rows = w.rows /\ t.bodies = w.bodies
                  /\ t.counts = w.counts /\ t.error = << e, r >>
             /\ e = None =>
                  /\ t.next = body + AlignUp(Records[f][r + 1] * RowSize(f), BodyAlign)
                  /\ t.from = from /\ t.cells = cells
                  /\ t.rows = Append(w.rows, Last(w.rows) + Records[f][r + 1])
                  /\ t.bodies = Append(w.bodies, body)
                  /\ t.counts = Append(w.counts, Records[f][r + 1])
                  /\ t.error = None
<1> DEFINE e == HeaderError(f, faults, HeaderOf(w, from, cells), r)
           count == Records[f][r + 1]
           body == w.next + HeaderCells
           next == body + AlignUp(count * RowSize(f), BodyAlign)
           rows == Append(w.rows, Last(w.rows) + count)
           bodies == Append(w.bodies, body)
           counts == Append(w.counts, count)
           t == Take(w, f, faults, r, from, cells)
<1>1. t = IF e # None THEN [w EXCEPT !.error = << e, r >>]
          ELSE [next |-> next, from |-> from, cells |-> cells, rows |-> rows,
                bodies |-> bodies, counts |-> counts, error |-> None]
  BY Zenon DEF Take, HeaderOf
<1> HIDE DEF e, next, rows, bodies, counts, t
<1>2. CASE e # None
  <2>1. t = [w EXCEPT !.error = << e, r >>]
    BY <1>1, <1>2
  <2>2. t = [next |-> w.next, from |-> w.from, cells |-> w.cells, rows |-> w.rows,
             bodies |-> w.bodies, counts |-> w.counts, error |-> << e, r >>]
    BY <2>1 DEF IsWalk
  <2>3. /\ t.next = w.next /\ t.rows = w.rows /\ t.bodies = w.bodies
        /\ t.counts = w.counts /\ t.error = << e, r >> /\ IsWalk(t)
    BY <2>2 DEF IsWalk
  <2> QED
    BY <1>2, <2>3 DEF e, t
<1>3. CASE e = None
  <2>1. t = [next |-> next, from |-> from, cells |-> cells, rows |-> rows,
             bodies |-> bodies, counts |-> counts, error |-> None]
    BY <1>1, <1>3
  <2>2. /\ t.next = next /\ t.from = from /\ t.cells = cells /\ t.rows = rows
        /\ t.bodies = bodies /\ t.counts = counts /\ t.error = None /\ IsWalk(t)
    BY <2>1 DEF IsWalk
  <2> QED
    BY <1>3, <2>2 DEF e, t, next, rows, bodies, counts
<1> QED
  BY <1>2, <1>3

\* A walk that has read nothing.
LEMMA StartFields ==
  /\ IsWalk(WalkStart)
  /\ WalkStart.next = Preamble /\ WalkStart.from = 0 /\ WalkStart.cells = << >>
  /\ WalkStart.rows = << 0 >> /\ WalkStart.bodies = << >> /\ WalkStart.counts = << >>
  /\ WalkStart.error = None
  BY DEF WalkStart, IsWalk

\* A header found in cells read from a place before it, or read on its own, is the same.
LEMMA HeaderInBuffer ==
  ASSUME NEW length \in Nat, NEW from \in Nat, NEW next \in Nat, NEW count \in Nat,
         NEW w, w.next = next, from <= next,
         next = from \/ next + HeaderCells <= from + Len(ReadAt(length, from, count)),
         next = from => HeaderCells <= count
  PROVE  HeaderOf(w, from, ReadAt(length, from, count)) = ReadAt(length, next, HeaderCells)
<1> DEFINE at == next - from
           n == Most(0, Least(count, length - from))
           m == Most(0, Least(HeaderCells, length - next))
           h == Least(at + HeaderCells, n)
           cells == ReadAt(length, from, count)
<1>1. HeaderCells \in Nat \ {0}
  BY LayoutAssumption
<1>2. n \in Nat /\ m \in Nat /\ at \in Nat
  BY <1>1 DEF Most, Least
<1>3. cells = [k \in 1..n |-> from + k - 1]
  BY Zenon DEF ReadAt
<1>4. Len(cells) = n /\ cells \in Seq(Int)
  <2> HIDE DEF cells, n
  <2>1. Len([k \in 1..n |-> from + k - 1]) = n
    BY <1>2
  <2>2. [k \in 1..n |-> from + k - 1] \in Seq(Int)
    BY <1>2
  <2> QED
    BY <1>3, <2>1, <2>2
<1>5. h - at = m \/ (h - at <= 0 /\ m = 0)
  <2>1. next = from \/ next + HeaderCells <= from + n
    BY <1>4
  <2> QED
    BY <1>1, <2>1 DEF Most, Least
<1>6. h <= n /\ h \in Nat
  BY <1>1, <1>2 DEF Least
<1> HIDE DEF n, h, m, cells, at
<1>7. SubSeq(cells, at + 1, h) = [k \in 1..(h - at) |-> cells[at + k]]
  <2>1. SubSeq(cells, at + 1, h) = [k \in 1..(h - (at + 1) + 1) |-> cells[k + (at + 1) - 1]]
    BY <1>2, <1>4, <1>6
  <2>2. h - (at + 1) + 1 = h - at
    BY <1>2, <1>6
  <2>3. \A k \in 1..(h - at) : k + (at + 1) - 1 = at + k
    BY <1>2, <1>6
  <2> QED
    BY <2>1, <2>2, <2>3
<1>8. 1..(h - at) = 1..m
  BY <1>2, <1>5, <1>6
<1>9. \A k \in 1..m : cells[at + k] = next + k - 1
  <2> TAKE k \in 1..m
  <2>1. at + k \in 1..n
    BY <1>2, <1>5, <1>6
  <2>2. cells[at + k] = from + (at + k) - 1
    BY <1>3, <2>1
  <2>3. from + at = next
    BY DEF at
  <2> QED
    BY <1>2, <2>2, <2>3
<1>10. SubSeq(cells, at + 1, h) = [k \in 1..m |-> next + k - 1]
  BY <1>7, <1>8, <1>9
<1>11. ReadAt(length, next, HeaderCells) = [k \in 1..m |-> next + k - 1]
  BY Zenon DEF ReadAt, m
<1>12. HeaderOf(w, from, cells) = SubSeq(cells, at + 1, h)
  BY <1>4 DEF HeaderOf, at, h
<1> QED
  BY <1>10, <1>11, <1>12 DEF cells
------------------------------------------------------------------------------
(* The walk header by header *)

\* What a walk has of the first m records: as long as there is no error, where they are,
\* all of them good; and with an error, one of them is not.
Walked(f, length, faults, m, w) ==
  /\ IsWalk(w)
  /\ w.error # None => \E r \in 0..(m - 1) : ~ GoodHeader(f, length, faults, r)
  /\ w.error = None =>
       /\ \A r \in 0..(m - 1) : GoodHeader(f, length, faults, r)
       /\ w.next = HeaderPlace(f, m)
       /\ w.rows \in Seq(Nat) /\ Len(w.rows) = m + 1
       /\ \A r \in 0..m : w.rows[r + 1] = RecordStartsRows[f][r]
       /\ w.bodies \in Seq(Nat) /\ Len(w.bodies) = m
       /\ \A r \in 0..(m - 1) : w.bodies[r + 1] = RecordStartsBytes[f][r]
       /\ w.counts \in Seq(Nat) /\ Len(w.counts) = m
       /\ \A r \in 1..m : w.counts[r] = Records[f][r]

\* A record's first row is behind those of the record before it.
LEMMA StartsRowsNext ==
  ASSUME NEW f \in Files
  PROVE  /\ RecordStartsRows[f][0] = 0
         /\ \A r \in 0..(Len(Records[f]) - 1) :
              RecordStartsRows[f][r + 1] = RecordStartsRows[f][r] + Records[f][r + 1]
         /\ \A r \in 0..Len(Records[f]) : RecordStartsRows[f][r] \in Nat
<1> DEFINE n == Len(Records[f])  R == Records[f]
<1>1. R \in Seq(Nat) /\ n \in Nat /\ n = Len(R)
  BY Declared
<1>2. \A r \in 0..n : RecordStartsRows[f][r] = Total(SubSeq(R, 1, r))
  BY Zenon DEF RecordStartsRows
<1>3. \A r \in 0..n : Total(SubSeq(R, 1, r)) \in Nat
  BY FirstRowType
<1> HIDE DEF n, R
<1>4. RecordStartsRows[f][0] = 0
  <2>1. Len(SubSeq(R, 1, 0)) = 0 /\ 0 \in 0..n
    BY <1>1
  <2> QED
    BY <1>2, <2>1, TotalNone
<1>5. ASSUME NEW r \in 0..(n - 1)
      PROVE  RecordStartsRows[f][r + 1] = RecordStartsRows[f][r] + R[r + 1]
  <2> DEFINE s == SubSeq(R, 1, r)  t == SubSeq(R, 1, r + 1)  m == r + 1
  <2>1. m \in Nat \ {0} /\ Len(s) = m - 1 /\ Len(t) = m /\ t[m] = R[r + 1]
        /\ \A i \in 1..(m - 1) : t[i] = s[i]
    BY <1>1
  <2>2. r \in 0..n /\ r + 1 \in 0..n
    BY <1>1
  <2>3. RecordStartsRows[f][r] = Total(s) /\ RecordStartsRows[f][r + 1] = Total(t)
    BY <1>2, <2>2
  <2> HIDE DEF s, t, m
  <2>4. Total(t) = Total(s) + t[m]
    BY <2>1, TotalMore
  <2> QED
    BY <2>1, <2>3, <2>4
<1> QED
  BY <1>2, <1>3, <1>4, <1>5 DEF n, R

\* Before the first record the walk has the index of none.
LEMMA WalkedStart ==
  ASSUME NEW f \in Files, NEW length, NEW faults
  PROVE  Walked(f, length, faults, 0, WalkStart)
<1> DEFINE w == WalkStart
<1>1. /\ IsWalk(w) /\ w.next = Preamble /\ w.rows = << 0 >> /\ w.bodies = << >>
      /\ w.counts = << >> /\ w.error = None
  BY StartFields
<1> HIDE DEF w
<1>2. w.next = HeaderPlace(f, 0)
  BY <1>1, PlaceFirst
<1>3. w.rows \in Seq(Nat) /\ Len(w.rows) = 0 + 1 /\ \A r \in 0..0 : w.rows[r + 1] = RecordStartsRows[f][r]
  <2>1. << 0 >> \in Seq(Nat) /\ Len(<< 0 >>) = 1 /\ << 0 >>[1] = 0
    OBVIOUS
  <2>2. RecordStartsRows[f][0] = 0
    BY StartsRowsNext
  <2> QED
    BY <1>1, <2>1, <2>2
<1>4. w.bodies \in Seq(Nat) /\ Len(w.bodies) = 0 /\ w.counts \in Seq(Nat) /\ Len(w.counts) = 0
  BY <1>1
<1>5. Walked(f, length, faults, 0, w)
  BY <1>1, <1>2, <1>3, <1>4 DEF Walked
<1> QED
  BY <1>5 DEF w

\* A record more leaves the walk with the index of one record more, or with the error.
LEMMA WalkedStep ==
  ASSUME NEW f \in Files, NEW length \in Nat, NEW faults, NEW m \in 0..(Len(Records[f]) - 1),
         NEW w, Walked(f, length, faults, m, w)
  PROVE  Walked(f, length, faults, m + 1, PlainStep(w, f, length, faults, m))
<1> DEFINE t == PlainStep(w, f, length, faults, m)
           cells == ReadAt(length, w.next, HeaderCells)
           e == HeaderError(f, faults, cells, m)
<1>0. m \in Nat /\ m + 1 \in 1..Len(Records[f]) /\ Len(Records[f]) \in Nat /\ (m + 1) - 1 = m
      /\ HeaderCells \in Nat \ {0}
  BY Declared
<1>1. CASE w.error # None
  <2>1. t = w
    BY <1>1, Zenon DEF PlainStep
  <2>2. \E r \in 0..m : ~ GoodHeader(f, length, faults, r)
    BY <1>0, <1>1 DEF Walked
  <2> HIDE DEF t
  <2>3. IsWalk(t) /\ t.error # None
    BY <1>1, <2>1 DEF Walked
  <2> QED
    BY <1>0, <2>2, <2>3 DEF Walked, t
<1>2. CASE w.error = None
  <2>1. /\ IsWalk(w)
        /\ \A r \in 0..(m - 1) : GoodHeader(f, length, faults, r)
        /\ w.next = HeaderPlace(f, m)
        /\ w.rows \in Seq(Nat) /\ Len(w.rows) = m + 1
        /\ \A r \in 0..m : w.rows[r + 1] = RecordStartsRows[f][r]
        /\ w.bodies \in Seq(Nat) /\ Len(w.bodies) = m
        /\ \A r \in 0..(m - 1) : w.bodies[r + 1] = RecordStartsBytes[f][r]
        /\ w.counts \in Seq(Nat) /\ Len(w.counts) = m
        /\ \A r \in 1..m : w.counts[r] = Records[f][r]
    BY <1>2 DEF Walked
  <2>2. w.next \in Nat
    BY <1>0, <2>1, PlaceType
  <2>3. HeaderOf(w, w.next, cells) = cells
    BY <1>0, <2>2, HeaderInBuffer
  <2>4. (e = None <=> GoodHeader(f, length, faults, m)) /\ e \in WalkErrors \cup {None}
    BY <2>1, HeaderVerdict
  <2>5. t = Take(w, f, faults, m, w.next, cells)
    BY <1>2, Zenon DEF PlainStep
  <2> DEFINE body == w.next + HeaderCells
             count == Records[f][m + 1]
  <2>6. /\ IsWalk(t)
        /\ e # None => t.error = << e, m >>
        /\ e = None =>
             /\ t.next = body + AlignUp(count * RowSize(f), BodyAlign)
             /\ t.rows = Append(w.rows, Last(w.rows) + count)
             /\ t.bodies = Append(w.bodies, body)
             /\ t.counts = Append(w.counts, count)
             /\ t.error = None
    <3> DEFINE e2 == HeaderError(f, faults, HeaderOf(w, w.next, cells), m)
               u == Take(w, f, faults, m, w.next, cells)
    <3>1. /\ IsWalk(u)
          /\ e2 # None =>
               /\ u.next = w.next /\ u.rows = w.rows /\ u.bodies = w.bodies
               /\ u.counts = w.counts /\ u.error = << e2, m >>
          /\ e2 = None =>
               /\ u.next = body + AlignUp(count * RowSize(f), BodyAlign)
               /\ u.from = w.next /\ u.cells = cells
               /\ u.rows = Append(w.rows, Last(w.rows) + count)
               /\ u.bodies = Append(w.bodies, body)
               /\ u.counts = Append(w.counts, count)
               /\ u.error = None
      <4>1. IsWalk(w)
        BY <2>1
      <4> QED
        BY <4>1, TakeFields
    <3>2. e2 = e
      BY <2>3, Zenon
    <3> HIDE DEF e, e2, u, t, cells, body, count
    <3>3. t = u
      BY <2>5 DEF u
    <3> QED
      BY <3>1, <3>2, <3>3
  <2>7. CASE e # None
    <3>1. << e, m >> # None
      BY <1>0, <2>4, <2>7, ErrorsAssumption
    <3>2. t.error # None /\ IsWalk(t)
      BY <2>6, <2>7, <3>1
    <3>3. \E r \in 0..m : ~ GoodHeader(f, length, faults, r)
      BY <1>0, <2>4, <2>7
    <3> HIDE DEF t
    <3> QED
      BY <1>0, <3>2, <3>3 DEF Walked, t
  <2>8. CASE e = None
    <3>1. \A r \in 0..m : GoodHeader(f, length, faults, r)
      BY <1>0, <2>1, <2>4, <2>8
    <3>2. count \in Nat /\ body \in Nat
      BY <1>0, <2>2, Declared
    <3>3. t.next = HeaderPlace(f, m + 1)
      <4>1. HeaderPlace(f, m + 1) = HeaderPlace(f, m) + BodySize(f, m + 1) + HeaderCells
        BY <1>0, PlaceNext
      <4>2. BodySize(f, m + 1) = AlignUp(count * RowSize(f), BodyAlign)
        BY Zenon DEF BodySize, BodyRoom, RowSize
      <4>3. BodySize(f, m + 1) \in Nat
        BY <1>0, RecordParts
      <4> HIDE DEF t, e
      <4>4. t.next = w.next + HeaderCells + BodySize(f, m + 1)
        BY <2>6, <2>8, <4>2
      <4> QED
        BY <1>0, <2>1, <2>2, <4>1, <4>3, <4>4
    <3>4. /\ t.rows \in Seq(Nat) /\ Len(t.rows) = (m + 1) + 1
          /\ \A r \in 0..(m + 1) : t.rows[r + 1] = RecordStartsRows[f][r]
      <4> DEFINE x == w.rows
      <4>1. Last(x) = RecordStartsRows[f][m]
        <5>1. m \in 0..m /\ Len(x) = m + 1
          BY <1>0, <2>1
        <5>2. x[m + 1] = RecordStartsRows[f][m]
          BY <2>1, <5>1
        <5> HIDE DEF x
        <5> QED
          BY <5>1, <5>2, Zenon DEF Last
      <4>2. /\ RecordStartsRows[f][m + 1] = RecordStartsRows[f][m] + count
            /\ RecordStartsRows[f][m] \in Nat
        BY <1>0, StartsRowsNext
      <4>3. t.rows = Append(x, RecordStartsRows[f][m + 1])
        BY <2>6, <2>8, <4>1, <4>2
      <4>4. RecordStartsRows[f][m + 1] \in Nat
        BY <3>2, <4>2
      <4>5. x \in Seq(Nat) /\ Len(x) = m + 1 /\ \A r \in 0..m : x[r + 1] = RecordStartsRows[f][r]
        BY <2>1
      <4> HIDE DEF t, x
      <4>6. t.rows \in Seq(Nat) /\ Len(t.rows) = m + 2
        BY <1>0, <4>3, <4>4, <4>5
      <4>7. ASSUME NEW r \in 0..(m + 1) PROVE t.rows[r + 1] = RecordStartsRows[f][r]
        <5>1. CASE r = m + 1
          BY <1>0, <4>3, <4>4, <4>5, <5>1
        <5>2. CASE r \in 0..m
          BY <1>0, <4>3, <4>4, <4>5, <5>2
        <5> QED
          BY <1>0, <5>1, <5>2
      <4> QED
        BY <1>0, <4>6, <4>7
    <3>5. /\ t.bodies \in Seq(Nat) /\ Len(t.bodies) = m + 1
          /\ \A r \in 0..m : t.bodies[r + 1] = RecordStartsBytes[f][r]
      <4> DEFINE x == w.bodies
      <4>1. RecordStartsBytes[f][m] = body
        BY <2>1, StartIsPlace
      <4>2. t.bodies = Append(x, body)
        BY <2>6, <2>8
      <4>3. x \in Seq(Nat) /\ Len(x) = m /\ \A r \in 0..(m - 1) : x[r + 1] = RecordStartsBytes[f][r]
        BY <2>1
      <4> HIDE DEF t, x, body
      <4>4. t.bodies \in Seq(Nat) /\ Len(t.bodies) = m + 1
        BY <1>0, <3>2, <4>2, <4>3
      <4>5. ASSUME NEW r \in 0..m PROVE t.bodies[r + 1] = RecordStartsBytes[f][r]
        <5>1. CASE r = m
          BY <1>0, <3>2, <4>1, <4>2, <4>3, <5>1
        <5>2. CASE r \in 0..(m - 1)
          BY <1>0, <3>2, <4>2, <4>3, <5>2
        <5> QED
          BY <1>0, <5>1, <5>2
      <4> QED
        BY <4>4, <4>5
    <3>6. /\ t.counts \in Seq(Nat) /\ Len(t.counts) = m + 1
          /\ \A r \in 1..(m + 1) : t.counts[r] = Records[f][r]
      <4> DEFINE x == w.counts
      <4>1. t.counts = Append(x, count)
        BY <2>6, <2>8
      <4>2. x \in Seq(Nat) /\ Len(x) = m /\ \A r \in 1..m : x[r] = Records[f][r]
        BY <2>1
      <4> HIDE DEF t, x
      <4>3. t.counts \in Seq(Nat) /\ Len(t.counts) = m + 1
        BY <1>0, <3>2, <4>1, <4>2
      <4>4. ASSUME NEW r \in 1..(m + 1) PROVE t.counts[r] = Records[f][r]
        <5>1. CASE r = m + 1
          BY <1>0, <3>2, <4>1, <4>2, <5>1
        <5>2. CASE r \in 1..m
          BY <1>0, <3>2, <4>1, <4>2, <5>2
        <5> QED
          BY <1>0, <5>1, <5>2
      <4> QED
        BY <4>3, <4>4
    <3>7. IsWalk(t) /\ t.error = None
      BY <2>6, <2>8
    <3> HIDE DEF t
    <3> QED
      BY <1>0, <3>1, <3>3, <3>4, <3>5, <3>6, <3>7 DEF Walked, t
  <2> QED
    BY <2>7, <2>8
<1> QED
  BY <1>1, <1>2
------------------------------------------------------------------------------
(* The walk through the buffer *)

\* It is where the other walk is, and what it has in its buffer is of the file.
Follows(length, v, w) ==
  /\ IsWalk(v) /\ SameWalk(v, w)
  /\ v.error = None => v.from \in Nat /\ \E count \in Nat : v.cells = ReadAt(length, v.from, count)

\* Both walks begin alike.
LEMMA FollowsStart == ASSUME NEW length \in Nat PROVE Follows(length, WalkStart, WalkStart)
<1>1. ReadAt(length, 0, 0) = << >>
  <2>1. Most(0, Least(0, length - 0)) = 0
    BY DEF Most, Least
  <2>2. [k \in 1..0 |-> 0 + k - 1] = << >>
    OBVIOUS
  <2> QED
    BY <2>1, <2>2, Zenon DEF ReadAt
<1> QED
  BY <1>1, StartFields DEF Follows, SameWalk

\* Of the same header, walks that were the same stay so.
LEMMA TakeSame ==
  ASSUME NEW v, NEW w, IsWalk(v), IsWalk(w), SameWalk(v, w), NEW f, NEW faults, NEW r,
         NEW from, NEW cells, NEW from2, NEW cells2,
         HeaderOf(v, from, cells) = HeaderOf(w, from2, cells2)
  PROVE  LET t == Take(v, f, faults, r, from, cells)
             u == Take(w, f, faults, r, from2, cells2)
         IN  /\ IsWalk(t) /\ SameWalk(t, u)
             /\ HeaderError(f, faults, HeaderOf(v, from, cells), r) = None =>
                  t.from = from /\ t.cells = cells
             /\ HeaderError(f, faults, HeaderOf(v, from, cells), r) # None =>
                  t.error = << HeaderError(f, faults, HeaderOf(v, from, cells), r), r >>
<1> DEFINE t == Take(v, f, faults, r, from, cells)
           u == Take(w, f, faults, r, from2, cells2)
           e == HeaderError(f, faults, HeaderOf(v, from, cells), r)
           e2 == HeaderError(f, faults, HeaderOf(w, from2, cells2), r)
           add == AlignUp(Records[f][r + 1] * RowSize(f), BodyAlign)
           count == Records[f][r + 1]
<1>1. /\ IsWalk(t)
      /\ e # None => /\ t.next = v.next /\ t.rows = v.rows /\ t.bodies = v.bodies
                     /\ t.counts = v.counts /\ t.error = << e, r >>
      /\ e = None => /\ t.next = v.next + HeaderCells + add
                     /\ t.from = from /\ t.cells = cells
                     /\ t.rows = Append(v.rows, Last(v.rows) + count)
                     /\ t.bodies = Append(v.bodies, v.next + HeaderCells)
                     /\ t.counts = Append(v.counts, count) /\ t.error = None
  BY TakeFields
<1>2. /\ e2 # None => /\ u.next = w.next /\ u.rows = w.rows /\ u.bodies = w.bodies
                      /\ u.counts = w.counts /\ u.error = << e2, r >>
      /\ e2 = None => /\ u.next = w.next + HeaderCells + add
                      /\ u.rows = Append(w.rows, Last(w.rows) + count)
                      /\ u.bodies = Append(w.bodies, w.next + HeaderCells)
                      /\ u.counts = Append(w.counts, count) /\ u.error = None
  BY TakeFields
<1>3. e = e2
  BY Zenon
<1> HIDE DEF t, u, e, e2, add, count
<1>4. SameWalk(t, u)
  BY <1>1, <1>2, <1>3 DEF SameWalk
<1> QED
  BY <1>1, <1>4 DEF t, u, e

\* What a record does to the one walk it does to the other, refill or none.
LEMMA FollowsStep ==
  ASSUME NEW f \in Files, NEW length \in Nat, NEW faults, NEW m \in 0..(Len(Records[f]) - 1),
         NEW w, Walked(f, length, faults, m, w), NEW v, Follows(length, v, w), NEW chunk \in Nat
  PROVE  Follows(length, BufferedStep(v, f, length, faults, chunk, m),
                 PlainStep(w, f, length, faults, m))
<1> DEFINE t == BufferedStep(v, f, length, faults, chunk, m)
           u == PlainStep(w, f, length, faults, m)
           plain == ReadAt(length, w.next, HeaderCells)
<1>1. IsWalk(v) /\ IsWalk(w) /\ SameWalk(v, w) /\ v.next = w.next /\ v.error = w.error
  BY DEF Follows, SameWalk, Walked
<1>2. CASE w.error # None
  <2>1. t = v /\ u = w
    BY <1>1, <1>2, Zenon DEF BufferedStep, PlainStep
  <2> QED
    BY <2>1
<1>3. CASE w.error = None
  <2>1. w.next \in Nat /\ HeaderCells \in Nat \ {0}
    <3>1. w.next = HeaderPlace(f, m)
      BY <1>3 DEF Walked
    <3>2. m \in 0..Len(Records[f])
      BY Declared
    <3> QED
      BY <3>1, <3>2, PlaceType, Declared
  <2>2. u = Take(w, f, faults, m, w.next, plain)
    BY <1>3, Zenon DEF PlainStep
  <2>3. HeaderOf(w, w.next, plain) = plain
    BY <2>1, HeaderInBuffer
  <2>4. ASSUME NEW from \in Nat, NEW count \in Nat, NEW cells, cells = ReadAt(length, from, count),
               t = Take(v, f, faults, m, from, cells), HeaderOf(v, from, cells) = plain
        PROVE  Follows(length, t, u)
    <3> DEFINE e == HeaderError(f, faults, HeaderOf(v, from, cells), m)
               x == Take(v, f, faults, m, from, cells)
               y == Take(w, f, faults, m, w.next, plain)
    <3>1. HeaderOf(v, from, cells) = HeaderOf(w, w.next, plain)
      BY <2>3, <2>4
    <3>2. /\ IsWalk(x) /\ SameWalk(x, y)
          /\ e = None => x.from = from /\ x.cells = cells
          /\ e # None => x.error = << e, m >>
      BY <1>1, <3>1, TakeSame
    <3>3. e \in WalkErrors \cup {None}
      <4>1. w.next = HeaderPlace(f, m)
        BY <1>3 DEF Walked
      <4>2. HeaderError(f, faults, plain, m) \in WalkErrors \cup {None}
        BY <4>1, HeaderVerdict
      <4> QED
        BY <2>4, <4>2
    <3>4. x = t /\ y = u
      BY <2>2, <2>4
    <3> HIDE DEF e, x, y, t, u
    <3>5. e # None => x.error # None
      <4>1. m \in Int
        BY Declared
      <4> QED
        <5>1. e # None => << e, m >> # None
          BY <3>3, <4>1, ErrorsAssumption
        <5> QED
          BY <3>2, <5>1
    <3>6. x.error = None => x.from \in Nat /\ x.cells = ReadAt(length, x.from, count)
      BY <2>4, <3>2, <3>5
    <3> QED
      BY <3>2, <3>4, <3>6 DEF Follows
  <2>5. CASE Buffered(v)
    <3>1. PICK count \in Nat : v.from \in Nat /\ v.cells = ReadAt(length, v.from, count)
      BY <1>1, <1>3 DEF Follows
    <3>2. t = Take(v, f, faults, m, v.from, v.cells)
      BY <1>1, <1>3, <2>5, Zenon DEF BufferedStep
    <3>3. v.from <= v.next /\ v.next + HeaderCells <= v.from + Len(ReadAt(length, v.from, count))
      BY <2>5, <3>1 DEF Buffered
    <3>4. v.next = v.from => HeaderCells <= count
      <4>1. Len(ReadAt(length, v.from, count)) = Most(0, Least(count, length - v.from))
        <5> DEFINE c == Most(0, Least(count, length - v.from))
        <5>1. c \in Nat
          BY <3>1 DEF Most, Least
        <5>2. ReadAt(length, v.from, count) = [k \in 1..c |-> v.from + k - 1]
          BY Zenon DEF ReadAt
        <5> HIDE DEF c
        <5>3. Len(ReadAt(length, v.from, count)) = c
          BY <5>1, <5>2
        <5> QED
          BY <5>3 DEF c
      <4> QED
        BY <2>1, <3>1, <3>3, <4>1 DEF Most, Least
    <3>5. HeaderOf(v, v.from, v.cells) = plain
      <4>1. v.next \in Nat
        BY <1>1, <2>1
      <4>2. HeaderOf(v, v.from, ReadAt(length, v.from, count)) = ReadAt(length, v.next, HeaderCells)
        <5> DEFINE from == v.from  next == v.next
        <5>1. /\ from \in Nat /\ next \in Nat /\ v.next = next /\ from <= next
              /\ next + HeaderCells <= from + Len(ReadAt(length, from, count))
              /\ next = from => HeaderCells <= count
          BY <3>1, <3>3, <3>4, <4>1
        <5> HIDE DEF from, next
        <5>2. HeaderOf(v, from, ReadAt(length, from, count)) = ReadAt(length, next, HeaderCells)
          BY <5>1, HeaderInBuffer
        <5> QED
          BY <5>2 DEF from, next
      <4> QED
        BY <1>1, <3>1, <4>2
    <3> QED
      BY <2>4, <3>1, <3>2, <3>5
  <2>6. CASE ~ Buffered(v)
    <3> DEFINE count == Most(chunk, HeaderCells)
               cells == ReadAt(length, v.next, count)
    <3>1. t = Take(v, f, faults, m, v.next, cells)
      BY <1>1, <1>3, <2>6, Zenon DEF BufferedStep
    <3>2. count \in Nat /\ HeaderCells <= count /\ v.next \in Nat
      BY <1>1, <2>1 DEF Most
    <3> HIDE DEF count
    <3>3. HeaderOf(v, v.next, cells) = plain
      BY <1>1, <3>2, HeaderInBuffer
    <3> QED
      BY <2>4, <3>1, <3>2, <3>3
  <2> QED
    BY <2>5, <2>6
<1> QED
  BY <1>2, <1>3

\* Both walks give the same, and the last of the one is as Walked says.
LEMMA WalksAgree ==
  ASSUME NEW f \in Files, NEW length \in Nat, NEW faults, NEW chunk \in Nat
  PROVE  /\ BufferedWalk(f, length, faults, chunk) = PlainWalk(f, length, faults)
         /\ \E w : /\ Walked(f, length, faults, Len(Records[f]), w)
                   /\ PlainWalk(f, length, faults) = WalkEnd(w, f, length)
<1>0. PICK n \in Nat : n = Len(Records[f])
  BY Declared
<1>1. n \in Nat /\ Len(Records[f]) = n
  BY <1>0
<1>2. PICK w : /\ PlainWalk(f, length, faults) = WalkEnd(w[n], f, length)
               /\ w[0] = WalkStart
               /\ \A m \in 0..(n - 1) : w[m + 1] = PlainStep(w[m], f, length, faults, m)
  <2>1. PICK w : PlainTrace(f, length, faults, n, w)
    BY <1>1, PlainWalkSteps
  <2> QED
    BY <1>1, <2>1 DEF PlainTrace
<1>3. PICK v : /\ BufferedWalk(f, length, faults, chunk) = WalkEnd(v[n], f, length)
               /\ v[0] = WalkStart
               /\ \A m \in 0..(n - 1) : v[m + 1] = BufferedStep(v[m], f, length, faults, chunk, m)
  <2>1. PICK v : BufferedTrace(f, length, faults, chunk, n, v)
    BY <1>1, BufferedWalkSteps
  <2> QED
    BY <1>1, <2>1 DEF BufferedTrace
<1> DEFINE S == {m \in Nat : Walked(f, length, faults, m, w[m]) /\ Follows(length, v[m], w[m])}
<1>4. 0 \in S
  BY <1>2, <1>3, WalkedStart, FollowsStart
<1>5. ASSUME NEW m \in 0..(n - 1), m \in S PROVE m + 1 \in S
  <2>0. m \in 0..(Len(Records[f]) - 1)
    BY <1>1
  <2>1. Walked(f, length, faults, m, w[m]) /\ Follows(length, v[m], w[m])
    BY <1>5
  <2>2. /\ Walked(f, length, faults, m + 1, PlainStep(w[m], f, length, faults, m))
        /\ Follows(length, BufferedStep(v[m], f, length, faults, chunk, m),
                   PlainStep(w[m], f, length, faults, m))
    BY <2>0, <2>1, WalkedStep, FollowsStep
  <2>3. m + 1 \in Nat
    BY <1>1
  <2> QED
    BY <1>2, <1>3, <2>2, <2>3
<1> HIDE DEF S
<1>6. n \in S
  <2>1. \A m \in 0..(n - 1) : m \in S => m + 1 \in S
    BY <1>5
  <2>2. \A m \in 0..n : m \in S
    BY <1>1, <1>4, <2>1, UpTo
  <2> QED
    BY <1>1, <2>2
<1>7. Walked(f, length, faults, n, w[n]) /\ SameWalk(v[n], w[n])
  BY <1>6 DEF S, Follows
<1>8. WalkEnd(v[n], f, length) = WalkEnd(w[n], f, length)
  BY <1>7 DEF WalkEnd, SameWalk
<1> QED
  BY <1>1, <1>2, <1>3, <1>7, <1>8
------------------------------------------------------------------------------
(* The index *)

\* What IndexExact says of a file.
Indexed(f, length, faults, got) ==
  /\ got = PlainWalk(f, length, faults)
  /\ got.error = None <=> faults = {} /\ length = FileEnd(f)
  /\ got.error = None =>
       /\ \A r \in DOMAIN RecordStartsRows[f] : got.rows[r + 1] = RecordStartsRows[f][r]
       /\ \A r \in DOMAIN RecordStartsBytes[f] : got.bodies[r + 1] = RecordStartsBytes[f][r]
       /\ got.counts = Records[f]

\* What the walk through a buffer gives is the index, or the error, there is.
LEMMA WalkIsIndex ==
  ASSUME NEW f \in Files, NEW length \in Preamble..FileEnd(f), NEW faults \in Faults(f),
         NEW buffer \in Buffers
  PROVE  Indexed(f, length, faults, BufferedWalk(f, length, faults, buffer))
<1> DEFINE got == BufferedWalk(f, length, faults, buffer)
           R == Records[f]
<1>0. PICK n \in Nat \ {0} : n = Len(R)
  BY Declared
<1>1. length \in Nat /\ length <= HeaderPlace(f, n) /\ FileEnd(f) = HeaderPlace(f, n)
      /\ HeaderPlace(f, n) \in Nat /\ HeaderCells \in Nat
  <2>1. n \in 0..Len(R)
    BY <1>0
  <2> QED
    BY <1>0, <2>1, FileLength, PlaceType, Declared
<1>2. buffer \in Nat
  BY BuffersAssumption
<1>3. PICK w : /\ Walked(f, length, faults, n, w)
               /\ PlainWalk(f, length, faults) = WalkEnd(w, f, length)
  BY <1>0, <1>1, <1>2, WalksAgree
<1>4. got = PlainWalk(f, length, faults)
  BY <1>1, <1>2, WalksAgree
<1>5. /\ got.rows = w.rows /\ got.bodies = w.bodies /\ got.counts = w.counts
      /\ got.error = IF w.error = None /\ length < w.next THEN << "body", n - 1 >> ELSE w.error
  BY <1>0, <1>3, <1>4 DEF WalkEnd
<1> HIDE DEF got
<1>6. << "body", n - 1 >> # None
  <2>1. << "body", n - 1 >> \in WalkErrors \X Int
    BY <1>0 DEF WalkErrors
  <2> QED
    BY <2>1, ErrorsAssumption
<1>7. (\A r \in 0..(n - 1) : GoodHeader(f, length, faults, r)) /\ HeaderPlace(f, n) <= length
      <=> faults = {} /\ length = HeaderPlace(f, n)
  <2>1. ASSUME \A r \in 0..(n - 1) : GoodHeader(f, length, faults, r),
               HeaderPlace(f, n) <= length
        PROVE  faults = {} /\ length = HeaderPlace(f, n)
    <3>1. ASSUME NEW x \in faults PROVE FALSE
      <4>1. faults \subseteq (0..(Len(R) - 1)) \X HeaderFaults
        BY FaultsAssumption
      <4>2. PICK r \in 0..(n - 1), k \in HeaderFaults : x = << r, k >>
        BY <1>0, <4>1
      <4> QED
        BY <2>1, <4>2 DEF GoodHeader
    <3> QED
      BY <1>1, <2>1, <3>1
  <2>2. ASSUME faults = {}, length = HeaderPlace(f, n)
        PROVE  /\ \A r \in 0..(n - 1) : GoodHeader(f, length, faults, r)
               /\ HeaderPlace(f, n) <= length
    <3>1. ASSUME NEW r \in 0..(n - 1) PROVE GoodHeader(f, length, faults, r)
      <4>1. r \in 0..Len(R) /\ n \in (r + 1)..Len(R)
        BY <1>0
      <4>2. HeaderPlace(f, r) + HeaderCells <= HeaderPlace(f, n)
        BY <4>1, PlacesApart
      <4> QED
        BY <2>2, <4>2 DEF GoodHeader
    <3> QED
      BY <1>1, <2>2, <3>1
  <2> QED
    BY <2>1, <2>2
<1>8. got.error = None <=> faults = {} /\ length = FileEnd(f)
  <2>1. CASE w.error # None
    <3>1. got.error # None
      BY <1>5, <2>1
    <3>2. \E r \in 0..(n - 1) : ~ GoodHeader(f, length, faults, r)
      BY <1>3, <2>1 DEF Walked
    <3> QED
      BY <1>1, <1>7, <3>1, <3>2
  <2>2. CASE w.error = None
    <3>1. w.next = HeaderPlace(f, n) /\ \A r \in 0..(n - 1) : GoodHeader(f, length, faults, r)
      BY <1>3, <2>2 DEF Walked
    <3>2. got.error = None <=> ~(length < HeaderPlace(f, n))
      BY <1>5, <1>6, <2>2, <3>1
    <3> QED
      BY <1>1, <1>7, <3>1, <3>2
  <2> QED
    BY <2>1, <2>2
<1>9. ASSUME got.error = None
      PROVE  /\ \A r \in DOMAIN RecordStartsRows[f] : got.rows[r + 1] = RecordStartsRows[f][r]
             /\ \A r \in DOMAIN RecordStartsBytes[f] : got.bodies[r + 1] = RecordStartsBytes[f][r]
             /\ got.counts = R
  <2>1. w.error = None
    BY <1>5, <1>6, <1>9
  <2>2. /\ \A r \in 0..n : w.rows[r + 1] = RecordStartsRows[f][r]
        /\ \A r \in 0..(n - 1) : w.bodies[r + 1] = RecordStartsBytes[f][r]
        /\ w.counts \in Seq(Nat) /\ Len(w.counts) = n
        /\ \A r \in 1..n : w.counts[r] = R[r]
    BY <1>3, <2>1 DEF Walked
  <2>3. DOMAIN RecordStartsRows[f] = 0..n
    BY <1>0 DEF RecordStartsRows
  <2>4. DOMAIN RecordStartsBytes[f] = 0..(n - 1)
    BY <1>0, StartIsPlace
  <2>5. w.counts = R
    <3> DEFINE c == w.counts
    <3>1. c \in Seq(Nat) /\ Len(c) = n /\ \A r \in 1..n : c[r] = R[r]
      BY <2>2
    <3>2. R \in Seq(Nat) /\ Len(R) = n
      BY <1>0, Declared
    <3> HIDE DEF c, R
    <3>3. c = R
      BY <3>1, <3>2, SeqEqual
    <3> QED
      BY <3>3 DEF c
  <2> QED
    BY <1>5, <2>2, <2>3, <2>4, <2>5
<1> QED
  BY <1>4, <1>8, <1>9 DEF Indexed, got

StackInv == stack \in Stacks

\* The file that is indexed is one of the files.
LEMMA FirstFile == ASSUME StackInv PROVE stack[1] \in Files
  BY StacksAssumption DEF StackInv

\* Only the index walk puts an index into the answer, and that one is exact.
LEMMA IndexStep ==
  ASSUME StackInv, IndexExact, [Next]_vars
  PROVE  StackInv' /\ IndexExact'
<1>1. CASE UNCHANGED vars
  BY <1>1 DEF vars, StackInv, IndexExact
<1>2. ASSUME NEW length \in Preamble..FileEnd(stack[1]), NEW faults \in Faults(stack[1]),
             NEW buffer \in Buffers, ReadRecordIndex(length, faults, buffer)
      PROVE  StackInv' /\ IndexExact'
  <2> DEFINE f == stack[1]
             got == BufferedWalk(f, length, faults, buffer)
  <2>1. call' = [kind |-> "index", length |-> length, faults |-> faults, got |-> got]
        /\ stack' = stack
    BY <1>2 DEF ReadRecordIndex
  <2>2. Indexed(f, length, faults, got)
    BY FirstFile, WalkIsIndex
  <2> HIDE DEF got
  <2>3. call'.length = length /\ call'.faults = faults /\ call'.got = got
    BY <2>1
  <2>4. StackInv'
    BY <2>1 DEF StackInv
  <2>5. Indexed(stack'[1], call'.length, call'.faults, call'.got)
    BY <2>1, <2>2, <2>3
  <2> QED
    BY <2>4, <2>5, Zenon DEF IndexExact, Indexed
<1>3. ASSUME stack' = stack, call'.kind # "index" PROVE StackInv' /\ IndexExact'
  BY <1>3 DEF StackInv, IndexExact
<1>4. ASSUME NEW c, NEW xs, NEW got, Called(c, xs, got) PROVE StackInv' /\ IndexExact'
  <2>1. stack' = stack /\ call'.kind = "gather"
    BY <1>4 DEF Called
  <2> QED
    BY <1>3, <2>1
<1>5. ASSUME Next PROVE StackInv' /\ IndexExact'
  <2>1. CASE \E kernel \in Entries : \E lengths \in Lengths(kernel) : EnterKernel(kernel, lengths)
    <3>1. stack' = stack /\ call'.kind = "enter"
      BY <2>1 DEF EnterKernel
    <3> QED
      BY <1>3, <3>1
  <2>2. CASE \E x \in 0..(2 ^ Bits - 1), d \in 1..(2 ^ Bits - 1) : DivideRow(x, d)
    <3>1. stack' = stack /\ call'.kind = "divide"
      BY <2>2 DEF DivideRow
    <3> QED
      BY <1>3, <3>1
  <2>3. CASE \E c \in Names, xs \in Gathers(RowCount) :
               \/ GatherIndexed(c, xs) \/ GatherSegment(c, xs) \/ GatherSegmentUniform(c, xs)
               \/ GatherMultirecordUniform(c, xs)
    BY <1>4, <2>3, Zenon DEF GatherIndexed, GatherSegment, GatherSegmentUniform, GatherMultirecordUniform
  <2>4. CASE \E c1 \in Names, c2 \in Names, xs \in Gathers(RowCount) : GatherSegmentWithBins(c1, c2, xs)
    BY <1>4, <2>4, Zenon DEF GatherSegmentWithBins
  <2>5. CASE \E c \in Names, xs \in Gathers(RowCount), workers \in Workers :
               GatherSegmentSorted(c, xs, workers)
    BY <1>4, <2>5, Zenon DEF GatherSegmentSorted
  <2>6. CASE \E c \in Names, range \in Ranges(RowCount) : CopyMultirecordRange(c, range)
    BY <1>4, <2>6, Zenon DEF CopyMultirecordRange
  <2>7. CASE \E c \in Names, range \in Ranges(RowCount), workers \in Workers :
               GatherMultirecordStrided(c, range, workers) \/ ParallelCopyRuns(c, range, workers)
    BY <1>4, <2>7, Zenon DEF GatherMultirecordStrided, ParallelCopyRuns
  <2>8. CASE \E c \in Names, bits \in Masks(RowCount), workers \in Workers :
               GatherSegmentMask(c, bits, workers)
    BY <1>4, <2>8, Zenon DEF GatherSegmentMask
  <2>9. CASE \E c \in Names : InterleaveRecords(c)
    BY <1>4, <2>9, Zenon DEF InterleaveRecords
  <2>10. CASE \E length \in Preamble..FileEnd(stack[1]), faults \in Faults(stack[1]),
                 buffer \in Buffers : ReadRecordIndex(length, faults, buffer)
    BY <1>2, <2>10
  <2> QED
    BY <1>5, <2>1, <2>2, <2>3, <2>4, <2>5, <2>6, <2>7, <2>8, <2>9, <2>10, Zenon DEF Next
<1> QED
  BY <1>1, <1>5

\* The index read through a buffer of any size is the one read header by header, with
\* the same error at the same record when there is one; there is none just when the file
\* is whole and its headers are good, and then the index is that of its layout
\* (colstore_read_record_index, _read_record_index_walk).
THEOREM IndexIsExact == Spec => []IndexExact
<1>1. Init => StackInv /\ IndexExact
  BY DEF Init, StackInv, IndexExact
<1>2. (StackInv /\ IndexExact) /\ [Next]_vars => (StackInv /\ IndexExact)'
  BY IndexStep
<1> QED
  BY <1>1, <1>2, PTL DEF Spec
=============================================================================
