-------------------------- MODULE SharedPathProofs ---------------------------
(***************************************************************************)
(* Compaction, update sessions and readers on one path, for any number of  *)
(* each: no committed row is lost or moves, an output is whole or does not *)
(* open, an open reader keeps one committed state, and skipping records by *)
(* their statistics is exact.                                              *)
(***************************************************************************)
EXTENDS SharedPathInv, SequenceFacts

------------------------------------------------------------------------------
(* The recursive functions of the model *)

\* One step of the record walk.
NextHead(b, k, h) ==
  IF h \in 1..Len(b) /\ b[h].kind = "head" /\ b[h].idx = k - 1 THEN h + 1 + b[h].rows ELSE 0

LEMMA HeadsExist ==
  ASSUME NEW b, NEW n \in Nat
  PROVE  \E f : f = [k \in 0..n |-> IF k = 0 THEN 1 ELSE NextHead(b, k, f[k - 1])]
<1> DEFINE Good(m) == \E f : f = [k \in 0..m |-> IF k = 0 THEN 1 ELSE NextHead(b, k, f[k - 1])]
           S == {m \in Nat : Good(m)}
<1>1. Good(0)
  <2> DEFINE f == [k \in 0..0 |-> 1]
  <2>1. f = [k \in 0..0 |-> IF k = 0 THEN 1 ELSE NextHead(b, k, f[k - 1])]
    OBVIOUS
  <2> QED
    BY <2>1
<1>2. ASSUME NEW m \in Nat, Good(m) PROVE Good(m + 1)
  <2>1. PICK f : f = [k \in 0..m |-> IF k = 0 THEN 1 ELSE NextHead(b, k, f[k - 1])]
    BY <1>2
  <2> DEFINE g == [k \in 0..(m + 1) |-> IF k = m + 1 THEN NextHead(b, m + 1, f[m]) ELSE f[k]]
  <2>2. ASSUME NEW k \in 0..(m + 1)
        PROVE  g[k] = IF k = 0 THEN 1 ELSE NextHead(b, k, g[k - 1])
    <3>1. CASE k = 0
      BY <2>1, <3>1
    <3>2. CASE k = m + 1
      BY <3>2
    <3>3. CASE k \in 1..m
      <4>1. f[k] = NextHead(b, k, f[k - 1])
        BY <2>1, <3>3
      <4> QED
        BY <3>3, <4>1
    <3> QED
      BY <3>1, <3>2, <3>3
  <2>3. g = [k \in 0..(m + 1) |-> IF k = 0 THEN 1 ELSE NextHead(b, k, g[k - 1])]
    BY <2>2
  <2> QED
    BY <2>3
<1> HIDE DEF Good
<1>3. 0 \in S /\ \A m \in 0..(n - 1) : m \in S => m + 1 \in S
  BY <1>1, <1>2
<1> HIDE DEF S
<1>4. n \in S
  BY <1>3, UpTo
<1>5. Good(n)
  BY <1>4 DEF S
<1> QED
  BY <1>5 DEF Good

\* The walk starts at the first cell, and each header says where the next one is.
LEMMA HeadsStep ==
  ASSUME NEW b, NEW n \in Nat
  PROVE  /\ HeadAt(b, n)[0] = 1
         /\ \A k \in 1..n : HeadAt(b, n)[k] = NextHead(b, k, HeadAt(b, n)[k - 1])
<1>1. \E f : f = [k \in 0..n |-> IF k = 0 THEN 1 ELSE NextHead(b, k, f[k - 1])]
  BY HeadsExist
<1>2. HeadAt(b, n) = [k \in 0..n |-> IF k = 0 THEN 1 ELSE NextHead(b, k, HeadAt(b, n)[k - 1])]
  BY <1>1 DEF HeadAt, NextHead
<1> HIDE DEF HeadAt
<1> QED
  BY <1>2

------------------------------------------------------------------------------
(* Records in a file *)

LEMMA ExtentParts ==
  ASSUME NEW e \in Extents
  PROVE  e.at \in Nat /\ e.rows \in Nat /\ e = [at |-> e.at, rows |-> e.rows]
  BY DEF Extents

\* Records that lie one behind the other are what the walk finds.
LEMMA WalkFinds ==
  ASSUME NEW b \in Seq(Cell), NEW ix \in Seq(Extents), ix # <<>>, NEW m \in Nat, Laid(b, ix, m)
  PROVE  /\ Index(b, Len(ix)) = ix
         /\ HeadAt(b, Len(ix))[Len(ix)] = Len(ix) + m + 1
         /\ Stored(b, Len(ix), m)
<1> DEFINE n == Len(ix)
           at == HeadAt(b, n)
           S == {k \in 0..n : at[k] = IF k = 0 THEN 1 ELSE ix[k].at + ix[k].rows}
<1>1. /\ n \in Nat \ {0} /\ Len(b) \in Nat
      /\ \A k \in 1..n : ix[k] \in Extents /\ ix[k].at \in Nat /\ ix[k].rows \in Nat
  BY ExtentParts
<1>2. \A k \in 1..n : at[k] = NextHead(b, k, at[k - 1])
  BY <1>1, HeadsStep
<1>3. at[0] = 1
  BY <1>1, HeadsStep
<1>4. /\ ix[1].at = 2 /\ n + m <= Len(b) /\ ix[n].at + ix[n].rows = n + m + 1
      /\ \A k \in 1..n : /\ k < n => ix[k + 1].at = ix[k].at + ix[k].rows + 1
                         /\ k + 1 <= ix[k].at /\ ix[k].at + ix[k].rows <= n + m + 1
  BY DEF Laid
<1>0. ASSUME NEW k \in 1..n
      PROVE  LET c == b[ix[k].at - 1] IN c.kind = "head" /\ c.idx = k - 1 /\ c.rows = ix[k].rows
  <2>1. b[ix[k].at - 1] = RecHead(k - 1, ix[k].rows)
    BY DEF Laid
  <2> QED
    BY <2>1 DEF RecHead
<1> DEFINE l == Len(b)
<1> HIDE DEF at, n, l
<1>5. ASSUME NEW k \in 1..n, at[k - 1] = ix[k].at - 1
      PROVE  at[k] = ix[k].at + ix[k].rows
  <2> DEFINE a == ix[k].at
             w == ix[k].rows
             h == a - 1
  <2>1. h \in 1..Len(b) /\ h + 1 + ix[k].rows = ix[k].at + ix[k].rows
    <3>1. a \in Nat /\ w \in Nat /\ k + 1 <= a /\ a + w <= n + m + 1
      BY <1>1, <1>4
    <3>2. l \in Nat /\ n + m <= l /\ n \in Nat
      BY <1>1, <1>4 DEF l
    <3> HIDE DEF a, w
    <3>3. h \in 1..l /\ h + 1 + w = a + w
      BY <3>1, <3>2
    <3> QED
      BY <3>3 DEF a, w, l
  <2>2. b[h].kind = "head" /\ b[h].idx = k - 1 /\ b[h].rows = ix[k].rows
    BY <1>0
  <2>3. at[k] = NextHead(b, k, h)
    BY <1>2, <1>5
  <2> HIDE DEF h
  <2> QED
    BY <2>1, <2>2, <2>3 DEF NextHead
<1>6. ASSUME NEW k \in 0..(n - 1), k \in S PROVE k + 1 \in S
  <2>1. k + 1 \in 1..n /\ (k + 1) - 1 = k /\ (k # 0 => k \in 1..n /\ k < n)
    BY <1>1
  <2>2. at[(k + 1) - 1] = ix[k + 1].at - 1 /\ k + 1 \in 1..n
    <3>1. CASE k = 0
      BY <1>3, <1>4, <2>1, <3>1
    <3>2. CASE k # 0
      <4>1. at[k] = ix[k].at + ix[k].rows
        BY <1>6, <3>2
      <4>2. ix[k + 1].at = ix[k].at + ix[k].rows + 1
        BY <1>4, <2>1, <3>2
      <4>3. ix[k].at \in Nat /\ ix[k].rows \in Nat
        BY <1>1, <2>1, <3>2
      <4> QED
        BY <2>1, <4>1, <4>2, <4>3
    <3> QED
      BY <3>1, <3>2
  <2>3. at[k + 1] = ix[k + 1].at + ix[k + 1].rows
    BY <1>5, <2>2
  <2> QED
    BY <1>1, <2>2, <2>3
<1>7. \A k \in 0..n : k \in S
  <2>1. 0 \in S /\ n \in Nat
    BY <1>1, <1>3
  <2> HIDE DEF S
  <2> QED
    BY <1>6, <2>1, UpTo
<1>8. ASSUME NEW k \in 1..n
      PROVE  at[k - 1] = ix[k].at - 1 /\ at[k] = ix[k].at + ix[k].rows
  <2>1. k \in 0..n /\ k # 0 /\ (k # 1 => k - 1 \in 0..n /\ k - 1 \in 1..n /\ k - 1 # 0 /\ k - 1 < n)
        /\ (k - 1) + 1 = k
    BY <1>1
  <2>2. at[k] = ix[k].at + ix[k].rows
    BY <1>7, <2>1
  <2>3. CASE k = 1
    BY <1>3, <1>4, <2>2, <2>3
  <2>4. CASE k # 1
    <3>1. at[k - 1] = ix[k - 1].at + ix[k - 1].rows
      BY <1>7, <2>1, <2>4
    <3>2. ix[k].at = ix[k - 1].at + ix[k - 1].rows + 1
      BY <1>4, <2>1, <2>4
    <3>3. ix[k - 1].at \in Nat /\ ix[k - 1].rows \in Nat
      BY <1>1, <2>1, <2>4
    <3> QED
      BY <2>2, <3>1, <3>2, <3>3
  <2> QED
    BY <2>3, <2>4
<1>9. \A k \in 1..n : [at |-> at[k] - b[at[k - 1]].rows, rows |-> b[at[k - 1]].rows] = ix[k]
  <2>1. ASSUME NEW k \in 1..n PROVE b[at[k - 1]].rows = ix[k].rows /\ at[k] - ix[k].rows = ix[k].at
    <3>1. b[at[k - 1]].rows = ix[k].rows /\ at[k] = ix[k].at + ix[k].rows
      BY <1>0, <1>8
    <3>2. ix[k].at \in Nat /\ ix[k].rows \in Nat
      BY <1>1
    <3> QED
      BY <3>1, <3>2
  <2>2. \A k \in 1..n : ix[k] = [at |-> ix[k].at, rows |-> ix[k].rows]
    BY <1>1, ExtentParts
  <2> QED
    BY <2>1, <2>2
<1>10. Index(b, n) = ix
  <2>1. Index(b, n) = [k \in 1..n |-> [at |-> at[k] - b[at[k - 1]].rows, rows |-> b[at[k - 1]].rows]]
    BY DEF Index, at
  <2>2. ix = [k \in 1..n |-> ix[k]]
    BY DEF n
  <2> QED
    BY <1>9, <2>1, <2>2
<1>11. at[n] = n + m + 1
  BY <1>1, <1>4, <1>8
<1> QED
  BY <1>1, <1>10, <1>11 DEF Stored, n, at

LEMMA StoredFacts ==
  ASSUME NEW b \in Seq(Cell), NEW n, NEW m, Stored(b, n, m)
  PROVE  /\ n \in Nat \ {0} /\ m \in Nat /\ n + m <= Len(b)
         /\ WalkOK(b, n) /\ EndOf(b, n) = n + m
         /\ Index(b, n) \in Seq(Extents) /\ Len(Index(b, n)) = n
<1>1. Len(Index(b, n)) = n /\ n \in Nat \ {0} /\ m \in Nat /\ Index(b, n) # <<>>
  BY SMTT(40) DEF Index, Stored
<1>2. Index(b, n) \in Seq(Extents) /\ Laid(b, Index(b, n), m)
  BY DEF Stored
<1>3. HeadAt(b, n)[n] = n + m + 1
  BY <1>1, <1>2, WalkFinds
<1>4. n + m <= Len(b)
  BY <1>1, <1>2 DEF Laid
<1> QED
  BY <1>1, <1>2, <1>3, <1>4 DEF WalkOK, EndOf

\* What the cells of stored records are.
LEMMA StoredCells ==
  ASSUME NEW b \in Seq(Cell), NEW n, NEW m, Stored(b, n, m), NEW k \in 1..n
  PROVE  LET ix == Index(b, n) IN
         /\ ix[k].at \in Nat /\ ix[k].rows \in Nat /\ Before(ix, k) \in Nat
         /\ k + 1 <= ix[k].at /\ ix[k].at + ix[k].rows <= n + m + 1
         /\ b[ix[k].at - 1] = RecHead(k - 1, ix[k].rows)
         /\ \A j \in 1..ix[k].rows : b[ix[k].at + j - 1] = RowCell(Before(ix, k) + j)
         /\ RowsAt(b, ix[k]) = [j \in 1..ix[k].rows |-> Before(ix, k) + j]
<1> DEFINE ix == Index(b, n)
<1>1. n \in Nat \ {0} /\ m \in Nat /\ n + m <= Len(b) /\ ix \in Seq(Extents) /\ Len(ix) = n
  BY StoredFacts
<1>2. ix[k].at \in Nat /\ ix[k].rows \in Nat
  BY <1>1, ExtentParts
<1>3. /\ k + 1 <= ix[k].at /\ ix[k].at + ix[k].rows <= n + m + 1
      /\ b[ix[k].at - 1] = RecHead(k - 1, ix[k].rows)
      /\ \A j \in 1..ix[k].rows : b[ix[k].at + j - 1] = RowCell(Before(ix, k) + j)
  BY <1>1 DEF Stored, Laid
<1> HIDE DEF ix
<1>4. Before(ix, k) \in Nat
  BY <1>1, <1>2, <1>3 DEF Before
<1>5. ASSUME NEW j \in 1..ix[k].rows
      PROVE  CellRow(b, ix[k].at + j - 1) = Before(ix, k) + j
  <2>1. ix[k].at + j - 1 \in 1..Len(b)
    BY <1>1, <1>2, <1>3, SMTT(40)
  <2>2. b[ix[k].at + j - 1] = RowCell(Before(ix, k) + j)
    BY <1>3
  <2> QED
    BY <2>1, <2>2 DEF CellRow, RowCell
<1>6. RowsAt(b, ix[k]) = [j \in 1..ix[k].rows |-> Before(ix, k) + j]
  BY <1>5 DEF RowsAt
<1> QED
  BY <1>2, <1>3, <1>4, <1>6 DEF ix

\* Records stay where they are while their cells do, whatever follows.
LEMMA StaysStored ==
  ASSUME NEW b \in Seq(Cell), NEW n, NEW m, Stored(b, n, m),
         NEW g \in Seq(Cell), n + m <= Len(g), \A p \in 1..(n + m) : g[p] = b[p]
  PROVE  Stored(g, n, m) /\ Index(g, n) = Index(b, n)
<1> DEFINE ix == Index(b, n)
<1>1. n \in Nat \ {0} /\ m \in Nat /\ n + m <= Len(b) /\ ix \in Seq(Extents) /\ Len(ix) = n
  BY StoredFacts
<1>2. ASSUME NEW k \in 1..n
      PROVE  /\ g[ix[k].at - 1] = b[ix[k].at - 1]
             /\ \A j \in 1..ix[k].rows : g[ix[k].at + j - 1] = b[ix[k].at + j - 1]
  <2>1. /\ ix[k].at \in Nat /\ ix[k].rows \in Nat /\ k + 1 <= ix[k].at
        /\ ix[k].at + ix[k].rows <= n + m + 1
    BY StoredCells
  <2>2. ix[k].at - 1 \in 1..(n + m) /\ \A j \in 1..ix[k].rows : ix[k].at + j - 1 \in 1..(n + m)
    <3> DEFINE a == ix[k].at
               w == ix[k].rows
    <3>1. a \in Nat /\ w \in Nat /\ k + 1 <= a /\ a + w <= n + m + 1 /\ n \in Nat /\ m \in Nat
      BY <1>1, <2>1
    <3> HIDE DEF a, w
    <3>2. a - 1 \in 1..(n + m) /\ \A j \in 1..w : a + j - 1 \in 1..(n + m)
      BY <3>1
    <3> QED
      BY <3>2 DEF a, w
  <2> HIDE DEF ix
  <2> QED
    BY <2>2
<1>3. Laid(b, ix, m)
  BY DEF Stored
<1> HIDE DEF ix
<1>4. Laid(g, ix, m)
  BY <1>1, <1>2, <1>3 DEF Laid
<1>5. ix # <<>>
  BY <1>1
<1>6. Index(g, n) = ix /\ Stored(g, n, m)
  BY <1>1, <1>4, <1>5, WalkFinds
<1> QED
  BY <1>6 DEF ix

LEMMA Counting ==
  ASSUME NEW x \in Nat, NEW c \in Nat
  PROVE  [r \in 1..x |-> r] \o [j \in 1..c |-> x + j] = [r \in 1..(x + c) |-> r]
<1> DEFINE s == [r \in 1..x |-> r]
           t == [j \in 1..c |-> x + j]
           w == [r \in 1..(x + c) |-> r]
<1>1. s \in Seq(Nat) /\ Len(s) = x /\ t \in Seq(Nat) /\ Len(t) = c /\ w \in Seq(Nat) /\ Len(w) = x + c
  OBVIOUS
<1>2. /\ \A r \in 1..x : s[r] = r
      /\ \A j \in 1..c : t[j] = x + j
      /\ \A r \in 1..(x + c) : w[r] = r
  OBVIOUS
<1> HIDE DEF s, t, w
<1> DEFINE z == s \o t
<1>3. /\ z \in Seq(Nat) /\ Len(z) = x + c
      /\ \A r \in 1..(x + c) : z[r] = IF r <= x THEN s[r] ELSE t[r - x]
  BY <1>1, ConcatProperties
<1> HIDE DEF z
<1>4. ASSUME NEW r \in 1..(x + c) PROVE z[r] = w[r]
  <2>1. CASE r <= x
    BY <1>2, <1>3, <2>1
  <2>2. CASE r > x
    <3>1. r - x \in 1..c /\ x + (r - x) = r /\ ~(r <= x)
      BY <2>2
    <3> QED
      BY <1>2, <1>3, <3>1
  <2> QED
    BY <2>1, <2>2
<1>5. z = w
  BY <1>1, <1>3, <1>4, SeqEqual
<1> QED
  BY <1>5 DEF s, t, w, z

\* The same, counting on from any number.
LEMMA CountingOn ==
  ASSUME NEW x \in Nat, NEW y \in Nat, NEW c \in Nat
  PROVE  [j \in 1..y |-> x + j] \o [j \in 1..c |-> (x + y) + j] = [j \in 1..(y + c) |-> x + j]
<1> DEFINE s == [j \in 1..y |-> x + j]
           t == [j \in 1..c |-> (x + y) + j]
           w == [j \in 1..(y + c) |-> x + j]
<1>1. s \in Seq(Nat) /\ Len(s) = y /\ t \in Seq(Nat) /\ Len(t) = c /\ w \in Seq(Nat) /\ Len(w) = y + c
  OBVIOUS
<1>2. /\ \A r \in 1..y : s[r] = x + r
      /\ \A j \in 1..c : t[j] = (x + y) + j
      /\ \A r \in 1..(y + c) : w[r] = x + r
  OBVIOUS
<1> HIDE DEF s, t, w
<1> DEFINE z == s \o t
<1>3. /\ z \in Seq(Nat) /\ Len(z) = y + c
      /\ \A r \in 1..(y + c) : z[r] = IF r <= y THEN s[r] ELSE t[r - y]
  BY <1>1, ConcatProperties
<1> HIDE DEF z
<1>4. ASSUME NEW r \in 1..(y + c) PROVE z[r] = w[r]
  <2>1. CASE r <= y
    BY <1>2, <1>3, <2>1, SMTT(40)
  <2>2. CASE r > y
    <3>1. r - y \in 1..c /\ (x + y) + (r - y) = x + r /\ ~(r <= y)
      BY <2>2
    <3> QED
      BY <1>2, <1>3, <3>1
  <2> QED
    BY <2>1, <2>2
<1>5. z = w
  BY <1>1, <1>3, <1>4, SeqEqual
<1> QED
  BY <1>5 DEF s, t, w, z

\* The first n records hold the first m rows, each in its place.
LEMMA RowsRead ==
  ASSUME NEW b \in Seq(Cell), NEW n, NEW m, Stored(b, n, m)
  PROVE  RowsOf(b, Index(b, n)) = [r \in 1..m |-> r]
<1> DEFINE ix == Index(b, n)
           parts == [k \in 1..Len(ix) |-> RowsAt(b, ix[k])]
<1>1. n \in Nat \ {0} /\ m \in Nat /\ ix \in Seq(Extents) /\ Len(ix) = n
  BY StoredFacts
<1>2. Len(parts) = n
  BY <1>1
<1>3. PICK f : /\ FlattenSeq(parts) = f[n]
               /\ f[1] = parts[1]
               /\ \A i \in 2..n : f[i] = f[i - 1] \o parts[i]
  <2> HIDE DEF parts
  <2> QED
    BY <1>1, <1>2, FlatStep
<1>4. \A k \in 1..n : /\ ix[k].at \in Nat /\ ix[k].rows \in Nat /\ Before(ix, k) \in Nat
                      /\ parts[k] = [j \in 1..ix[k].rows |-> Before(ix, k) + j]
                      /\ RowsIn(ix, k) = Before(ix, k) + ix[k].rows
  <2>1. ASSUME NEW k \in 1..n
        PROVE  /\ ix[k].at \in Nat /\ ix[k].rows \in Nat /\ Before(ix, k) \in Nat
               /\ RowsAt(b, ix[k]) = [j \in 1..ix[k].rows |-> Before(ix, k) + j]
    BY StoredCells
  <2>2. \A k \in 1..n : parts[k] = RowsAt(b, ix[k]) /\ k # 0
    BY <1>1
  <2> HIDE DEF parts, ix
  <2> QED
    BY <2>1, <2>2 DEF RowsIn
<1>5. /\ Before(ix, 1) = 0 /\ RowsIn(ix, n) = m
      /\ \A k \in 1..(n - 1) : Before(ix, k + 1) = RowsIn(ix, k)
  <2>1. /\ ix[1].at = 2 /\ ix[n].at + ix[n].rows = n + m + 1
        /\ \A k \in 1..n : k < n => ix[k + 1].at = ix[k].at + ix[k].rows + 1
    BY <1>1 DEF Stored, Laid
  <2> HIDE DEF ix, parts
  <2>2. Before(ix, 1) = 0
    BY <2>1 DEF Before
  <2>3. RowsIn(ix, n) = m
    <3> DEFINE a == ix[n].at
               w == ix[n].rows
    <3>0. n \in 1..n
      BY <1>1
    <3>1. a \in Nat /\ w \in Nat /\ a + w = n + m + 1 /\ RowsIn(ix, n) = (a - n - 1) + w
      BY <1>4, <2>1, <3>0 DEF Before
    <3> HIDE DEF a, w
    <3> QED
      BY <1>1, <3>1
  <2>4. ASSUME NEW k \in 1..(n - 1) PROVE Before(ix, k + 1) = RowsIn(ix, k)
    <3> DEFINE a == ix[k].at
               w == ix[k].rows
    <3>1. k \in 1..n /\ k < n /\ k \in Nat
      BY <1>1
    <3>2. /\ a \in Nat /\ w \in Nat /\ ix[k + 1].at = a + w + 1
          /\ RowsIn(ix, k) = (a - k - 1) + w
          /\ Before(ix, k + 1) = ix[k + 1].at - (k + 1) - 1
      BY <1>4, <2>1, <3>1 DEF Before
    <3> HIDE DEF a, w
    <3> QED
      BY <3>1, <3>2
  <2> QED
    BY <2>2, <2>3, <2>4
<1>6. FlattenSeq(parts) = RowsOf(b, ix)
  BY DEF RowsOf
<1> HIDE DEF parts, ix
<1> DEFINE S == {k \in 0..(n - 1) : f[k + 1] = [r \in 1..RowsIn(ix, k + 1) |-> r]}
<1>7. 0 \in S
  <2>1. 1 \in 1..n /\ 0 \in 0..(n - 1)
    BY <1>1
  <2>2. f[1] = [j \in 1..ix[1].rows |-> 0 + j] /\ RowsIn(ix, 1) = ix[1].rows
    BY <1>3, <1>4, <1>5, <2>1
  <2>3. [j \in 1..ix[1].rows |-> 0 + j] = [r \in 1..ix[1].rows |-> r]
    OBVIOUS
  <2>4. f[1] = [r \in 1..RowsIn(ix, 1) |-> r] /\ 0 + 1 = 1
    BY <2>2, <2>3
  <2> HIDE DEF ix
  <2> QED
    BY ONLY <2>1, <2>4
<1>8. ASSUME NEW k \in 0..(n - 2), k \in S PROVE k + 1 \in S
  <2> DEFINE x == RowsIn(ix, k + 1)
             c == ix[k + 2].rows
  <2>1. k + 1 \in 1..(n - 1) /\ k + 2 \in 2..n /\ k + 2 \in 1..n /\ (k + 2) - 1 = k + 1
        /\ (k + 1) + 1 = k + 2 /\ k + 1 \in 1..n /\ k + 1 \in 0..(n - 1)
    BY <1>1
  <2>2. f[k + 2] = f[k + 1] \o parts[k + 2]
    BY <1>3, <2>1
  <2>3. parts[k + 2] = [j \in 1..c |-> x + j] /\ x \in Nat /\ c \in Nat /\ RowsIn(ix, k + 2) = x + c
    <3>1. Before(ix, k + 2) = x
      BY <1>5, <2>1
    <3> HIDE DEF x
    <3> QED
      BY <1>4, <2>1, <3>1
  <2>4. f[k + 1] = [r \in 1..x |-> r]
    BY <1>8
  <2> HIDE DEF x, c
  <2>5. f[k + 2] = [r \in 1..RowsIn(ix, k + 2) |-> r]
    BY <2>2, <2>3, <2>4, Counting
  <2> QED
    BY <2>1, <2>5
<1>9. n - 1 \in S
  <2>1. n - 1 \in Nat /\ (n - 1) - 1 = n - 2
    BY <1>1
  <2> HIDE DEF S
  <2> QED
    BY <1>7, <1>8, <2>1, UpTo, SMTT(40)
<1>10. f[n] = [r \in 1..m |-> r]
  <2>1. (n - 1) + 1 = n
    BY <1>1
  <2> QED
    BY <1>5, <1>9, <2>1
<1> QED
  BY <1>3, <1>6, <1>10 DEF ix

\* How many rows come before and with each record.
LEMMA RowsCounted ==
  ASSUME NEW b \in Seq(Cell), NEW n, NEW m, Stored(b, n, m)
  PROVE  LET ix == Index(b, n) IN
         /\ RowsIn(ix, 0) = 0 /\ RowsIn(ix, n) = m
         /\ \A k \in 1..n : /\ Before(ix, k) = RowsIn(ix, k - 1)
                            /\ RowsIn(ix, k) = RowsIn(ix, k - 1) + ix[k].rows
         /\ \A k \in 0..n : RowsIn(ix, k) \in Nat
<1> DEFINE ix == Index(b, n)
<1>1. n \in Nat \ {0} /\ m \in Nat /\ ix \in Seq(Extents) /\ Len(ix) = n
  BY StoredFacts
<1>2. \A k \in 1..n : /\ ix[k].at \in Nat /\ ix[k].rows \in Nat /\ Before(ix, k) \in Nat
                      /\ RowsIn(ix, k) = Before(ix, k) + ix[k].rows
  <2>1. ASSUME NEW k \in 1..n
        PROVE  ix[k].at \in Nat /\ ix[k].rows \in Nat /\ Before(ix, k) \in Nat
    BY StoredCells
  <2> HIDE DEF ix
  <2> QED
    BY <1>1, <2>1 DEF RowsIn
<1>3. /\ ix[1].at = 2 /\ ix[n].at + ix[n].rows = n + m + 1
      /\ \A k \in 1..n : k < n => ix[k + 1].at = ix[k].at + ix[k].rows + 1
  BY <1>1 DEF Stored, Laid
<1> HIDE DEF ix
<1>4. RowsIn(ix, 0) = 0
  BY DEF RowsIn
<1>5. RowsIn(ix, n) = m
  <2> DEFINE a == ix[n].at
             w == ix[n].rows
  <2>1. n \in 1..n
    BY <1>1
  <2>2. a \in Nat /\ w \in Nat /\ a + w = n + m + 1 /\ RowsIn(ix, n) = (a - n - 1) + w
    BY <1>2, <1>3, <2>1 DEF Before
  <2> HIDE DEF a, w
  <2> QED
    BY <1>1, <2>2
<1>6. ASSUME NEW k \in 1..n PROVE Before(ix, k) = RowsIn(ix, k - 1)
  <2>1. CASE k = 1
    BY <1>3, <1>4, <2>1 DEF Before
  <2>2. CASE k # 1
    <3> DEFINE a == ix[k - 1].at
               w == ix[k - 1].rows
    <3>1. k - 1 \in 1..n /\ k - 1 < n /\ (k - 1) + 1 = k /\ k \in Nat
      BY <1>1, <2>2
    <3>2. /\ a \in Nat /\ w \in Nat /\ ix[k].at = a + w + 1
          /\ RowsIn(ix, k - 1) = (a - (k - 1) - 1) + w
          /\ Before(ix, k) = ix[k].at - k - 1
      BY <1>2, <1>3, <3>1 DEF Before
    <3> HIDE DEF a, w
    <3> QED
      BY <3>1, <3>2
  <2> QED
    BY <2>1, <2>2
<1>7. ASSUME NEW k \in 0..n PROVE RowsIn(ix, k) \in Nat
  BY <1>1, <1>2, <1>4
<1> QED
  BY <1>2, <1>4, <1>5, <1>6, <1>7 DEF ix

LEMMA Joined ==
  ASSUME NEW s \in Seq(Cell), NEW t \in Seq(Cell), NEW x, NEW y,
         x = Len(s), y = Len(t)
  PROVE  /\ s \o t \in Seq(Cell) /\ Len(s \o t) = x + y
         /\ \A p \in 1..x : (s \o t)[p] = s[p]
         /\ \A j \in 1..y : (s \o t)[x + j] = t[j]
<1>0. x \in Nat /\ y \in Nat
  OBVIOUS
<1> DEFINE z == s \o t
<1>1. /\ z \in Seq(Cell) /\ Len(z) = Len(s) + Len(t)
      /\ \A p \in 1..(Len(s) + Len(t)) : z[p] = IF p <= Len(s) THEN s[p] ELSE t[p - Len(s)]
  BY ConcatProperties
<1> HIDE DEF z
<1>2. \A p \in 1..(x + y) : z[p] = IF p <= x THEN s[p] ELSE t[p - x]
  BY <1>1
<1>3. \A p \in 1..x : z[p] = s[p]
  <2>1. \A p \in 1..x : p \in 1..(x + y) /\ p <= x
    BY <1>0
  <2> QED
    BY <1>2, <2>1
<1>4. \A j \in 1..y : z[x + j] = t[j]
  <2>1. \A j \in 1..y : x + j \in 1..(x + y) /\ ~(x + j <= x) /\ (x + j) - x = j
    BY <1>0
  <2> QED
    BY <1>2, <2>1
<1> QED
  BY <1>1, <1>3, <1>4 DEF z

\* One more record behind the last.
LEMMA RecordAppended ==
  ASSUME NEW b \in Seq(Cell), NEW n \in Nat, NEW m \in Nat, Stored(b, n, m), Len(b) = n + m,
         NEW c \in Nat
  PROVE  LET g == b \o RecordCells(n, Following(m, c)) IN
         /\ g \in Seq(Cell) /\ Len(g) = (n + 1) + (m + c)
         /\ \A p \in 1..(n + m) : g[p] = b[p]
         /\ Stored(g, n + 1, m + c)
         /\ Index(g, n + 1) = Append(Index(b, n), [at |-> n + m + 2, rows |-> c])
<1> DEFINE rows == Following(m, c)
           cells == [j \in 1..c |-> RowCell(m + j)]
           head == RecHead(n, c)
           rc == RecordCells(n, rows)
           g == b \o rc
           ix == Index(b, n)
           e == [at |-> n + m + 2, rows |-> c]
           ix2 == Append(ix, e)
<1>1. /\ n \in Nat \ {0} /\ m \in Nat /\ n + m \in Nat /\ ix \in Seq(Extents) /\ Len(ix) = n
      /\ Laid(b, ix, m)
  BY StoredFacts DEF Stored
<1>2. head \in Cell /\ \A j \in 1..c : RowCell(m + j) \in Cell
  BY <1>1 DEF RecHead, RowCell, Cell
<1>3. rc = <<head>> \o cells
  <2>1. rows \in Seq(Nat) /\ Len(rows) = c /\ \A j \in 1..c : rows[j] = m + j
    BY <1>1 DEF Following
  <2> HIDE DEF rows
  <2>2. [j \in 1..Len(rows) |-> RowCell(rows[j])] = cells
    BY <2>1
  <2> QED
    BY <2>1, <2>2 DEF RecordCells
<1>4. /\ rc \in Seq(Cell) /\ Len(rc) = 1 + c /\ rc[1] = head
      /\ \A j \in 1..c : rc[j + 1] = RowCell(m + j)
  <2> DEFINE one == <<head>>
  <2>1. one \in Seq(Cell) /\ Len(one) = 1 /\ one[1] = head /\ cells \in Seq(Cell) /\ Len(cells) = c
    BY <1>2
  <2>2. \A j \in 1..c : cells[j] = RowCell(m + j)
    OBVIOUS
  <2> HIDE DEF one, cells, rc, head
  <2>3. /\ one \o cells \in Seq(Cell) /\ Len(one \o cells) = 1 + c
        /\ \A p \in 1..1 : (one \o cells)[p] = one[p]
        /\ \A j \in 1..c : (one \o cells)[1 + j] = cells[j]
    <3> DEFINE x == 1
    <3>1. x \in Nat /\ Len(one) = x
      BY <2>1
    <3> HIDE DEF x
    <3>2. /\ one \o cells \in Seq(Cell) /\ Len(one \o cells) = x + c
          /\ \A p \in 1..x : (one \o cells)[p] = one[p]
          /\ \A j \in 1..c : (one \o cells)[x + j] = cells[j]
      BY <2>1, <3>1, Joined, SMTT(40)
    <3> QED
      BY <3>2 DEF x
  <2>4. rc = one \o cells
    BY <1>3 DEF one
  <2>5. \A j \in 1..c : j + 1 = 1 + j
    OBVIOUS
  <2> QED
    BY <2>1, <2>2, <2>3, <2>4, <2>5
<1> HIDE DEF rc, g
<1>5. /\ g \in Seq(Cell) /\ Len(g) = (n + m) + (1 + c)
      /\ \A p \in 1..(n + m) : g[p] = b[p]
      /\ \A j \in 1..(1 + c) : g[(n + m) + j] = rc[j]
  <2> DEFINE x == n + m
             y == 1 + c
  <2>1. x \in Nat /\ y \in Nat /\ Len(b) = x /\ Len(rc) = y /\ rc \in Seq(Cell)
    BY <1>1, <1>4
  <2> HIDE DEF x, y
  <2>2. /\ g \in Seq(Cell) /\ Len(g) = x + y
        /\ \A p \in 1..x : g[p] = b[p]
        /\ \A j \in 1..y : g[x + j] = rc[j]
    BY <2>1, Joined DEF g
  <2> QED
    BY <2>2 DEF x, y
<1>6. /\ \A p \in 1..(n + m) : g[p] = b[p]
      /\ g[n + m + 1] = head
      /\ \A j \in 1..c : g[n + m + 1 + j] = RowCell(m + j)
  <2>1. 1 \in 1..(1 + c) /\ \A j \in 1..c : j + 1 \in 1..(1 + c) /\ (n + m) + (j + 1) = n + m + 1 + j
    BY <1>1
  <2> QED
    BY <1>4, <1>5, <2>1
<1>7. e \in Extents /\ e.at = n + m + 2 /\ e.rows = c
  BY <1>1 DEF Extents
<1> HIDE DEF ix, e, ix2, head
<1>8. /\ ix2 \in Seq(Extents) /\ Len(ix2) = n + 1 /\ ix2 # <<>>
      /\ \A k \in 1..n : ix2[k] = ix[k]
      /\ ix2[n + 1] = e
  <2>1. ix2 \in Seq(Extents) /\ Len(ix2) = n + 1 /\ (\A k \in 1..n : ix2[k] = ix[k]) /\ ix2[n + 1] = e
    BY <1>1, <1>7, AppendProperties DEF ix2
  <2> QED
    BY <1>1, <2>1
<1>9. /\ \A k \in 1..n : ix[k].at \in Nat /\ ix[k].rows \in Nat
      /\ ix[1].at = 2 /\ ix[n].at + ix[n].rows = n + m + 1
      /\ \A k \in 1..n : /\ k < n => ix[k + 1].at = ix[k].at + ix[k].rows + 1
                         /\ k + 1 <= ix[k].at /\ ix[k].at + ix[k].rows <= n + m + 1
                         /\ b[ix[k].at - 1] = RecHead(k - 1, ix[k].rows)
                         /\ \A j \in 1..ix[k].rows : b[ix[k].at + j - 1] = RowCell(Before(ix, k) + j)
  <2>1. \A k \in 1..n : ix[k].at \in Nat /\ ix[k].rows \in Nat
    BY <1>1, ExtentParts
  <2> QED
    BY <1>1, <2>1 DEF Laid
<1>10. Laid(g, ix2, m + c)
  <2>1. (n + 1) + (m + c) <= Len(g)
    BY <1>1, <1>5
  <2>2. ix2[1].at = 2 /\ ix2[n + 1].at + ix2[n + 1].rows = (n + 1) + (m + c) + 1
    <3>1. 1 \in 1..n /\ (n + m + 2) + c = (n + 1) + (m + c) + 1
      BY <1>1
    <3> QED
      BY <1>7, <1>8, <1>9, <3>1
  <2>3. ASSUME NEW k \in 1..(n + 1)
        PROVE  /\ k < n + 1 => ix2[k + 1].at = ix2[k].at + ix2[k].rows + 1
               /\ k + 1 <= ix2[k].at /\ ix2[k].at + ix2[k].rows <= (n + 1) + (m + c) + 1
               /\ g[ix2[k].at - 1] = RecHead(k - 1, ix2[k].rows)
               /\ \A j \in 1..ix2[k].rows : g[ix2[k].at + j - 1] = RowCell(Before(ix2, k) + j)
    <3>1. CASE k \in 1..n
      <4> DEFINE a == ix[k].at
                 w == ix[k].rows
      <4>1. ix2[k] = ix[k] /\ Before(ix2, k) = Before(ix, k)
        BY <1>8, <3>1 DEF Before
      <4>2. /\ a \in Nat /\ w \in Nat /\ k + 1 <= a /\ a + w <= n + m + 1
            /\ b[a - 1] = RecHead(k - 1, w)
            /\ \A j \in 1..w : b[a + j - 1] = RowCell(Before(ix, k) + j)
        BY <1>9, <3>1
      <4>3. k < n + 1 => ix2[k + 1].at = a + w + 1
        <5>1. CASE k < n
          <6>1. k + 1 \in 1..n /\ ix2[k + 1] = ix[k + 1]
            BY <1>1, <1>8, <5>1
          <6> QED
            BY <1>9, <3>1, <5>1, <6>1
        <5>2. CASE k = n
          BY <1>1, <1>7, <1>8, <1>9, <5>2
        <5> QED
          BY <1>1, <3>1, <5>1, <5>2
      <4> HIDE DEF a, w
      <4>4. a - 1 \in 1..(n + m) /\ (\A j \in 1..w : a + j - 1 \in 1..(n + m))
            /\ a + w <= (n + 1) + (m + c) + 1
        BY <1>1, <4>2
      <4>5. g[a - 1] = b[a - 1] /\ \A j \in 1..w : g[a + j - 1] = b[a + j - 1]
        BY <1>6, <4>4
      <4>6. /\ k < n + 1 => ix2[k + 1].at = a + w + 1
            /\ k + 1 <= a /\ a + w <= (n + 1) + (m + c) + 1
            /\ g[a - 1] = RecHead(k - 1, w)
            /\ \A j \in 1..w : g[a + j - 1] = RowCell(Before(ix, k) + j)
        BY <4>2, <4>3, <4>4, <4>5
      <4> QED
        BY <4>1, <4>6 DEF a, w
    <3>2. CASE k = n + 1
      <4>1. ix2[k].at = n + m + 2 /\ ix2[k].rows = c /\ Before(ix2, k) = m
        BY <1>1, <1>7, <1>8, <3>2, SMTT(40) DEF Before
      <4>2. (n + m + 2) - 1 = n + m + 1 /\ (\A j \in 1..c : (n + m + 2) + j - 1 = n + m + 1 + j)
            /\ (n + 1) - 1 = n
        BY <1>1
      <4>3. /\ g[(n + m + 2) - 1] = RecHead(n, c)
            /\ \A j \in 1..c : g[(n + m + 2) + j - 1] = RowCell(m + j)
        BY <1>6, <4>2 DEF head
      <4>4. ~(k < n + 1) /\ k + 1 <= n + m + 2 /\ (n + m + 2) + c <= (n + 1) + (m + c) + 1 /\ k - 1 = n
        BY <1>1, <3>2
      <4> QED
        BY <4>1, <4>3, <4>4
    <3> QED
      BY <1>1, <3>1, <3>2
  <2> QED
    BY <1>8, <2>1, <2>2, <2>3 DEF Laid
<1>11. n + 1 \in Nat \ {0} /\ m + c \in Nat /\ (n + m) + (1 + c) = (n + 1) + (m + c)
  BY <1>1
<1>12. Index(g, n + 1) = ix2 /\ Stored(g, n + 1, m + c)
  BY <1>5, <1>8, <1>10, <1>11, WalkFinds
<1> QED
  BY <1>5, <1>6, <1>11, <1>12 DEF g, rc, ix2, ix, e

\* A file that is one record.
LEMMA OneRecord ==
  ASSUME NEW b \in Seq(Cell), NEW m \in Nat, 1 + m <= Len(b),
         \A p \in 1..(1 + m) : b[p] = IF p = 1 THEN RecHead(0, m) ELSE RowCell(p - 1)
  PROVE  Stored(b, 1, m)
<1> DEFINE e == [at |-> 2, rows |-> m]
           ix == <<e>>
<1>1. e \in Extents /\ e.at = 2 /\ e.rows = m
  BY DEF Extents
<1>2. ix \in Seq(Extents) /\ Len(ix) = 1 /\ ix[1] = e /\ ix # <<>>
  BY <1>1
<1> HIDE DEF e, ix
<1>3. Before(ix, 1) = 0
  BY <1>1, <1>2 DEF Before
<1>4. b[1] = RecHead(0, m) /\ \A j \in 1..m : b[j + 1] = RowCell(j)
  <2>1. 1 \in 1..(1 + m) /\ \A j \in 1..m : j + 1 \in 1..(1 + m) /\ j + 1 # 1 /\ (j + 1) - 1 = j
    OBVIOUS
  <2> QED
    BY <2>1
<1>5. \A j \in 1..m : 2 + j - 1 = j + 1 /\ 0 + j = j
  OBVIOUS
<1>6. Laid(b, ix, m)
  BY <1>1, <1>2, <1>3, <1>4, <1>5 DEF Laid
<1> QED
  BY <1>2, <1>6, WalkFinds

\* And what is in it.
LEMMA OneRecordCells ==
  ASSUME NEW b \in Seq(Cell), NEW m, Stored(b, 1, m)
  PROVE  /\ m \in Nat /\ 1 + m <= Len(b)
         /\ \A p \in 1..(1 + m) : b[p] = IF p = 1 THEN RecHead(0, m) ELSE RowCell(p - 1)
<1> DEFINE one == 1
           ix == Index(b, one)
<1>0. one = 1 /\ one \in 1..one /\ Stored(b, one, m)
  OBVIOUS
<1> HIDE DEF one
<1>1. m \in Nat /\ 1 + m <= Len(b) /\ Len(ix) = 1
  BY <1>0, StoredFacts
<1>2. /\ ix[1].at \in Nat /\ ix[1].rows \in Nat
      /\ b[ix[1].at - 1] = RecHead(1 - 1, ix[1].rows)
      /\ \A j \in 1..ix[1].rows : b[ix[1].at + j - 1] = RowCell(Before(ix, 1) + j)
  <2>1. \A k \in 1..one :
          /\ ix[k].at \in Nat /\ ix[k].rows \in Nat
          /\ b[ix[k].at - 1] = RecHead(k - 1, ix[k].rows)
          /\ \A j \in 1..ix[k].rows : b[ix[k].at + j - 1] = RowCell(Before(ix, k) + j)
    <3> SUFFICES ASSUME NEW k \in 1..one
                 PROVE  /\ ix[k].at \in Nat /\ ix[k].rows \in Nat
                        /\ b[ix[k].at - 1] = RecHead(k - 1, ix[k].rows)
                        /\ \A j \in 1..ix[k].rows : b[ix[k].at + j - 1] = RowCell(Before(ix, k) + j)
      OBVIOUS
    <3>1. ix[k].at \in Nat /\ ix[k].rows \in Nat
      BY <1>0, StoredCells
    <3>2. b[ix[k].at - 1] = RecHead(k - 1, ix[k].rows)
      BY <1>0, StoredCells, ZenonT(40)
    <3>3. \A j \in 1..ix[k].rows : b[ix[k].at + j - 1] = RowCell(Before(ix, k) + j)
      BY <1>0, <1>1 DEF Stored, Laid
    <3> QED
      BY <3>1, <3>2, <3>3
  <2> HIDE DEF ix
  <2> QED
    BY <1>0, <2>1
<1>3. ix[1].at = 2 /\ ix[1].at + ix[1].rows = 1 + m + 1
  BY <1>0, <1>1 DEF Stored, Laid
<1> HIDE DEF ix
<1>4. ix[1].rows = m /\ Before(ix, 1) = 0
  BY <1>1, <1>2, <1>3 DEF Before
<1>5. b[1] = RecHead(0, m) /\ \A j \in 1..m : b[j + 1] = RowCell(j)
  <2>1. \A j \in 1..m : 2 + j - 1 = j + 1 /\ 0 + j = j
    OBVIOUS
  <2> QED
    BY <1>2, <1>3, <1>4, <2>1
<1>6. ASSUME NEW p \in 1..(1 + m) PROVE b[p] = IF p = 1 THEN RecHead(0, m) ELSE RowCell(p - 1)
  <2>1. p # 1 => p - 1 \in 1..m /\ (p - 1) + 1 = p
    BY <1>1
  <2> QED
    BY <1>5, <2>1
<1> QED
  BY <1>1, <1>6

\* An output whose record header finds its rows has them all.
LEMMA OutputOpens ==
  ASSUME NEW b \in Seq(Cell), NEW m \in Nat, b # <<>> => b[1] = RecHead(0, m), WalkOK(b, 1)
  PROVE  1 + m <= Len(b)
<1> DEFINE l == Len(b)
           h == HeadAt(b, 1)[1]
<1>1. h = NextHead(b, 1, 1) /\ h \in 1..(l + 1) /\ l \in Nat
  BY HeadsStep DEF WalkOK
<1>2. b # <<>> => l # 0
  OBVIOUS
<1>3. b # <<>> /\ h = 2 + m
  <2>1. CASE b = <<>>
    BY <1>1, <2>1 DEF NextHead
  <2>2. CASE b # <<>>
    <3>1. b[1].kind = "head" /\ b[1].idx = 0 /\ b[1].rows = m
      BY <2>2 DEF RecHead
    <3> QED
      BY <1>1, <1>2, <2>2, <3>1 DEF NextHead
  <2> QED
    BY <2>1, <2>2
<1> HIDE DEF l, h
<1>4. 1 + m <= l
  BY <1>1, <1>3
<1> QED
  BY <1>4 DEF l

\* The store to begin with.
LEMMA StartCells ==
  ASSUME NEW ends \in Starts, NEW k \in 1..Len(ends), NEW p \in Nat,
         p - k \in RowsBefore(ends, k)..ends[k]
  PROVE  StartCell(ends, p) = IF p - k = RowsBefore(ends, k)
                              THEN RecHead(k - 1, ends[k] - RowsBefore(ends, k)) ELSE RowCell(p - k)
<1>1. /\ ends \in Seq(Nat) /\ \A j, i \in 1..Len(ends) : j <= i => ends[j] <= ends[i]
  BY StartsAssumption
<1>2. \A i \in 1..Len(ends) : ends[i] \in Nat /\ i \in Nat
  BY <1>1
<1>3. ASSUME NEW i \in 1..Len(ends), NEW j \in 1..Len(ends), j < i
      PROVE  ends[j] <= RowsBefore(ends, i)
  <2>1. i \in Nat /\ j \in Nat /\ i # 1 /\ i - 1 \in 1..Len(ends) /\ j <= i - 1
    BY <1>2, <1>3
  <2>2. ends[j] <= ends[i - 1]
    BY <1>1, <2>1
  <2> QED
    BY <2>1, <2>2 DEF RowsBefore
<1>4. ASSUME NEW i \in 1..Len(ends), p - i \in RowsBefore(ends, i)..ends[i] PROVE i = k
  <2>1. RowsBefore(ends, i) \in Nat /\ RowsBefore(ends, k) \in Nat
    BY <1>1, <1>2 DEF RowsBefore
  <2>2. CASE i < k
    BY <1>2, <1>3, <1>4, <2>1, <2>2
  <2>3. CASE k < i
    BY <1>2, <1>3, <1>4, <2>1, <2>3
  <2> QED
    BY <1>2, <2>2, <2>3
<1>5. (CHOOSE i \in 1..Len(ends) : p - i \in RowsBefore(ends, i)..ends[i]) = k
  BY <1>4
<1> QED
  BY <1>5 DEF StartCell

LEMMA EntryType ==
  ASSUME NEW rows \in Seq(Nat)
  PROVE  Entry(rows) \in SUBSET Nat
BY BoundAssumption DEF Entry, Rows

LEMMA StartStored ==
  ASSUME NEW ends \in Starts, NEW stats \in BOOLEAN
  PROVE  LET f == StartFile(ends, stats) IN
         /\ f \in Contents /\ Stored(f.body, f.n, f.rows)
         /\ f.n = Len(ends) /\ f.rows = ends[Len(ends)]
         /\ Index(f.body, f.n) = [k \in 1..Len(ends) |-> [at |-> k + RowsBefore(ends, k) + 1,
                                                         rows |-> ends[k] - RowsBefore(ends, k)]]
         /\ IF stats
            THEN f.body[Len(f.body)] =
                   Foot([k \in 1..Len(ends) |-> Entry([j \in 1..(ends[k] - RowsBefore(ends, k)) |->
                                                         RowsBefore(ends, k) + j])])
            ELSE Len(f.body) = f.n + f.rows
<1> DEFINE n == Len(ends)
           m == ends[n]
           before(k) == RowsBefore(ends, k)
           body == [p \in 1..(n + m) |-> StartCell(ends, p)]
           foot == Foot([k \in 1..n |-> Entry([j \in 1..(ends[k] - RowsBefore(ends, k)) |->
                                                RowsBefore(ends, k) + j])])
           all == IF stats THEN Append(body, foot) ELSE body
           ix == [k \in 1..n |-> [at |-> k + before(k) + 1, rows |-> ends[k] - before(k)]]
<1>1. /\ ends \in Seq(Nat) /\ ends # <<>>
      /\ \A j, i \in 1..Len(ends) : j <= i => ends[j] <= ends[i]
  BY StartsAssumption
<1>2. n \in Nat \ {0} /\ m \in Nat /\ 1 \in 1..n /\ n \in 1..n
  BY <1>1
<1>3. \A k \in 1..n : /\ k \in Nat /\ ends[k] \in Nat /\ before(k) \in Nat
                      /\ before(k) <= ends[k] /\ ends[k] <= m /\ ends[k] - before(k) \in Nat
  <2>1. ASSUME NEW k \in 1..n
        PROVE  k \in Nat /\ ends[k] \in Nat /\ before(k) \in Nat /\ before(k) <= ends[k] /\ ends[k] <= m
    <3>1. k # 1 => k - 1 \in 1..n /\ k - 1 <= k
      BY <1>2
    <3>2. k <= n
      BY <1>2
    <3> QED
      BY <1>1, <1>2, <3>1, <3>2 DEF RowsBefore
  <2> HIDE DEF before, m, n
  <2> QED
    BY <2>1
<1>4. before(1) = 0 /\ \A k \in 1..n : k < n => before(k + 1) = ends[k]
  <2>1. \A k \in 1..n : k + 1 # 1 /\ (k + 1) - 1 = k
    BY <1>2
  <2> QED
    BY <2>1 DEF RowsBefore
<1>5. ASSUME NEW p \in 1..(n + m) PROVE \E k \in 1..n : p - k \in before(k)..ends[k]
  <2> DEFINE S == {k \in 1..n : p <= ends[k] + k}
  <2>1. n \in S /\ S \in SUBSET Nat
    BY <1>2
  <2>2. PICK k \in S : \A i \in S : k <= i
    <3> HIDE DEF S
    <3> QED
      BY <2>1, LeastNumber
  <2>3. k \in 1..n /\ p <= ends[k] + k
    BY <2>2
  <2>4. CASE k = 1
    BY <1>3, <1>4, <2>3, <2>4
  <2>5. CASE k # 1
    <3>1. k - 1 \in 1..n /\ k - 1 < n /\ (k - 1) + 1 = k /\ k \in Nat
      BY <1>2, <2>3, <2>5
    <3>2. k - 1 \notin S
      BY <2>2, <3>1
    <3>3. ~(p <= ends[k - 1] + (k - 1)) /\ before(k) = ends[k - 1]
      BY <1>4, <3>1, <3>2
    <3>4. ends[k] \in Nat /\ ends[k - 1] \in Nat /\ p \in Nat
      BY <1>2, <1>3, <2>3, <3>1, SMTT(40)
    <3> HIDE DEF before, n, m
    <3>5. p - k \in before(k)..ends[k]
      BY <2>3, <3>1, <3>3, <3>4
    <3> QED
      BY <2>3, <3>5
  <2> QED
    BY <2>4, <2>5
<1>6. ASSUME NEW k \in 1..n, NEW p \in 1..(n + m), p - k \in before(k)..ends[k]
      PROVE  body[p] = IF p - k = before(k) THEN RecHead(k - 1, ends[k] - before(k)) ELSE RowCell(p - k)
  BY <1>2, <1>6, StartCells
<1>7. body \in Seq(Cell) /\ Len(body) = n + m
  <2>1. ASSUME NEW p \in 1..(n + m) PROVE body[p] \in Cell
    <3>1. PICK k \in 1..n : p - k \in before(k)..ends[k]
      BY <1>5
    <3>2. body[p] = IF p - k = before(k) THEN RecHead(k - 1, ends[k] - before(k)) ELSE RowCell(p - k)
      BY <1>6, <3>1
    <3>3. k - 1 \in Nat /\ ends[k] - before(k) \in Nat /\ p - k \in Nat
      BY <1>2, <1>3, <3>1
    <3> HIDE DEF before, n, m, body
    <3> QED
      BY <3>2, <3>3 DEF RecHead, RowCell, Cell
  <2>2. \A p \in 1..(n + m) : StartCell(ends, p) \in Cell
    BY <2>1
  <2> HIDE DEF n, m
  <2> QED
    BY <1>2, <2>2
<1>8. foot \in Cell
  <2>1. ASSUME NEW k \in 1..n PROVE Entry([j \in 1..(ends[k] - before(k)) |-> before(k) + j]) \in SUBSET Nat
    <3>1. before(k) \in Nat /\ ends[k] - before(k) \in Nat
      BY <1>3
    <3> HIDE DEF before
    <3>2. [j \in 1..(ends[k] - before(k)) |-> before(k) + j] \in Seq(Nat)
      BY <3>1
    <3> QED
      BY <3>2, EntryType
  <2>2. [k \in 1..n |-> Entry([j \in 1..(ends[k] - before(k)) |-> before(k) + j])] \in Seq(SUBSET Nat)
    BY <1>2, <2>1
  <2> QED
    BY <2>2 DEF Foot, Cell
<1>9. ix \in Seq(Extents) /\ Len(ix) = n /\ ix # <<>>
  <2>1. \A k \in 1..n : [at |-> k + before(k) + 1, rows |-> ends[k] - before(k)] \in Extents
    BY <1>3 DEF Extents
  <2> HIDE DEF before
  <2>2. ix \in Seq(Extents) /\ Len(ix) = n
    BY <1>2, <2>1
  <2> QED
    BY <1>2, <2>2
<1>10. \A k \in 1..n : ix[k].at = k + before(k) + 1 /\ ix[k].rows = ends[k] - before(k)
  OBVIOUS
<1> HIDE DEF body, ix, before, m
<1>11. Laid(body, ix, m)
  <2>1. n + m <= Len(body)
    BY <1>2, <1>7
  <2>2. ix[1].at = 2 /\ ix[n].at + ix[n].rows = n + m + 1
    <3>1. ix[n].at + ix[n].rows = (n + before(n) + 1) + (ends[n] - before(n)) /\ ends[n] = m
      BY <1>2, <1>10 DEF m
    <3>2. ix[1].at = 1 + before(1) + 1 /\ before(n) \in Nat
      BY <1>2, <1>3, <1>10
    <3> HIDE DEF n
    <3> QED
      BY <1>2, <1>4, <3>1, <3>2
  <2>3. ASSUME NEW k \in 1..n
        PROVE  /\ k < n => ix[k + 1].at = ix[k].at + ix[k].rows + 1
               /\ k + 1 <= ix[k].at /\ ix[k].at + ix[k].rows <= n + m + 1
               /\ body[ix[k].at - 1] = RecHead(k - 1, ix[k].rows)
               /\ \A j \in 1..ix[k].rows : body[ix[k].at + j - 1] = RowCell(Before(ix, k) + j)
    <3> DEFINE x == before(k)
               z == ends[k]
    <3>1. /\ k \in Nat /\ x \in Nat /\ z \in Nat /\ x <= z /\ z <= m /\ z - x \in Nat
          /\ ix[k].at = k + x + 1 /\ ix[k].rows = z - x /\ k <= n
      BY <1>2, <1>3, <1>10
    <3>2. k < n => ix[k + 1].at = (k + 1) + z + 1
      <4>1. k < n => k + 1 \in 1..n
        BY <1>2, <3>1
      <4> QED
        BY <1>4, <1>10, <4>1
    <3>3. /\ \A p \in 1..(n + m) : p - k \in x..z =>
               body[p] = IF p - k = x THEN RecHead(k - 1, z - x) ELSE RowCell(p - k)
      BY <1>6
    <3> HIDE DEF x, z, n
    <3>4. body[(k + x + 1) - 1] = RecHead(k - 1, z - x)
      <4>1. k + x \in 1..(n + m) /\ (k + x) - k = x /\ x \in x..z /\ (k + x + 1) - 1 = k + x
        BY <1>2, <3>1
      <4> QED
        BY <3>3, <4>1
    <3>5. ASSUME NEW j \in 1..(z - x)
          PROVE  body[(k + x + 1) + j - 1] = RowCell(x + j)
      <4>1. /\ k + x + j \in 1..(n + m) /\ (k + x + j) - k = x + j /\ x + j \in x..z /\ x + j # x
            /\ (k + x + 1) + j - 1 = k + x + j
        BY <1>2, <3>1
      <4> QED
        BY <3>3, <4>1
    <3>6. Before(ix, k) = x
      BY <3>1 DEF Before
    <3>7. /\ k < n => ix[k + 1].at = ix[k].at + ix[k].rows + 1
          /\ k + 1 <= ix[k].at /\ ix[k].at + ix[k].rows <= n + m + 1
      BY <1>2, <3>1, <3>2
    <3> QED
      BY <3>1, <3>4, <3>5, <3>6, <3>7
  <2> QED
    BY <1>9, <2>1, <2>2, <2>3 DEF Laid
<1>12. Stored(body, n, m) /\ Index(body, n) = ix
  BY <1>2, <1>7, <1>9, <1>11, WalkFinds
<1>13. all \in Seq(Cell) /\ Len(all) \in Nat /\ n + m <= Len(all) /\ \A p \in 1..(n + m) : all[p] = body[p]
  <2> HIDE DEF foot, n
  <2>1. Append(body, foot) \in Seq(Cell) /\ Len(Append(body, foot)) = (n + m) + 1
        /\ \A p \in 1..(n + m) : Append(body, foot)[p] = body[p]
    BY <1>7, <1>8, AppendProperties
  <2> QED
    BY <1>2, <1>7, <2>1
<1>14. Stored(all, n, m) /\ Index(all, n) = ix
  BY <1>7, <1>12, <1>13, StaysStored
<1>15. StartFile(ends, stats) = [n |-> n, rows |-> m, stats |-> IF stats THEN Len(body) + 1 ELSE 0,
                                 body |-> all]
  BY DEF StartFile, body, m
<1>16. (IF stats THEN Len(body) + 1 ELSE 0) \in Nat
  BY <1>2, <1>7
<1>17. IF stats THEN all[Len(all)] = foot ELSE Len(all) = n + m
  <2> HIDE DEF foot, n
  <2>1. Len(Append(body, foot)) = (n + m) + 1 /\ Append(body, foot)[(n + m) + 1] = foot
    BY <1>7, <1>8, AppendProperties
  <2> QED
    BY <1>7, <2>1 DEF all
<1>18. ix = [k \in 1..Len(ends) |-> [at |-> k + RowsBefore(ends, k) + 1,
                                    rows |-> ends[k] - RowsBefore(ends, k)]]
  BY DEF ix, before, n
<1>19. foot = Foot([k \in 1..Len(ends) |-> Entry([j \in 1..(ends[k] - RowsBefore(ends, k)) |->
                                                   RowsBefore(ends, k) + j])])
  BY DEF foot, n
<1> DEFINE h == StartFile(ends, stats)
<1> HIDE DEF ix, foot, all, n, m
<1>20. h.n = n /\ h.rows = m /\ h.body = all /\ h \in Contents
  BY <1>2, <1>13, <1>15, <1>16 DEF Contents
<1> HIDE DEF h
<1>21. /\ h \in Contents /\ Stored(h.body, h.n, h.rows) /\ h.n = n /\ h.rows = m
       /\ Index(h.body, h.n) = ix
       /\ IF stats THEN h.body[Len(h.body)] = foot ELSE Len(h.body) = h.n + h.rows
  BY <1>14, <1>17, <1>20
<1> QED
  BY <1>18, <1>19, <1>21 DEF n, m, h

------------------------------------------------------------------------------
(* What is behind the names: every step keeps PathInv *)

LEMMA InitPath == Init => PathInv
<1> SUFFICES ASSUME Init PROVE PathInv
  OBVIOUS
<1>1. PICK i \in Inodes, ends \in Starts, stats \in Statistics :
          /\ path = [src |-> i, temp |-> None, out |-> None]
          /\ file = [[j \in Inodes |-> EmptyFile] EXCEPT ![i] = StartFile(ends, stats)]
          /\ holder = [j \in Inodes |-> None]
          /\ upd = [u \in Updaters |-> NoUpdate]
          /\ comp = [c \in Compactors |-> NoCompaction]
          /\ acked = [r \in 1..ends[Len(ends)] |-> r]
  BY DEF Init
<1> DEFINE f == StartFile(ends, stats)
<1>2. /\ f \in Contents /\ Stored(f.body, f.n, f.rows) /\ f.rows = ends[Len(ends)] /\ f.rows \in Nat
  <2>1. stats \in BOOLEAN
    BY StatisticsAssumption
  <2>2. f \in Contents /\ Stored(f.body, f.n, f.rows) /\ f.rows = ends[Len(ends)]
    BY <2>1, StartStored
  <2> HIDE DEF f
  <2> QED
    BY <2>2 DEF Contents
<1> HIDE DEF f
<1>3. file = [[j \in Inodes |-> EmptyFile] EXCEPT ![i] = f]
  BY <1>1 DEF f
<1>4. file[path.src] = f /\ i # None
  BY <1>1, <1>3, NoneAssumption
<1>5. TypeInv
  <2>1. EmptyFile \in Contents
    BY DEF EmptyFile, Contents
  <2>2. file \in [Inodes -> Contents]
    BY <1>2, <1>3, <2>1
  <2>3. NoUpdate \in Update /\ NoCompaction \in Compaction
    BY DEF NoUpdate, Update, NoCompaction, Compaction
  <2>4. acked \in Seq(Nat)
    <3>1. acked = [r \in 1..f.rows |-> r]
      BY <1>1, <1>2
    <3> QED
      BY <1>2, <3>1
  <2>5. /\ path \in [src : Inodes, temp : Inodes \cup {None}, out : Inodes \cup {None}]
        /\ holder \in [Inodes -> Actors \cup {None}]
    BY <1>1
  <2> QED
    BY <1>1, <2>2, <2>3, <2>4, <2>5 DEF TypeInv
<1>6. NamesInv /\ OutputsInv
  BY <1>1, <1>4 DEF NamesInv, OutputsInv
<1>7. LockInv /\ PlaceInv /\ ActorsInv
  BY <1>1 DEF LockInv, PlaceInv, ActorsInv, Session, Compacts, NoUpdate, NoCompaction
<1>8. SourceInv
  BY <1>1, <1>2, <1>4 DEF SourceInv
<1> QED
  BY <1>5, <1>6, <1>7, <1>8 DEF PathInv

\* A step that changes no name, no file and no history.
LEMMA QuietStep ==
  ASSUME PathInv, UNCHANGED <<path, file, acked>>
  PROVE  /\ NamesInv' /\ SourceInv' /\ OutputsInv'
         /\ \A u \in Updaters : upd'[u] = upd[u] => Session(u)'
         /\ \A c \in Compactors : comp'[c] = comp[c] => Compacts(c)'
<1>1. NamesInv'
  BY DEF PathInv, NamesInv
<1>2. SourceInv'
  BY DEF PathInv, SourceInv
<1>3. OutputsInv'
  BY DEF PathInv, OutputsInv, Output
<1>4. \A u \in Updaters : upd'[u] = upd[u] => Session(u)'
  BY DEF PathInv, ActorsInv, Session
<1>5. \A c \in Compactors : comp'[c] = comp[c] => Compacts(c)'
  BY DEF PathInv, ActorsInv, Compacts
<1> QED
  BY <1>1, <1>2, <1>3, <1>4, <1>5

\* Who has not begun to work does not care what is in a file.
LEMMA WaitingStays ==
  /\ \A u \in Updaters : Session(u) /\ upd'[u] = upd[u] /\ upd[u].pc \in {"idle", "opened"}
                         => Session(u)'
  /\ \A c \in Compactors : Compacts(c) /\ comp'[c] = comp[c] /\ comp[c].pc \in {"idle", "opened"}
                           => Compacts(c)'
BY DEF Session, Compacts

\* Only one is at work at a time: the others wait for the lock, if there are any.
LEMMA Alone ==
  ASSUME PathInv, NEW a \in Actors, holder[path.src] = a
  PROVE  /\ \A u \in Updaters \ {a} : upd[u].pc \in {"idle", "opened"}
         /\ \A c \in Compactors \ {a} : comp[c].pc \in {"idle", "opened", "unlocked"}
<1>1. ASSUME NEW u \in Updaters \ {a}, upd[u].pc \in {"locked", "open", "footed"} PROVE FALSE
  BY <1>1 DEF PathInv, LockInv, PlaceInv
<1>2. ASSUME NEW c \in Compactors \ {a}, comp[c].pc \in {"locked", "indexed", "copying"} PROVE FALSE
  BY <1>2 DEF PathInv, LockInv, PlaceInv
<1>3. /\ \A u \in Updaters : upd[u].pc \in {"idle", "opened", "locked", "open", "footed"}
      /\ \A c \in Compactors : comp[c].pc \in {"idle", "opened", "locked", "indexed", "copying", "unlocked"}
  BY DEF PathInv, TypeInv, Update, Compaction
<1> QED
  BY <1>1, <1>2, <1>3

\* Whoever is at work holds the lock of the file behind the path.
LEMMA WorkerAlone ==
  ASSUME PathInv
  PROVE  /\ \A u \in Updaters : upd[u].pc \in {"locked", "open", "footed"} =>
              /\ upd[u].inode = path.src /\ holder[path.src] = u
              /\ \A v \in Updaters \ {u} : upd[v].pc \in {"idle", "opened"}
              /\ \A c \in Compactors : comp[c].pc \in {"idle", "opened"}
         /\ \A c \in Compactors : comp[c].pc \in {"locked", "indexed", "copying"} =>
              /\ comp[c].fd = path.src /\ holder[path.src] = c
              /\ \A u \in Updaters : upd[u].pc \in {"idle", "opened"}
              /\ \A d \in Compactors \ {c} : comp[d].pc \in {"idle", "opened"}
<1>1. ASSUME NEW u \in Updaters, upd[u].pc \in {"locked", "open", "footed"}
      PROVE  /\ upd[u].inode = path.src /\ holder[path.src] = u
             /\ \A v \in Updaters \ {u} : upd[v].pc \in {"idle", "opened"}
             /\ \A c \in Compactors : comp[c].pc \in {"idle", "opened"}
  <2>1. upd[u].inode = path.src /\ holder[path.src] = u
    BY <1>1 DEF PathInv, LockInv, PlaceInv
  <2>2. u \in Actors /\ \A c \in Compactors : c # u
    BY ActorAssumption DEF Actors
  <2>3. \A c \in Compactors : comp[c].pc # "unlocked"
    BY <1>1 DEF PathInv, PlaceInv
  <2> QED
    BY <2>1, <2>2, <2>3, Alone
<1>2. ASSUME NEW c \in Compactors, comp[c].pc \in {"locked", "indexed", "copying"}
      PROVE  /\ comp[c].fd = path.src /\ holder[path.src] = c
             /\ \A u \in Updaters : upd[u].pc \in {"idle", "opened"}
             /\ \A d \in Compactors \ {c} : comp[d].pc \in {"idle", "opened"}
  <2>1. comp[c].fd = path.src /\ holder[path.src] = c
    BY <1>2 DEF PathInv, LockInv, PlaceInv
  <2>2. c \in Actors /\ \A u \in Updaters : c # u
    BY ActorAssumption DEF Actors
  <2>3. \A d \in Compactors \ {c} : comp[d].pc # "unlocked"
    BY <1>2 DEF PathInv, PlaceInv
  <2> QED
    BY <2>1, <2>2, <2>3, Alone
<1> QED
  BY <1>1, <1>2

\* Where the updaters are, when one of them takes a step.
LEMMA UpdaterPlace ==
  ASSUME PathInv, NEW u \in Updaters, path' = path, comp' = comp,
         \A v \in Updaters \ {u} : upd'[v] = upd[v],
         upd'[u].pc # "idle" => upd'[u].inode = path.src /\ ~InGap
  PROVE  PlaceInv'
<1>1. \A v \in Updaters : upd'[v].pc # "idle" => upd'[v].inode = path'.src
  BY DEF PathInv, PlaceInv
<1>2. \A c \in Compactors : /\ comp'[c].pc \notin {"idle", "unlocked"} => comp'[c].fd = path'.src
                            /\ comp'[c].pc = "unlocked" =>
                                 /\ comp'[c].dest = "temp"
                                 /\ \A d \in Compactors \ {c} : comp'[d].pc = "idle"
  BY DEF PathInv, PlaceInv
<1>3. \A c \in Compactors : comp'[c].pc = "unlocked" => \A v \in Updaters : upd'[v].pc = "idle"
  BY DEF PathInv, PlaceInv, InGap
<1> QED
  BY <1>1, <1>2, <1>3 DEF PlaceInv

\* Who is at work keeps its lock while another takes or releases its own.
LEMMA OthersLocked ==
  ASSUME PathInv, NEW a \in Actors,
         \A i \in Inodes : holder'[i] # holder[i] => holder[i] \in {a, None}
  PROVE  /\ \A u \in Updaters \ {a} : upd'[u] = upd[u] /\ upd[u].pc \in {"locked", "open", "footed"}
                                      => holder'[upd[u].inode] = u
         /\ \A c \in Compactors \ {a} : comp'[c] = comp[c] /\ comp[c].pc \in {"locked", "indexed", "copying"}
                                        => holder'[comp[c].fd] = c
<1>1. path.src \in Inodes /\ \A x \in Actors : x # None
  BY NoneAssumption DEF PathInv, TypeInv, Actors
<1>2. \A u \in Updaters \ {a} : upd[u].pc \in {"locked", "open", "footed"} => holder'[upd[u].inode] = u
  BY <1>1 DEF PathInv, LockInv, PlaceInv, Actors
<1>3. \A c \in Compactors \ {a} : comp[c].pc \in {"locked", "indexed", "copying"} => holder'[comp[c].fd] = c
  BY <1>1 DEF PathInv, LockInv, PlaceInv, Actors
<1> QED
  BY <1>2, <1>3

\* A step of one updater, as far as the names, the locks and the types go.
LEMMA UpdaterFrame ==
  ASSUME PathInv, NEW u \in Updaters, path' = path, comp' = comp,
         upd' \in [Updaters -> Update], \A v \in Updaters \ {u} : upd'[v] = upd[v],
         holder' \in [Inodes -> Actors \cup {None}],
         \A i \in Inodes : holder'[i] # holder[i] => holder[i] \in {u, None},
         upd'[u].pc # "idle" => upd'[u].inode = path.src /\ ~InGap,
         upd'[u].pc \in {"locked", "open", "footed"} => holder'[path.src] = u,
         file' \in [Inodes -> Contents], acked' \in Seq(Nat)
  PROVE  TypeInv' /\ NamesInv' /\ LockInv' /\ PlaceInv'
<1>1. TypeInv'
  BY DEF PathInv, TypeInv
<1>2. NamesInv'
  BY DEF PathInv, NamesInv
<1>3. PlaceInv'
  BY UpdaterPlace
<1>4. LockInv'
  <2>1. u \in Actors /\ \A c \in Compactors : c # u
    BY ActorAssumption DEF Actors
  <2>2. \A v \in Updaters : upd'[v].pc \in {"locked", "open", "footed"} => holder'[upd'[v].inode] = v
    BY <2>1, OthersLocked
  <2>3. \A c \in Compactors : comp'[c].pc \in {"locked", "indexed", "copying"} => holder'[comp'[c].fd] = c
    BY <2>1, OthersLocked
  <2> QED
    BY <2>2, <2>3 DEF LockInv
<1> QED
  BY <1>1, <1>2, <1>3, <1>4

\* A step of one updater that changes no file and no history.
LEMMA QuietUpdate ==
  ASSUME PathInv, NEW u \in Updaters, UNCHANGED <<path, file, comp, acked>>,
         upd' \in [Updaters -> Update], \A v \in Updaters \ {u} : upd'[v] = upd[v],
         holder' \in [Inodes -> Actors \cup {None}],
         \A i \in Inodes : holder'[i] # holder[i] => holder[i] \in {u, None},
         upd'[u].pc # "idle" => upd'[u].inode = path.src /\ ~InGap,
         upd'[u].pc \in {"locked", "open", "footed"} => holder'[path.src] = u,
         Session(u)'
  PROVE  PathInv'
<1>1. TypeInv' /\ NamesInv' /\ LockInv' /\ PlaceInv'
  BY UpdaterFrame DEF PathInv, TypeInv
<1>2. SourceInv' /\ OutputsInv'
  BY QuietStep
<1>3. ActorsInv'
  BY QuietStep DEF ActorsInv
<1> QED
  BY <1>1, <1>2, <1>3 DEF PathInv

LEMMA OpenUpdateStep ==
  ASSUME WritersAvoidRename, PathInv, NEW u \in Updaters, OpenUpdate(u)
  PROVE  PathInv'
<1>1. PICK st \in Statistics : upd' = [upd EXCEPT ![u] = [@ EXCEPT !.pc = "opened", !.inode = path.src,
                                                                   !.stats = st]]
  BY DEF OpenUpdate
<1>2. upd[u] = NoUpdate /\ upd \in [Updaters -> Update] /\ path.src \in Inodes /\ st \in BOOLEAN
  BY StatisticsAssumption DEF OpenUpdate, PathInv, ActorsInv, Session, TypeInv
<1> DEFINE s == [NoUpdate EXCEPT !.pc = "opened", !.inode = path.src, !.stats = st]
<1>3. s \in Update /\ s.pc = "opened" /\ s.inode = path.src /\ s.wrote = <<>>
  BY <1>2 DEF NoUpdate, Update
<1> HIDE DEF s
<1>4. upd' = [upd EXCEPT ![u] = s]
  BY <1>1, <1>2 DEF s
<1>5. upd' \in [Updaters -> Update] /\ upd'[u] = s /\ \A v \in Updaters \ {u} : upd'[v] = upd[v]
  BY <1>2, <1>3, <1>4
<1>6. Session(u)'
  BY <1>3, <1>5 DEF Session
<1>7. ~InGap /\ UNCHANGED <<path, file, comp, acked, holder>>
  BY DEF OpenUpdate, WriterMayOpen
<1>8. holder' \in [Inodes -> Actors \cup {None}]
  BY <1>7 DEF PathInv, TypeInv
<1> QED
  BY <1>3, <1>5, <1>6, <1>7, <1>8, QuietUpdate

\* Nobody is between unlock and rename while somebody is at it.
LEMMA NoGap ==
  ASSUME PathInv, NEW u \in Updaters, upd[u].pc # "idle"
  PROVE  ~InGap
BY DEF PathInv, PlaceInv, InGap

LEMMA LockUpdateStep ==
  ASSUME PathInv, NEW u \in Updaters, LockUpdate(u)
  PROVE  PathInv'
<1> DEFINE s == [upd[u] EXCEPT !.pc = "locked"]
<1>1. /\ upd[u].pc = "opened" /\ upd[u] \in Update /\ upd \in [Updaters -> Update]
      /\ upd[u].inode = path.src /\ upd[u].wrote = <<>> /\ path.src \in Inodes
      /\ holder \in [Inodes -> Actors \cup {None}]
  BY DEF LockUpdate, PathInv, TypeInv, PlaceInv, ActorsInv, Session
<1>2. s \in Update /\ s.pc = "locked" /\ s.inode = path.src /\ s.wrote = <<>>
  BY <1>1 DEF Update
<1>3. upd' = [upd EXCEPT ![u] = s] /\ holder' = [holder EXCEPT ![path.src] = u] /\ holder[path.src] = None
  BY <1>1 DEF LockUpdate
<1> HIDE DEF s
<1>4. upd' \in [Updaters -> Update] /\ upd'[u] = s /\ \A v \in Updaters \ {u} : upd'[v] = upd[v]
  BY <1>1, <1>2, <1>3
<1>5. Session(u)'
  BY <1>2, <1>4 DEF Session
<1>6. ~InGap /\ UNCHANGED <<path, file, comp, acked>>
  BY <1>1, NoGap DEF LockUpdate
<1>7. /\ holder' \in [Inodes -> Actors \cup {None}] /\ holder'[path.src] = u
      /\ \A i \in Inodes : holder'[i] # holder[i] => holder[i] \in {u, None}
  BY <1>1, <1>3 DEF Actors
<1> QED
  BY <1>2, <1>4, <1>5, <1>6, <1>7, QuietUpdate

\* A session that ends without a commit.
LEMMA UpdateEnds ==
  ASSUME PathInv, NEW u \in Updaters, UNCHANGED <<path, file, comp, acked>>,
         upd' = [upd EXCEPT ![u] = NoUpdate],
         \/ holder' = holder
         \/ \E i \in Inodes : holder[i] = u /\ holder' = Release(i)
  PROVE  PathInv'
<1>1. upd \in [Updaters -> Update] /\ holder \in [Inodes -> Actors \cup {None}]
  BY DEF PathInv, TypeInv
<1>2. NoUpdate \in Update /\ NoUpdate.pc = "idle"
  BY DEF NoUpdate, Update
<1>3. upd' \in [Updaters -> Update] /\ upd'[u] = NoUpdate /\ \A v \in Updaters \ {u} : upd'[v] = upd[v]
  BY <1>1, <1>2
<1>4. Session(u)'
  BY <1>2, <1>3 DEF Session
<1>5. /\ holder' \in [Inodes -> Actors \cup {None}]
      /\ \A i \in Inodes : holder'[i] # holder[i] => holder[i] \in {u, None}
  BY <1>1 DEF Release
<1> QED
  BY <1>2, <1>3, <1>4, <1>5, QuietUpdate

LEMMA UpdateContendedStep ==
  ASSUME PathInv, NEW u \in Updaters, UpdateContended(u)
  PROVE  PathInv'
BY UpdateEnds DEF UpdateContended

LEMMA LoseUpdateStep ==
  ASSUME PathInv, NEW u \in Updaters, LoseUpdate(u)
  PROVE  PathInv'
<1>1. upd[u].inode = path.src /\ path.src \in Inodes
  BY DEF LoseUpdate, PathInv, PlaceInv, TypeInv
<1> QED
  BY <1>1, UpdateEnds DEF LoseUpdate

\* What anyone finds behind the path.
LEMMA SourceFacts ==
  ASSUME PathInv
  PROVE  LET f == file[path.src] IN
         /\ path.src \in Inodes /\ f \in Contents
         /\ f.n \in Nat \ {0} /\ f.rows \in Nat /\ f.stats \in Nat /\ f.body \in Seq(Cell)
         /\ f.n + f.rows \in Nat /\ f.n + f.rows <= Len(f.body)
         /\ Stored(f.body, f.n, f.rows) /\ WalkOK(f.body, f.n) /\ EndOf(f.body, f.n) = f.n + f.rows
         /\ acked = [r \in 1..f.rows |-> r] /\ acked \in Seq(Nat) /\ Len(acked) = f.rows
<1> DEFINE f == file[path.src]
<1>1. path.src \in Inodes /\ f \in Contents /\ Stored(f.body, f.n, f.rows)
      /\ acked = [r \in 1..f.rows |-> r] /\ acked \in Seq(Nat)
  BY DEF PathInv, TypeInv, SourceInv
<1> HIDE DEF f
<1>2. f.n \in Nat /\ f.rows \in Nat /\ f.stats \in Nat /\ f.body \in Seq(Cell)
  BY <1>1 DEF Contents
<1>3. /\ f.n \in Nat \ {0} /\ f.n + f.rows <= Len(f.body)
      /\ WalkOK(f.body, f.n) /\ EndOf(f.body, f.n) = f.n + f.rows
  BY <1>1, <1>2, StoredFacts
<1>4. Len(acked) = f.rows
  BY <1>1, <1>2
<1> QED
  BY <1>1, <1>2, <1>3, <1>4 DEF f

\* The session at work changes cells behind the committed rows.
LEMMA SourceChanges ==
  ASSUME PathInv, NEW u \in Updaters, upd[u].pc \in {"locked", "open", "footed"},
         \A v \in Updaters \ {u} : upd'[v] = upd[v], UNCHANGED <<path, comp, acked>>,
         NEW g \in Seq(Cell), file' = [file EXCEPT ![path.src] = [@ EXCEPT !.body = g]],
         file[path.src].n + file[path.src].rows <= Len(g),
         \A p \in 1..(file[path.src].n + file[path.src].rows) : g[p] = file[path.src].body[p]
  PROVE  /\ file' \in [Inodes -> Contents] /\ file'[path.src] = [file[path.src] EXCEPT !.body = g]
         /\ acked' \in Seq(Nat) /\ SourceInv' /\ OutputsInv' /\ Kept
         /\ \A v \in Updaters \ {u} : Session(v)'
         /\ \A c \in Compactors : Compacts(c)'
<1> DEFINE f == file[path.src]
           h == [f EXCEPT !.body = g]
<1>1. /\ path.src \in Inodes /\ f \in Contents /\ f.body \in Seq(Cell)
      /\ Stored(f.body, f.n, f.rows)
      /\ acked = [r \in 1..f.rows |-> r] /\ acked \in Seq(Nat)
  BY SourceFacts
<1>2. file' = [file EXCEPT ![path.src] = h] /\ file \in [Inodes -> Contents]
  BY DEF PathInv, TypeInv
<1>3. f.n + f.rows <= Len(g) /\ \A p \in 1..(f.n + f.rows) : g[p] = f.body[p]
  OBVIOUS
<1>4. h \in Contents /\ h.n = f.n /\ h.rows = f.rows /\ h.body = g
  BY <1>1 DEF Contents
<1> HIDE DEF f, h
<1>5. file' \in [Inodes -> Contents] /\ file'[path.src] = h
      /\ \A i \in Inodes \ {path.src} : file'[i] = file[i]
  BY <1>1, <1>2, <1>4
<1>6. Stored(g, f.n, f.rows)
  BY <1>1, <1>3, StaysStored
<1>7. SourceInv'
  BY <1>1, <1>4, <1>5, <1>6 DEF SourceInv
<1>8. OutputsInv'
  <2>1. ASSUME NEW nm \in {"temp", "out"}, path[nm] # None
        PROVE  path[nm] \in Inodes \ {path.src} /\ Output(file[path[nm]])
    BY <2>1 DEF PathInv, TypeInv, NamesInv, OutputsInv
  <2> QED
    BY <1>5, <2>1 DEF OutputsInv, Output
<1>9. /\ \A v \in Updaters \ {u} : Session(v)'
      /\ \A c \in Compactors : Compacts(c)'
  BY WorkerAlone, WaitingStays DEF PathInv, ActorsInv
<1>10. Kept
  <2>1. /\ f.n <= h.n /\ f.n + f.rows <= h.n + h.rows /\ f.n + f.rows <= Len(h.body)
        /\ \A p \in 1..(f.n + f.rows) : h.body[p] = f.body[p]
    <3>1. f.n \in Nat /\ f.rows \in Nat
      BY <1>1 DEF Contents
    <3> QED
      BY <1>3, <1>4, <3>1
  <2>2. /\ \A i \in Inodes \ {path.src, path.temp, path.out} :
             file'[i] = file[i] /\ i \notin {path'.temp, path'.out}
        /\ Len(acked) <= Len(acked')
    BY <1>1, <1>5
  <2> QED
    BY <1>5, <2>1, <2>2 DEF Kept, f
<1> QED
  BY <1>1, <1>5, <1>7, <1>8, <1>9, <1>10 DEF f, h

LEMMA FootCell ==
  ASSUME NEW c \in Cell, c.kind = "foot"
  PROVE  c.entries \in Seq(SUBSET Nat)
BY DEF Cell, Hole

LEMMA LoadedStats ==
  ASSUME NEW f \in Contents
  PROVE  LoadStats(f) \in Seq(SUBSET Nat) /\ Len(LoadStats(f)) = f.n
<1> DEFINE old == f.body[f.stats].entries
<1>1. f.n \in Nat /\ f.stats \in Nat /\ f.body \in Seq(Cell)
  BY DEF Contents
<1>2. CASE HasFooter(f, f.stats) /\ Len(old) >= f.n
  <2>1. f.stats \in 1..Len(f.body) /\ f.body[f.stats].kind = "foot"
    BY <1>1, <1>2 DEF HasFooter
  <2>2. old \in Seq(SUBSET Nat)
    BY <1>1, <2>1, FootCell
  <2>3. LoadStats(f) = SubSeq(old, 1, f.n)
    BY <1>2 DEF LoadStats
  <2> HIDE DEF old
  <2>4. SubSeq(old, 1, f.n) \in Seq(SUBSET Nat) /\ Len(SubSeq(old, 1, f.n)) = f.n
    BY <1>1, <1>2, <2>2
  <2> QED
    BY <2>3, <2>4
<1>3. CASE ~(HasFooter(f, f.stats) /\ Len(old) >= f.n)
  <2>1. LoadStats(f) = [k \in 1..f.n |-> Rows]
    BY <1>3 DEF LoadStats
  <2>2. Rows \in SUBSET Nat
    BY BoundAssumption DEF Rows
  <2> DEFINE n == f.n
             t == [k \in 1..n |-> Rows]
  <2>3. n \in Nat
    BY <1>1
  <2> HIDE DEF n
  <2>4. t \in Seq(SUBSET Nat) /\ Len(t) = n
    BY <2>2, <2>3
  <2>5. LoadStats(f) = t
    BY <2>1 DEF n
  <2> HIDE DEF t
  <2> QED
    BY <2>4, <2>5 DEF n
<1> QED
  BY <1>2, <1>3

LEMMA LoadUpdateStep ==
  ASSUME PathInv, NEW u \in Updaters, LoadUpdate(u)
  PROVE  PathInv' /\ Kept
<1> DEFINE f == file[path.src]
           z == f.n + f.rows
           g == Truncated(f.body, z)
           acc == IF upd[u].stats THEN LoadStats(f) ELSE <<>>
           s == [upd[u] EXCEPT !.pc = "open", !.n = f.n, !.rows = f.rows, !.acc = acc]
<1>1. /\ f \in Contents /\ path.src \in Inodes /\ f.body \in Seq(Cell) /\ f.n \in Nat \ {0} /\ f.rows \in Nat
      /\ Stored(f.body, f.n, f.rows) /\ WalkOK(f.body, f.n) /\ EndOf(f.body, f.n) = z
      /\ z \in Nat /\ z <= Len(f.body)
  BY SourceFacts
<1>2. /\ upd[u].pc = "locked" /\ upd[u].inode = path.src /\ holder[path.src] = u
      /\ upd[u] \in Update /\ upd \in [Updaters -> Update] /\ upd[u].wrote = <<>>
      /\ holder \in [Inodes -> Actors \cup {None}] /\ file \in [Inodes -> Contents]
  BY WorkerAlone DEF LoadUpdate, PathInv, TypeInv, ActorsInv, Session
<1>3. acc \in Seq(SUBSET Nat)
  BY <1>1, LoadedStats
<1> HIDE DEF f, acc, z
<1>4. /\ file' = [file EXCEPT ![path.src].body = Truncated(@, z)]
      /\ upd' = [upd EXCEPT ![u] = [@ EXCEPT !.pc = "open", !.n = f.n, !.rows = f.rows, !.acc = acc]]
      /\ UNCHANGED <<path, comp, acked, holder>>
  BY <1>1, <1>2 DEF LoadUpdate, f, acc
<1>5. file' = [file EXCEPT ![path.src] = [@ EXCEPT !.body = g]]
  BY <1>1, <1>2, <1>4 DEF f
<1>6. g \in Seq(Cell) /\ Len(g) = z /\ \A p \in 1..z : g[p] = f.body[p]
  <2>1. \A p \in 1..z : p <= Len(f.body) /\ f.body[p] \in Cell
    BY <1>1
  <2>2. g = [p \in 1..z |-> f.body[p]]
    BY <2>1 DEF Truncated
  <2> HIDE DEF g
  <2> QED
    BY <1>1, <2>1, <2>2
<1>7. /\ s \in Update /\ s.pc = "open" /\ s.inode = path.src /\ s.n = f.n /\ s.rows = f.rows
      /\ s.wrote = <<>>
  BY <1>1, <1>2, <1>3 DEF Update
<1>8. upd' = [upd EXCEPT ![u] = s]
  BY <1>2, <1>4
<1> HIDE DEF s, g
<1>9. upd' \in [Updaters -> Update] /\ upd'[u] = s /\ \A v \in Updaters \ {u} : upd'[v] = upd[v]
  BY <1>2, <1>7, <1>8
<1>10. Len(g) = f.n + f.rows /\ \A p \in 1..(f.n + f.rows) : g[p] = f.body[p]
  BY <1>6 DEF z
<1>11. /\ file' \in [Inodes -> Contents] /\ file'[path.src] = [f EXCEPT !.body = g]
       /\ acked' \in Seq(Nat) /\ SourceInv' /\ OutputsInv' /\ Kept
       /\ \A v \in Updaters \ {u} : Session(v)'
       /\ \A c \in Compactors : Compacts(c)'
  <2>1. f.n + f.rows <= Len(g)
    BY <1>1, <1>10
  <2> QED
    BY <1>2, <1>4, <1>5, <1>6, <1>9, <1>10, <2>1, SourceChanges, ZenonT(40) DEF f
<1>12. TypeInv' /\ NamesInv' /\ LockInv' /\ PlaceInv'
  BY <1>2, <1>4, <1>7, <1>9, <1>11, NoGap, UpdaterFrame
<1>13. Session(u)'
  <2>1. file'[path'.src].n = f.n /\ file'[path'.src].rows = f.rows /\ file'[path'.src].body = g
    BY <1>1, <1>4, <1>11 DEF Contents
  <2>2. Stored(g, f.n, f.rows)
    BY <2>1, <1>11 DEF SourceInv
  <2>3. s.wrote = [j \in 1..Len(s.wrote) |-> f.rows + j] /\ Len(s.wrote) = 0
    BY <1>7
  <2>4. f.n <= s.n /\ s.rows = f.rows + Len(s.wrote) /\ Len(g) = s.n + s.rows
    BY <1>1, <1>7, <1>10, <2>3
  <2> QED
    BY <1>7, <1>9, <2>1, <2>2, <2>3, <2>4 DEF Session
<1> QED
  BY <1>11, <1>12, <1>13 DEF PathInv, ActorsInv

LEMMA WriteStep ==
  ASSUME PathInv, NEW u \in Updaters, Write(u)
  PROVE  PathInv' /\ Kept
<1> DEFINE f == file[path.src]
           t == upd[u]
           z == f.n + f.rows
<1>1. /\ f \in Contents /\ path.src \in Inodes /\ f.body \in Seq(Cell) /\ f.n \in Nat \ {0} /\ f.rows \in Nat
      /\ Len(acked) = f.rows /\ z \in Nat
  BY SourceFacts
<1>2. /\ t.pc = "open" /\ t.inode = path.src /\ holder[path.src] = u
      /\ t \in Update /\ upd \in [Updaters -> Update]
      /\ holder \in [Inodes -> Actors \cup {None}] /\ file \in [Inodes -> Contents]
  BY WorkerAlone DEF Write, PathInv, TypeInv
<1>3. /\ Stored(f.body, t.n, t.rows) /\ f.n <= t.n /\ t.rows = f.rows + Len(t.wrote)
      /\ t.wrote = [j \in 1..Len(t.wrote) |-> f.rows + j] /\ Len(f.body) = t.n + t.rows
  BY <1>2 DEF PathInv, ActorsInv, Session
<1>4. /\ t.n \in Nat \ {0} /\ t.rows \in Nat /\ t.wrote \in Seq(Nat) /\ Len(t.wrote) \in Nat
      /\ t.acc \in Seq(SUBSET Nat)
  BY <1>1, <1>2, <1>3, StoredFacts DEF Update
<1>5. PICK m \in 1..MaxPerRecord :
        LET rows == [j \in 1..m |-> t.rows + j] IN
        /\ file' = [file EXCEPT ![t.inode].body = @ \o RecordCells(t.n, rows)]
        /\ upd' = [upd EXCEPT ![u] =
                     [t EXCEPT !.n = @ + 1, !.rows = @ + m, !.wrote = @ \o rows,
                               !.acc = IF t.stats THEN Append(@, Entry(rows)) ELSE @]]
  <2> DEFINE last == Len(acked) + Len(t.wrote)
             Writes(k) == \E m \in 1..MaxPerRecord :
               LET rows == [j \in 1..m |-> k + j] IN
               /\ file' = [file EXCEPT ![t.inode].body = @ \o RecordCells(t.n, rows)]
               /\ upd' = [upd EXCEPT ![u] =
                            [t EXCEPT !.n = @ + 1, !.rows = @ + m, !.wrote = @ \o rows,
                                      !.acc = IF t.stats THEN Append(@, Entry(rows)) ELSE @]]
  <2>1. last = t.rows
    BY <1>1, <1>3
  <2>2. Writes(last)
    BY Zenon DEF Write
  <2> HIDE DEF Writes, last
  <2>3. Writes(t.rows)
    BY <2>1, <2>2, Zenon
  <2> QED
    BY <2>3, Zenon DEF Writes
<1> DEFINE rows == [j \in 1..m |-> t.rows + j]
           g == f.body \o RecordCells(t.n, rows)
           acc == IF t.stats THEN Append(t.acc, Entry(rows)) ELSE t.acc
           wrote == t.wrote \o rows
           s == [t EXCEPT !.n = @ + 1, !.rows = @ + m, !.wrote = wrote, !.acc = acc]
<1>6. m \in Nat /\ rows \in Seq(Nat) /\ Len(rows) = m
  BY <1>4, BoundAssumption
<1>7. /\ g \in Seq(Cell) /\ Len(g) = (t.n + 1) + (t.rows + m)
      /\ \A p \in 1..(t.n + t.rows) : g[p] = f.body[p]
      /\ Stored(g, t.n + 1, t.rows + m)
  <2> DEFINE old == f.body
             n == t.n
             k == t.rows
  <2>1. old \in Seq(Cell) /\ Stored(old, n, k) /\ Len(old) = n + k /\ m \in Nat /\ n \in Nat /\ k \in Nat
    BY <1>1, <1>3, <1>4, <1>6
  <2> HIDE DEF old, n, k
  <2> DEFINE x == old \o RecordCells(n, Following(k, m))
  <2>a. x \in Seq(Cell)
    BY <2>1, RecordAppended
  <2>b. Len(x) = (n + 1) + (k + m)
    BY <2>1, RecordAppended
  <2>c. \A p \in 1..(n + k) : x[p] = old[p]
    BY <2>1, RecordAppended
  <2>d. Stored(x, n + 1, k + m)
    BY <2>1, RecordAppended
  <2>3. rows = Following(k, m)
    BY DEF Following, k
  <2> QED
    BY <2>a, <2>b, <2>c, <2>d, <2>3 DEF old, n, k
<1>8. acc \in Seq(SUBSET Nat)
  <2> DEFINE old == t.acc
             e == Entry(rows)
  <2>1. old \in Seq(SUBSET Nat) /\ e \in SUBSET Nat
    BY <1>4, <1>6, EntryType
  <2> HIDE DEF old, e
  <2>2. Append(old, e) \in Seq(SUBSET Nat)
    BY <2>1
  <2> QED
    BY <2>1, <2>2 DEF old, e
<1>9. wrote \in Seq(Nat) /\ wrote = [j \in 1..(Len(t.wrote) + m) |-> f.rows + j] /\ Len(wrote) = Len(t.wrote) + m
  <2> DEFINE x == f.rows
             y == Len(t.wrote)
             w == t.wrote
  <2>1. x \in Nat /\ y \in Nat /\ w = [j \in 1..y |-> x + j] /\ rows = [j \in 1..m |-> (x + y) + j]
    BY <1>1, <1>3, <1>4
  <2>2. wrote = w \o rows
    OBVIOUS
  <2> HIDE DEF x, y, w, rows, wrote
  <2>3. w \o rows = [j \in 1..(y + m) |-> x + j]
    BY <1>6, <2>1, CountingOn
  <2> DEFINE all == [j \in 1..(y + m) |-> x + j]
  <2>4. all \in Seq(Nat) /\ Len(all) = y + m
    BY <1>6, <2>1
  <2>5. wrote = all
    BY <2>2, <2>3
  <2> HIDE DEF all
  <2>6. wrote \in Seq(Nat) /\ Len(wrote) = y + m
    BY <2>4, <2>5
  <2> QED
    BY <2>5, <2>6 DEF x, y, all
<1>10. file' = [file EXCEPT ![path.src] = [@ EXCEPT !.body = g]]
  BY <1>1, <1>2, <1>5
<1>11. upd' = [upd EXCEPT ![u] = s]
  BY <1>5
<1> HIDE DEF g, acc, wrote, rows
<1>12. /\ s \in Update /\ s.pc = "open" /\ s.inode = path.src /\ s.n = t.n + 1 /\ s.rows = t.rows + m
       /\ s.wrote = wrote
  <2> HIDE DEF t
  <2>1. t.n + 1 \in Nat /\ t.rows + m \in Nat
    BY <1>4, <1>6
  <2> QED
    BY <1>2, <1>8, <1>9, <2>1 DEF Update
<1> HIDE DEF s, f, z, t
<1>13. upd' \in [Updaters -> Update] /\ upd'[u] = s /\ \A v \in Updaters \ {u} : upd'[v] = upd[v]
  BY <1>2, <1>11, <1>12
<1>14. z <= Len(g) /\ \A p \in 1..z : g[p] = f.body[p]
  <2> DEFINE x == f.rows
             y == Len(t.wrote)
             n == f.n
             k == t.n
  <2>1. x \in Nat /\ y \in Nat /\ n \in Nat /\ k \in Nat /\ n <= k /\ t.rows = x + y /\ z = n + x
    BY <1>1, <1>3, <1>4 DEF z
  <2>2. Len(g) = (k + 1) + (x + y + m) /\ \A p \in 1..(k + (x + y)) : g[p] = f.body[p]
    BY <1>6, <1>7, <2>1
  <2> HIDE DEF x, y, n, k
  <2> QED
    BY <1>6, <2>1, <2>2
<1>15. UNCHANGED <<path, comp, acked, holder>>
  BY DEF Write
<1>16. /\ file' \in [Inodes -> Contents] /\ file'[path.src] = [f EXCEPT !.body = g]
       /\ acked' \in Seq(Nat) /\ SourceInv' /\ OutputsInv' /\ Kept
       /\ \A v \in Updaters \ {u} : Session(v)'
       /\ \A c \in Compactors : Compacts(c)'
  BY <1>2, <1>7, <1>10, <1>13, <1>14, <1>15, SourceChanges DEF f, z, t
<1>17. TypeInv' /\ NamesInv' /\ LockInv' /\ PlaceInv'
  BY <1>2, <1>12, <1>13, <1>15, <1>16, NoGap, UpdaterFrame DEF t
<1>18. Session(u)'
  <2> DEFINE x == f.rows
             y == Len(t.wrote)
             k == t.n
  <2>1. file'[path'.src].n = f.n /\ file'[path'.src].rows = f.rows /\ file'[path'.src].body = g
    BY <1>1, <1>15, <1>16 DEF Contents
  <2>2. x \in Nat /\ y \in Nat /\ k \in Nat /\ f.n \in Nat /\ f.n <= k /\ t.rows = x + y
    BY <1>1, <1>3, <1>4
  <2>3. Len(g) = s.n + s.rows /\ Stored(g, s.n, s.rows)
    BY <1>7, <1>12
  <2>4. Len(s.wrote) = y + m /\ s.wrote = [j \in 1..(y + m) |-> x + j]
    BY <1>9, <1>12
  <2>5. s.n = k + 1 /\ s.rows = (x + y) + m
    BY <1>12, <2>2
  <2> HIDE DEF x, y, k
  <2>6. f.n <= s.n /\ s.rows = x + Len(s.wrote)
    BY <1>6, <2>2, <2>4, <2>5
  <2>7. s.wrote = [j \in 1..Len(s.wrote) |-> x + j]
    BY <2>4
  <2> QED
    BY <1>12, <1>13, <2>1, <2>3, <2>6, <2>7 DEF Session, x
<1> QED
  BY <1>16, <1>17, <1>18 DEF PathInv, ActorsInv

LEMMA WriteFooterStep ==
  ASSUME PathInv, NEW u \in Updaters, WriteFooter(u)
  PROVE  PathInv' /\ Kept
<1> DEFINE f == file[path.src]
           t == upd[u]
           due == t.n # 0 /\ t.acc # <<>>
           g == IF due THEN Append(f.body, Foot(t.acc)) ELSE f.body
           foot == IF due THEN Len(f.body) + 1 ELSE 0
           s == [t EXCEPT !.pc = "footed", !.foot = foot]
<1>1. /\ f \in Contents /\ path.src \in Inodes /\ f.body \in Seq(Cell) /\ f.n \in Nat \ {0} /\ f.rows \in Nat
      /\ f.n + f.rows \in Nat /\ f.n + f.rows <= Len(f.body)
  BY SourceFacts
<1>2. /\ t.pc = "open" /\ t.inode = path.src /\ holder[path.src] = u
      /\ t \in Update /\ upd \in [Updaters -> Update] /\ t.acc \in Seq(SUBSET Nat)
      /\ holder \in [Inodes -> Actors \cup {None}] /\ file \in [Inodes -> Contents]
  BY WorkerAlone DEF WriteFooter, PathInv, TypeInv, Update
<1>3. /\ Stored(f.body, t.n, t.rows) /\ f.n <= t.n /\ t.rows = f.rows + Len(t.wrote)
      /\ t.wrote = [j \in 1..Len(t.wrote) |-> f.rows + j]
  BY <1>2 DEF PathInv, ActorsInv, Session
<1>4. /\ t.n \in Nat \ {0} /\ t.rows \in Nat /\ t.n + t.rows <= Len(f.body)
  BY <1>1, <1>3, StoredFacts
<1>5. Foot(t.acc) \in Cell
  BY <1>2 DEF Foot, Cell
<1>6. /\ g \in Seq(Cell) /\ Len(f.body) <= Len(g)
      /\ \A p \in 1..Len(f.body) : g[p] = f.body[p]
      /\ foot \in Nat
  <2> DEFINE b == f.body
             c == Foot(t.acc)
  <2>1. b \in Seq(Cell) /\ c \in Cell /\ Len(b) \in Nat
    BY <1>1, <1>5
  <2> HIDE DEF b, c
  <2>2. Append(b, c) \in Seq(Cell) /\ Len(Append(b, c)) = Len(b) + 1
        /\ \A p \in 1..Len(b) : Append(b, c)[p] = b[p]
    BY <2>1, AppendProperties
  <2>3. g = IF due THEN Append(b, c) ELSE b
    BY DEF b, c
  <2>4. foot = IF due THEN Len(b) + 1 ELSE 0
    BY DEF b
  <2> HIDE DEF due, g, foot
  <2>5. g \in Seq(Cell) /\ Len(b) <= Len(g) /\ (\A p \in 1..Len(b) : g[p] = b[p]) /\ foot \in Nat
    BY <2>1, <2>2, <2>3, <2>4
  <2> QED
    BY <2>5 DEF b
<1>7. /\ file' = [file EXCEPT ![path.src] = [@ EXCEPT !.body = g]]
      /\ upd' = [upd EXCEPT ![u] = s]
      /\ UNCHANGED <<path, comp, acked, holder>>
  <2>1. /\ file' = IF due THEN [file EXCEPT ![path.src].body = Append(@, Foot(t.acc))] ELSE file
        /\ upd' = [upd EXCEPT ![u] = s]
        /\ UNCHANGED <<path, comp, acked, holder>>
    BY <1>2 DEF WriteFooter
  <2>2. CASE due
    <3>1. file' = [file EXCEPT ![path.src].body = Append(@, Foot(t.acc))] /\ g = Append(f.body, Foot(t.acc))
      BY <2>1, <2>2
    <3> QED
      BY <1>1, <1>2, <2>1, <3>1
  <2>3. CASE ~due
    <3>1. file' = file /\ g = f.body
      BY <2>1, <2>3
    <3>2. [f EXCEPT !.body = f.body] = f
      BY <1>1 DEF Contents
    <3> HIDE DEF s, g
    <3> QED
      BY <1>1, <1>2, <2>1, <3>1, <3>2
  <2> QED
    BY <2>2, <2>3
<1> HIDE DEF g, foot, due
<1>8. /\ s \in Update /\ s.pc = "footed" /\ s.inode = path.src /\ s.n = t.n /\ s.rows = t.rows
      /\ s.wrote = t.wrote
  BY <1>2, <1>6 DEF Update
<1> HIDE DEF s, f, t
<1>9. upd' \in [Updaters -> Update] /\ upd'[u] = s /\ \A v \in Updaters \ {u} : upd'[v] = upd[v]
  BY <1>2, <1>7, <1>8
<1>10. f.n + f.rows <= Len(g) /\ \A p \in 1..(f.n + f.rows) : g[p] = f.body[p]
  <2> DEFINE z == f.n + f.rows
             l == Len(f.body)
             k == Len(g)
  <2>1. z \in Nat /\ z <= l /\ l <= k /\ (\A p \in 1..l : g[p] = f.body[p]) /\ l \in Nat /\ k \in Nat
    BY <1>1, <1>6
  <2> HIDE DEF z, l, k
  <2>2. z <= k /\ \A p \in 1..z : g[p] = f.body[p]
    BY <2>1
  <2> QED
    BY <2>2 DEF z, k
<1>11. /\ file' \in [Inodes -> Contents] /\ file'[path.src] = [f EXCEPT !.body = g]
       /\ acked' \in Seq(Nat) /\ SourceInv' /\ OutputsInv' /\ Kept
       /\ \A v \in Updaters \ {u} : Session(v)'
       /\ \A c \in Compactors : Compacts(c)'
  BY <1>2, <1>6, <1>7, <1>9, <1>10, SourceChanges DEF f, t
<1>12. TypeInv' /\ NamesInv' /\ LockInv' /\ PlaceInv'
  BY <1>2, <1>7, <1>8, <1>9, <1>11, NoGap, UpdaterFrame DEF t
<1>13. Session(u)'
  <2>1. file'[path'.src].n = f.n /\ file'[path'.src].rows = f.rows /\ file'[path'.src].body = g
    BY <1>1, <1>7, <1>11 DEF Contents
  <2>2. t.n + t.rows <= Len(g) /\ \A p \in 1..(t.n + t.rows) : g[p] = f.body[p]
    <3> DEFINE z == t.n + t.rows
               l == Len(f.body)
               k == Len(g)
    <3>1. z \in Nat /\ z <= l /\ l <= k /\ (\A p \in 1..l : g[p] = f.body[p]) /\ l \in Nat /\ k \in Nat
      BY <1>1, <1>4, <1>6
    <3> HIDE DEF z, l, k
    <3>2. z <= k /\ \A p \in 1..z : g[p] = f.body[p]
      BY <3>1
    <3> QED
      BY <3>2 DEF z, k
  <2>3. Stored(g, t.n, t.rows)
    BY <1>1, <1>3, <1>6, <2>2, StaysStored
  <2> QED
    BY <1>3, <1>8, <1>9, <2>1, <2>3 DEF Session
<1> QED
  BY <1>11, <1>12, <1>13 DEF PathInv, ActorsInv

LEMMA CommitUpdateStep ==
  ASSUME PathInv, NEW u \in Updaters, CommitUpdate(u)
  PROVE  PathInv' /\ Kept
<1> DEFINE f == file[path.src]
           t == upd[u]
           g == [f EXCEPT !.n = t.n, !.rows = t.rows, !.stats = t.foot]
<1>1. /\ f \in Contents /\ path.src \in Inodes /\ f.body \in Seq(Cell) /\ f.n \in Nat \ {0} /\ f.rows \in Nat
      /\ acked = [r \in 1..f.rows |-> r] /\ acked \in Seq(Nat) /\ Len(acked) = f.rows
  BY SourceFacts
<1>2. /\ t.pc = "footed" /\ t.inode = path.src /\ holder[path.src] = u
      /\ t \in Update /\ upd \in [Updaters -> Update] /\ t.foot \in Nat
      /\ holder \in [Inodes -> Actors \cup {None}] /\ file \in [Inodes -> Contents]
  BY WorkerAlone DEF CommitUpdate, PathInv, TypeInv, Update
<1>3. /\ Stored(f.body, t.n, t.rows) /\ f.n <= t.n /\ t.rows = f.rows + Len(t.wrote)
      /\ t.wrote = [j \in 1..Len(t.wrote) |-> f.rows + j]
  BY <1>2 DEF PathInv, ActorsInv, Session
<1>4. /\ t.n \in Nat \ {0} /\ t.rows \in Nat /\ Len(t.wrote) \in Nat /\ t.wrote \in Seq(Nat)
  BY <1>1, <1>2, <1>3, StoredFacts DEF Update
<1>5. g \in Contents /\ g.n = t.n /\ g.rows = t.rows /\ g.body = f.body
  BY <1>1, <1>2, <1>4 DEF Contents
<1>6. /\ file' = [file EXCEPT ![path.src] = g]
      /\ acked' = acked \o t.wrote
      /\ holder' = Release(path.src)
      /\ upd' = [upd EXCEPT ![u] = NoUpdate]
      /\ UNCHANGED <<path, comp>>
  BY <1>1, <1>2 DEF CommitUpdate
<1>7. acked' = [r \in 1..t.rows |-> r] /\ acked' \in Seq(Nat)
  <2> DEFINE x == f.rows
             y == Len(t.wrote)
             w == t.wrote
             a == acked
  <2>1. x \in Nat /\ y \in Nat /\ w = [j \in 1..y |-> x + j] /\ a = [r \in 1..x |-> r] /\ t.rows = x + y
    BY <1>1, <1>3, <1>4
  <2>2. acked' = a \o w
    BY <1>6
  <2> HIDE DEF x, y, w, a
  <2>3. a \o w = [r \in 1..(x + y) |-> r]
    BY <2>1, Counting
  <2>4. [r \in 1..(x + y) |-> r] \in Seq(Nat)
    BY <2>1
  <2> QED
    BY <2>1, <2>2, <2>3, <2>4
<1> HIDE DEF g, f
<1>8. file' \in [Inodes -> Contents] /\ file'[path.src] = g
      /\ \A i \in Inodes \ {path.src} : file'[i] = file[i]
  BY <1>1, <1>2, <1>5, <1>6
<1>9. SourceInv'
  BY <1>3, <1>5, <1>6, <1>7, <1>8 DEF SourceInv
<1>10. NoUpdate \in Update /\ NoUpdate.pc = "idle"
  BY DEF NoUpdate, Update
<1>11. upd' \in [Updaters -> Update] /\ upd'[u] = NoUpdate /\ \A v \in Updaters \ {u} : upd'[v] = upd[v]
  BY <1>2, <1>6, <1>10
<1>12. /\ holder' \in [Inodes -> Actors \cup {None}]
       /\ \A i \in Inodes : holder'[i] # holder[i] => holder[i] \in {u, None}
  BY <1>1, <1>2, <1>6 DEF Release
<1>13. TypeInv' /\ NamesInv' /\ LockInv' /\ PlaceInv'
  BY <1>6, <1>7, <1>8, <1>10, <1>11, <1>12, UpdaterFrame
<1>14. OutputsInv'
  <2>1. ASSUME NEW nm \in {"temp", "out"}, path[nm] # None
        PROVE  path[nm] \in Inodes \ {path.src} /\ Output(file[path[nm]]) /\ file[path[nm]] \in Contents
    BY <2>1 DEF PathInv, TypeInv, NamesInv, OutputsInv
  <2>2. Len(acked) <= Len(acked')
    <3> DEFINE x == f.rows
               y == Len(t.wrote)
    <3>1. Len(acked) = x /\ Len(acked') = t.rows /\ t.rows = x + y /\ x \in Nat /\ y \in Nat
      BY <1>1, <1>3, <1>4, <1>7
    <3> HIDE DEF x, y, t
    <3> QED
      BY <3>1
  <2>3. ASSUME NEW nm \in {"temp", "out"}, path[nm] # None
        PROVE  Output(file[path[nm]])'
    <3> DEFINE h == file[path[nm]]
    <3>1. h.rows \in Nat /\ Output(h) /\ h \in Contents /\ path'[nm] = path[nm] /\ file'[path[nm]] = h
      BY <1>6, <1>8, <2>1, <2>3 DEF Contents
    <3>2. h.rows <= Len(acked')
      <4>1. Len(acked) \in Nat /\ Len(acked') \in Nat /\ h.rows <= Len(acked)
        <5>1. h.rows <= Len(acked)
          BY <3>1 DEF Output
        <5>2. acked \in Seq(Nat) /\ acked' \in Seq(Nat)
          BY <1>1, <1>7
        <5>3. Len(acked) \in Nat /\ Len(acked') \in Nat
          BY ONLY <5>2
        <5> QED
          BY <5>1, <5>3
      <4> HIDE DEF h
      <4> QED
        BY <2>2, <3>1, <4>1
    <3> HIDE DEF h
    <3>3. file'[path'[nm]] = h
      BY <3>1
    <3> QED
      BY <3>1, <3>2, <3>3 DEF Output
  <2> QED
    BY <1>6, <2>3 DEF OutputsInv
<1>15. ActorsInv'
  <2>1. Session(u)'
    BY <1>10, <1>11 DEF Session
  <2>2. /\ \A v \in Updaters \ {u} : Session(v)'
        /\ \A c \in Compactors : Compacts(c)'
    BY <1>2, <1>6, <1>11, WorkerAlone, WaitingStays DEF PathInv, ActorsInv
  <2> QED
    BY <2>1, <2>2 DEF ActorsInv
<1>16. Kept
  <2>1. f.n <= g.n /\ f.n + f.rows <= g.n + g.rows
    <3> DEFINE y == Len(t.wrote)
    <3>1. y \in Nat /\ t.rows = f.rows + y /\ t.n \in Nat /\ f.n \in Nat /\ f.rows \in Nat /\ f.n <= t.n
      BY <1>1, <1>3, <1>4
    <3> HIDE DEF y
    <3> QED
      BY <1>5, <3>1
  <2>2. f.n + f.rows <= Len(g.body) /\ \A p \in 1..(f.n + f.rows) : g.body[p] = f.body[p]
    <3>1. f.n + f.rows <= Len(f.body)
      BY SourceFacts DEF f
    <3> QED
      BY <1>5, <3>1
  <2>3. Len(acked) <= Len(acked')
    <3> DEFINE x == f.rows
               y == Len(t.wrote)
    <3>1. Len(acked) = x /\ Len(acked') = t.rows /\ t.rows = x + y /\ x \in Nat /\ y \in Nat
      BY <1>1, <1>3, <1>4, <1>7
    <3> HIDE DEF x, y, t
    <3> QED
      BY <3>1
  <2>4. \A i \in Inodes \ {path.src, path.temp, path.out} :
          file'[i] = file[i] /\ i \notin {path'.temp, path'.out}
    BY <1>6, <1>8
  <2> QED
    BY <1>6, <1>8, <2>1, <2>2, <2>3, <2>4 DEF Kept, f
<1> QED
  BY <1>9, <1>13, <1>14, <1>15, <1>16 DEF PathInv

LEMMA UpdatingStep ==
  ASSUME WritersAvoidRename, PathInv, NEW u \in Updaters, Updating(u)
  PROVE  PathInv'
BY OpenUpdateStep, LockUpdateStep, UpdateContendedStep, LoadUpdateStep, WriteStep,
   WriteFooterStep, CommitUpdateStep, LoseUpdateStep DEF Updating

\* Where everyone is, when a compaction takes a step that leaves the path alone.
LEMMA CompactorFrame ==
  ASSUME PathInv, NEW c \in Compactors, upd' = upd, acked' = acked,
         path' \in [src : Inodes, temp : Inodes \cup {None}, out : Inodes \cup {None}],
         path'.src = path.src,
         comp' \in [Compactors -> Compaction], \A d \in Compactors \ {c} : comp'[d] = comp[d],
         holder' \in [Inodes -> Actors \cup {None}],
         \A i \in Inodes : holder'[i] # holder[i] => holder[i] \in {c, None},
         comp'[c].pc \notin {"idle", "unlocked"} => comp'[c].fd = path.src,
         comp'[c].pc \in {"locked", "indexed", "copying"} => holder'[path.src] = c,
         comp'[c].pc # "idle" => \A d \in Compactors \ {c} : comp[d].pc # "unlocked",
         comp'[c].pc = "unlocked" => /\ comp'[c].dest = "temp"
                                     /\ \A u \in Updaters : upd[u].pc = "idle"
                                     /\ \A d \in Compactors \ {c} : comp[d].pc = "idle",
         file' \in [Inodes -> Contents]
  PROVE  TypeInv' /\ LockInv' /\ PlaceInv'
<1>1. TypeInv'
  BY DEF PathInv, TypeInv
<1>2. LockInv'
  <2>1. c \in Actors /\ \A u \in Updaters : c # u
    BY ActorAssumption DEF Actors
  <2>2. \A u \in Updaters : upd'[u].pc \in {"locked", "open", "footed"} => holder'[upd'[u].inode] = u
    BY <2>1, OthersLocked
  <2>3. \A d \in Compactors : comp'[d].pc \in {"locked", "indexed", "copying"} => holder'[comp'[d].fd] = d
    BY <2>1, OthersLocked
  <2> QED
    BY <2>2, <2>3 DEF LockInv
<1>3. PlaceInv'
  <2>1. \A u \in Updaters : upd'[u].pc # "idle" => upd'[u].inode = path'.src
    BY DEF PathInv, PlaceInv
  <2>2. \A d \in Compactors : comp'[d].pc \notin {"idle", "unlocked"} => comp'[d].fd = path'.src
    BY DEF PathInv, PlaceInv
  <2>3. \A d \in Compactors : comp'[d].pc = "unlocked" =>
             /\ comp'[d].dest = "temp"
             /\ \A u \in Updaters : upd'[u].pc = "idle"
             /\ \A e \in Compactors \ {d} : comp'[e].pc = "idle"
    <3> SUFFICES ASSUME NEW d \in Compactors, comp'[d].pc = "unlocked"
                 PROVE  /\ comp'[d].dest = "temp"
                        /\ \A u \in Updaters : upd'[u].pc = "idle"
                        /\ \A e \in Compactors \ {d} : comp'[e].pc = "idle"
      OBVIOUS
    <3>1. CASE d = c
      BY <3>1
    <3>2. CASE d # c
      <4>1. comp'[c].pc = "idle" /\ comp[d].pc = "unlocked"
        BY <3>2
      <4>2. /\ comp[d].dest = "temp" /\ \A u \in Updaters : upd[u].pc = "idle"
            /\ \A e \in Compactors \ {d} : comp[e].pc = "idle"
        BY <4>1 DEF PathInv, PlaceInv
      <4> QED
        BY <3>2, <4>1, <4>2
    <3> QED
      BY <3>1, <3>2
  <2> QED
    BY <2>1, <2>2, <2>3 DEF PlaceInv
<1> QED
  BY <1>1, <1>2, <1>3

\* A step of a compaction that changes no name, no file and no history.
LEMMA QuietCompaction ==
  ASSUME PathInv, NEW c \in Compactors, UNCHANGED <<path, file, upd, acked>>,
         comp' \in [Compactors -> Compaction], \A d \in Compactors \ {c} : comp'[d] = comp[d],
         holder' \in [Inodes -> Actors \cup {None}],
         \A i \in Inodes : holder'[i] # holder[i] => holder[i] \in {c, None},
         comp'[c].pc \notin {"idle", "unlocked"} => comp'[c].fd = path.src,
         comp'[c].pc \in {"locked", "indexed", "copying"} => holder'[path.src] = c,
         comp'[c].pc # "idle" => \A d \in Compactors \ {c} : comp[d].pc # "unlocked",
         comp'[c].pc = "unlocked" => /\ comp'[c].dest = "temp"
                                     /\ \A u \in Updaters : upd[u].pc = "idle"
                                     /\ \A d \in Compactors \ {c} : comp[d].pc = "idle",
         Compacts(c)'
  PROVE  PathInv'
<1>0. /\ path' \in [src : Inodes, temp : Inodes \cup {None}, out : Inodes \cup {None}]
      /\ path'.src = path.src /\ file' \in [Inodes -> Contents]
  BY DEF PathInv, TypeInv
<1>1. TypeInv' /\ LockInv' /\ PlaceInv'
  BY <1>0, CompactorFrame
<1>2. NamesInv' /\ SourceInv' /\ OutputsInv'
  BY QuietStep
<1>3. ActorsInv'
  BY QuietStep DEF ActorsInv
<1> QED
  BY <1>1, <1>2, <1>3 DEF PathInv

\* While a compaction has not let go, nobody is between unlock and rename.
LEMMA NoOtherGap ==
  ASSUME PathInv, NEW c \in Compactors, comp[c].pc # "idle"
  PROVE  \A d \in Compactors \ {c} : comp[d].pc # "unlocked"
BY DEF PathInv, PlaceInv

LEMMA BeginCompactStep ==
  ASSUME WritersAvoidRename, PathInv, NEW c \in Compactors, BeginCompact(c)
  PROVE  PathInv'
<1>1. PICK dest \in {"temp", "out"} :
        comp' = [comp EXCEPT ![c] = [@ EXCEPT !.pc = "opened", !.dest = dest, !.fd = path.src]]
  BY DEF BeginCompact
<1>2. comp[c] = NoCompaction /\ comp \in [Compactors -> Compaction] /\ path.src \in Inodes
  BY DEF BeginCompact, PathInv, ActorsInv, Compacts, TypeInv
<1> DEFINE s == [NoCompaction EXCEPT !.pc = "opened", !.dest = dest, !.fd = path.src]
<1>3. s \in Compaction /\ s.pc = "opened" /\ s.fd = path.src /\ s.done = 0
  BY <1>2 DEF NoCompaction, Compaction
<1> HIDE DEF s
<1>4. comp' = [comp EXCEPT ![c] = s]
  BY <1>1, <1>2 DEF s
<1>5. comp' \in [Compactors -> Compaction] /\ comp'[c] = s /\ \A d \in Compactors \ {c} : comp'[d] = comp[d]
  BY <1>2, <1>3, <1>4
<1>6. Compacts(c)'
  BY <1>3, <1>5 DEF Compacts
<1>7. (\A d \in Compactors \ {c} : comp[d].pc # "unlocked") /\ UNCHANGED <<path, file, upd, acked, holder>>
  BY DEF BeginCompact, WriterMayOpen, InGap
<1>8. holder' \in [Inodes -> Actors \cup {None}]
  BY <1>7 DEF PathInv, TypeInv
<1> QED
  BY <1>3, <1>5, <1>6, <1>7, <1>8, QuietCompaction

LEMMA LockCompactStep ==
  ASSUME PathInv, NEW c \in Compactors, LockCompact(c)
  PROVE  PathInv'
<1> DEFINE s == [comp[c] EXCEPT !.pc = "locked"]
<1>1. /\ comp[c].pc = "opened" /\ comp[c] \in Compaction /\ comp \in [Compactors -> Compaction]
      /\ comp[c].fd = path.src /\ comp[c].done = 0 /\ path.src \in Inodes
      /\ holder \in [Inodes -> Actors \cup {None}]
  BY DEF LockCompact, PathInv, TypeInv, PlaceInv, ActorsInv, Compacts
<1>2. s \in Compaction /\ s.pc = "locked" /\ s.fd = path.src /\ s.done = 0
  BY <1>1 DEF Compaction
<1>3. comp' = [comp EXCEPT ![c] = s] /\ holder' = [holder EXCEPT ![path.src] = c] /\ holder[path.src] = None
  BY <1>1 DEF LockCompact
<1> HIDE DEF s
<1>4. comp' \in [Compactors -> Compaction] /\ comp'[c] = s /\ \A d \in Compactors \ {c} : comp'[d] = comp[d]
  BY <1>1, <1>2, <1>3
<1>5. Compacts(c)'
  BY <1>2, <1>4 DEF Compacts
<1>6. (\A d \in Compactors \ {c} : comp[d].pc # "unlocked") /\ UNCHANGED <<path, file, upd, acked>>
  BY <1>1, NoOtherGap DEF LockCompact
<1>7. /\ holder' \in [Inodes -> Actors \cup {None}] /\ holder'[path.src] = c
      /\ \A i \in Inodes : holder'[i] # holder[i] => holder[i] \in {c, None}
  BY <1>1, <1>3 DEF Actors
<1> QED
  BY <1>2, <1>4, <1>5, <1>6, <1>7, QuietCompaction

\* A compaction that ends and changes no file.
LEMMA CompactionEnds ==
  ASSUME PathInv, NEW c \in Compactors, UNCHANGED <<path, file, upd, acked>>,
         comp' = [comp EXCEPT ![c] = NoCompaction],
         \/ holder' = holder
         \/ \E i \in Inodes : holder[i] = c /\ holder' = Release(i)
  PROVE  PathInv'
<1>1. comp \in [Compactors -> Compaction] /\ holder \in [Inodes -> Actors \cup {None}]
  BY DEF PathInv, TypeInv
<1>2. NoCompaction \in Compaction /\ NoCompaction.pc = "idle"
  BY DEF NoCompaction, Compaction
<1>3. comp' \in [Compactors -> Compaction] /\ comp'[c] = NoCompaction
      /\ \A d \in Compactors \ {c} : comp'[d] = comp[d]
  BY <1>1, <1>2
<1>4. Compacts(c)'
  BY <1>2, <1>3 DEF Compacts
<1>5. /\ holder' \in [Inodes -> Actors \cup {None}]
      /\ \A i \in Inodes : holder'[i] # holder[i] => holder[i] \in {c, None}
  BY <1>1 DEF Release
<1> QED
  BY <1>2, <1>3, <1>4, <1>5, QuietCompaction

LEMMA CompactContendedStep ==
  ASSUME PathInv, NEW c \in Compactors, CompactContended(c)
  PROVE  PathInv'
BY CompactionEnds DEF CompactContended

LEMMA NothingToDoStep ==
  ASSUME PathInv, NEW c \in Compactors, NothingToDo(c)
  PROVE  PathInv'
<1>1. comp[c].fd = path.src /\ holder[path.src] = c /\ path.src \in Inodes
  BY WorkerAlone DEF NothingToDo, PathInv, TypeInv
<1> QED
  BY <1>1, CompactionEnds DEF NothingToDo

LEMMA CrashCompactStep ==
  ASSUME PathInv, NEW c \in Compactors, CrashCompact(c)
  PROVE  PathInv'
<1>1. CASE comp[c].pc = "unlocked" /\ comp[c].fd \notin Inodes
  <2>1. holder' = holder
    BY <1>1 DEF CrashCompact, Release, PathInv, TypeInv
  <2> QED
    BY <2>1, CompactionEnds DEF CrashCompact
<1>2. CASE comp[c].fd \in Inodes
  BY <1>2, CompactionEnds DEF CrashCompact
<1>3. comp[c].fd \in Inodes \/ comp[c].pc = "unlocked"
  BY DEF CrashCompact, PathInv, PlaceInv, TypeInv
<1> QED
  BY <1>1, <1>2, <1>3

LEMMA IndexSourceStep ==
  ASSUME PathInv, NEW c \in Compactors, IndexSource(c)
  PROVE  PathInv'
<1> DEFINE f == file[path.src]
           s == [comp[c] EXCEPT !.pc = "indexed", !.n = f.n, !.rows = f.rows, !.ix = Index(f.body, f.n)]
<1>1. /\ f.n \in Nat /\ f.rows \in Nat /\ Index(f.body, f.n) \in Seq(Extents) /\ WalkOK(f.body, f.n)
  BY SourceFacts DEF Stored
<1>2. /\ comp[c].pc = "locked" /\ comp[c].fd = path.src /\ holder[path.src] = c /\ comp[c].done = 0
      /\ comp[c] \in Compaction /\ comp \in [Compactors -> Compaction]
      /\ holder \in [Inodes -> Actors \cup {None}]
  BY WorkerAlone DEF IndexSource, PathInv, TypeInv, ActorsInv, Compacts
<1>3. comp' = [comp EXCEPT ![c] = s] /\ UNCHANGED <<path, file, upd, acked, holder>>
  BY <1>1, <1>2 DEF IndexSource
<1>4. /\ s \in Compaction /\ s.pc = "indexed" /\ s.fd = path.src /\ s.done = 0
      /\ s.n = f.n /\ s.rows = f.rows /\ s.ix = Index(f.body, f.n)
  <2> DEFINE ix == Index(f.body, f.n)
  <2>1. ix \in Seq(Extents)
    BY <1>1
  <2> HIDE DEF ix, f
  <2>2. s = [comp[c] EXCEPT !.pc = "indexed", !.n = f.n, !.rows = f.rows, !.ix = ix]
    BY DEF ix
  <2>3. s \in Compaction /\ s.pc = "indexed" /\ s.fd = path.src /\ s.done = 0
        /\ s.n = f.n /\ s.rows = f.rows /\ s.ix = ix
    BY <1>1, <1>2, <2>1, <2>2 DEF Compaction
  <2> QED
    BY <2>3 DEF ix
<1> HIDE DEF s
<1>5. comp' \in [Compactors -> Compaction] /\ comp'[c] = s /\ \A d \in Compactors \ {c} : comp'[d] = comp[d]
  BY <1>2, <1>3, <1>4
<1>6. Compacts(c)'
  BY <1>3, <1>4, <1>5 DEF Compacts
<1>7. \A d \in Compactors \ {c} : comp[d].pc # "unlocked"
  BY <1>2, NoOtherGap
<1> QED
  BY <1>2, <1>3, <1>4, <1>5, <1>6, <1>7, QuietCompaction

\* The file a compaction writes to is not the one behind the path, nor behind the
\* other name.
LEMMA TargetApart ==
  ASSUME PathInv, NEW dest \in {"temp", "out"}, NEW i \in Inodes, i = path[dest] \/ Unused(i)
  PROVE  /\ i # path.src /\ i # None
         /\ \A nm \in {"temp", "out"} \ {dest} : path[nm] # i
<1>1. /\ DOMAIN path = {"src", "temp", "out"} /\ i # None
      /\ path.src \notin {path.temp, path.out} /\ (path.temp # None => path.temp # path.out)
  BY NoneAssumption DEF PathInv, TypeInv, NamesInv
<1>2. CASE Unused(i)
  BY <1>1, <1>2 DEF Unused, Named
<1>3. CASE i = path[dest]
  BY <1>1, <1>3
<1> QED
  BY <1>2, <1>3

\* A compaction at work writes its output.
LEMMA OutputChanges ==
  ASSUME PathInv, NEW c \in Compactors, comp[c].pc \in {"locked", "indexed", "copying"},
         UNCHANGED <<upd, acked>>, \A d \in Compactors \ {c} : comp'[d] = comp[d],
         NEW dest \in {"temp", "out"}, NEW i \in Inodes, i = path[dest] \/ Unused(i),
         path' = [path EXCEPT ![dest] = i],
         NEW h \in Contents, file' = [file EXCEPT ![i] = h], Output(h)
  PROVE  /\ path' \in [src : Inodes, temp : Inodes \cup {None}, out : Inodes \cup {None}]
         /\ path'.src = path.src /\ file' \in [Inodes -> Contents]
         /\ file'[path'.src] = file[path.src] /\ file'[i] = h /\ path'[dest] = i
         /\ NamesInv' /\ SourceInv' /\ OutputsInv' /\ Kept
         /\ \A u \in Updaters : Session(u)'
         /\ \A d \in Compactors \ {c} : Compacts(d)'
<1>1. /\ path \in [src : Inodes, temp : Inodes \cup {None}, out : Inodes \cup {None}]
      /\ file \in [Inodes -> Contents]
      /\ path.src \notin {path.temp, path.out} /\ (path.temp # None => path.temp # path.out)
  BY DEF PathInv, TypeInv, NamesInv
<1>2. i # path.src /\ i # None /\ \A nm \in {"temp", "out"} \ {dest} : path[nm] # i
  BY TargetApart
<1>3. /\ path' \in [src : Inodes, temp : Inodes \cup {None}, out : Inodes \cup {None}]
      /\ path'.src = path.src /\ path'[dest] = i
      /\ \A nm \in {"temp", "out"} \ {dest} : path'[nm] = path[nm]
  BY <1>1
<1>4. file' \in [Inodes -> Contents] /\ file'[i] = h /\ \A j \in Inodes \ {i} : file'[j] = file[j]
  BY <1>1
<1>5. file'[path'.src] = file[path.src]
  BY <1>1, <1>2, <1>3, <1>4
<1>6. NamesInv'
  BY <1>1, <1>2, <1>3 DEF NamesInv
<1>7. SourceInv'
  BY <1>5 DEF PathInv, SourceInv
<1>8. OutputsInv'
  <2>1. ASSUME NEW nm \in {"temp", "out"}, path'[nm] # None PROVE Output(file[path[nm]])'
    <3>1. CASE nm = dest
      <4>1. file'[path'[nm]] = h
        BY <1>3, <1>4, <3>1
      <4> QED
        BY <4>1 DEF Output
    <3>2. CASE nm # dest
      <4>1. path'[nm] = path[nm] /\ path[nm] \in Inodes \ {i} /\ Output(file[path[nm]])
        BY <1>1, <1>2, <1>3, <2>1, <3>2 DEF PathInv, OutputsInv
      <4>2. file'[path'[nm]] = file[path[nm]]
        BY <1>4, <4>1
      <4> QED
        BY <4>1, <4>2 DEF Output
    <3> QED
      BY <3>1, <3>2
  <2> QED
    BY <2>1 DEF OutputsInv
<1>9. /\ \A u \in Updaters : Session(u)'
      /\ \A d \in Compactors \ {c} : Compacts(d)'
  BY WorkerAlone, WaitingStays DEF PathInv, ActorsInv
<1>10. Kept
  <2>1. ASSUME NEW j \in Inodes \ {path.src, path.temp, path.out}, ~Unused(j)
        PROVE  file'[j] = file[j] /\ j \notin {path'.temp, path'.out}
    <3>1. j # i /\ j # None
      BY <1>1, <2>1, NoneAssumption
    <3> QED
      BY <1>3, <1>4, <2>1, <3>1
  <2> DEFINE f == file[path.src]
  <2>2. /\ f.n <= f.n /\ f.n + f.rows <= f.n + f.rows /\ f.n + f.rows <= Len(f.body)
        /\ Len(acked) <= Len(acked')
    BY SourceFacts
  <2>3. file'[path.src] = f /\ path'.src = path.src
    BY <1>3, <1>5
  <2> HIDE DEF f
  <2>4. LET g == file'[path.src] IN
        /\ f.n <= g.n /\ f.n + f.rows <= g.n + g.rows /\ f.n + f.rows <= Len(g.body)
        /\ \A p \in 1..(f.n + f.rows) : g.body[p] = f.body[p]
    BY <2>2, <2>3
  <2> QED
    BY <2>1, <2>2, <2>3, <2>4 DEF Kept, f
<1> QED
  BY <1>3, <1>4, <1>5, <1>6, <1>7, <1>8, <1>9, <1>10

LEMMA CopyWholeStep ==
  ASSUME PathInv, NEW c \in Compactors, CopyWhole(c)
  PROVE  PathInv' /\ Kept
<1> DEFINE f == file[path.src]
<1>1. /\ f \in Contents /\ path.src \in Inodes /\ f.body \in Seq(Cell) /\ f.n \in Nat \ {0} /\ f.rows \in Nat
      /\ Stored(f.body, f.n, f.rows) /\ Len(acked) = f.rows
  BY SourceFacts
<1>2. /\ comp[c].pc = "locked" /\ comp[c].fd = path.src /\ holder[path.src] = c
      /\ comp \in [Compactors -> Compaction] /\ holder \in [Inodes -> Actors \cup {None}]
  BY WorkerAlone DEF CopyWhole, PathInv, TypeInv
<1>3. f.n = 1
  <2>1. f.n <= 1
    BY <1>2 DEF CopyWhole
  <2> QED
    BY <1>1, <2>1
<1>4. PICK i \in Inodes, len \in 0..Len(f.body) :
        /\ OpensTarget("out", i)
        /\ path' = [path EXCEPT !.out = i]
        /\ file' = [file EXCEPT ![i] = [f EXCEPT !.body = SubSeq(@, 1, len)]]
  BY DEF CopyWhole
<1> DEFINE b == SubSeq(f.body, 1, len)
           h == [f EXCEPT !.body = b]
<1>5. b \in Seq(Cell) /\ Len(b) = len /\ \A p \in 1..len : b[p] = f.body[p]
  <2> DEFINE old == f.body
  <2>1. old \in Seq(Cell) /\ len \in 0..Len(old)
    BY <1>1
  <2> HIDE DEF old
  <2>2. SubSeq(old, 1, len) \in Seq(Cell) /\ Len(SubSeq(old, 1, len)) = len
        /\ \A p \in 1..len : SubSeq(old, 1, len)[p] = old[p]
    BY <2>1
  <2> QED
    BY <2>2 DEF old
<1>6. file' = [file EXCEPT ![i] = h]
  BY <1>4
<1> HIDE DEF b
<1>7. h \in Contents /\ h.n = 1 /\ h.rows = f.rows /\ h.body = b
  BY <1>1, <1>3, <1>5 DEF Contents
<1>8. Output(h)
  <2>1. /\ 1 + f.rows <= Len(f.body)
        /\ \A p \in 1..(1 + f.rows) : f.body[p] = IF p = 1 THEN RecHead(0, f.rows) ELSE RowCell(p - 1)
    BY <1>1, <1>3, OneRecordCells
  <2> HIDE DEF h, f
  <2>2. ASSUME NEW p \in 1..Len(b), p <= f.rows + 1
        PROVE  b[p] = IF p = 1 THEN RecHead(0, f.rows) ELSE RowCell(p - 1)
    <3>1. p \in 1..len /\ p \in 1..(1 + f.rows)
      BY <1>1, <1>5, <2>2
    <3> QED
      BY <1>5, <2>1, <3>1
  <2>3. h.rows <= Len(acked)
    BY <1>1, <1>7
  <2> QED
    BY <1>7, <2>2, <2>3 DEF Output
<1> HIDE DEF h
<1>9. /\ NoCompaction \in Compaction /\ NoCompaction.pc = "idle"
  BY DEF NoCompaction, Compaction
<1>10. /\ comp' = [comp EXCEPT ![c] = NoCompaction] /\ holder' = Release(path.src)
       /\ UNCHANGED <<upd, acked>>
  BY <1>2 DEF CopyWhole
<1>11. comp' \in [Compactors -> Compaction] /\ comp'[c] = NoCompaction
       /\ \A d \in Compactors \ {c} : comp'[d] = comp[d]
  BY <1>2, <1>9, <1>10
<1>12. i = path["out"] \/ Unused(i)
  BY <1>4 DEF OpensTarget
<1>13. /\ path' \in [src : Inodes, temp : Inodes \cup {None}, out : Inodes \cup {None}]
       /\ path'.src = path.src /\ file' \in [Inodes -> Contents]
       /\ NamesInv' /\ SourceInv' /\ OutputsInv' /\ Kept
       /\ \A u \in Updaters : Session(u)'
       /\ \A d \in Compactors \ {c} : Compacts(d)'
  <2>1. path' = [path EXCEPT !["out"] = i]
    BY <1>4
  <2> QED
    BY <1>2, <1>6, <1>7, <1>8, <1>10, <1>11, <1>12, <2>1, OutputChanges
<1>14. TypeInv' /\ LockInv' /\ PlaceInv'
  <2>1. /\ holder' \in [Inodes -> Actors \cup {None}]
        /\ \A j \in Inodes : holder'[j] # holder[j] => holder[j] \in {c, None}
    BY <1>1, <1>2, <1>10 DEF Release
  <2> QED
    BY <1>9, <1>10, <1>11, <1>13, <2>1, CompactorFrame
<1>15. Compacts(c)'
  BY <1>9, <1>11 DEF Compacts
<1> QED
  BY <1>13, <1>14, <1>15 DEF PathInv, ActorsInv

LEMMA StartOutputStep ==
  ASSUME PathInv, NEW c \in Compactors, StartOutput(c)
  PROVE  PathInv' /\ Kept
<1> DEFINE f == file[path.src]
           t == comp[c]
<1>1. /\ f.n \in Nat \ {0} /\ f.rows \in Nat /\ Len(acked) = f.rows /\ path.src \in Inodes
      /\ RowsIn(Index(f.body, f.n), 0) = 0
  BY SourceFacts DEF RowsIn
<1>2. /\ t.pc = "indexed" /\ t.fd = path.src /\ holder[path.src] = c /\ t.done = 0
      /\ t \in Compaction /\ comp \in [Compactors -> Compaction]
      /\ holder \in [Inodes -> Actors \cup {None}] /\ t.dest \in {"temp", "out"}
      /\ t.n = f.n /\ t.rows = f.rows /\ t.ix = Index(f.body, f.n)
  BY WorkerAlone DEF StartOutput, PathInv, TypeInv, ActorsInv, Compacts, Compaction
<1> HIDE DEF f
<1> DEFINE h == [n |-> 1, rows |-> t.rows, stats |-> 0, body |-> OutputBegun(t)]
<1>3. PICK i \in Inodes :
       /\ OpensTarget(t.dest, i)
       /\ path' = [path EXCEPT ![t.dest] = i]
       /\ file' = [file EXCEPT ![i] = h]
       /\ comp' = [comp EXCEPT ![c] = [t EXCEPT !.pc = "copying", !.src = path.src, !.dst = i]]
  BY DEF StartOutput
<1> DEFINE s == [t EXCEPT !.pc = "copying", !.src = path.src, !.dst = i]
<1> HIDE DEF t
<1>4. /\ s \in Compaction /\ s.pc = "copying" /\ s.fd = path.src /\ s.done = 0 /\ s.src = path.src
      /\ s.n = f.n /\ s.rows = f.rows /\ s.ix = Index(f.body, f.n) /\ s.dst = i /\ s.dest = t.dest
  BY <1>1, <1>2 DEF Compaction
<1>5. h \in Contents /\ h.n = 1 /\ h.rows = f.rows /\ h.body = <<RecHead(0, f.rows)>> /\ Len(h.body) = 1
  <2>1. RecHead(0, f.rows) \in Cell
    BY <1>1 DEF RecHead, Cell
  <2>2. OutputBegun(t) = <<RecHead(0, f.rows)>>
    BY <1>2 DEF OutputBegun
  <2> QED
    BY <1>1, <1>2, <2>1, <2>2 DEF Contents
<1> HIDE DEF h
<1>6. Output(h)
  <2>1. \A p \in 1..Len(h.body) : h.body[p] = RecHead(0, f.rows) /\ p = 1
    BY <1>5
  <2> QED
    BY <1>1, <1>5, <2>1 DEF Output
<1>7. comp' = [comp EXCEPT ![c] = s]
  BY <1>3 DEF s
<1> HIDE DEF s
<1>8. comp' \in [Compactors -> Compaction] /\ comp'[c] = s /\ \A d \in Compactors \ {c} : comp'[d] = comp[d]
  BY <1>2, <1>4, <1>7
<1>9. UNCHANGED <<upd, acked, holder>>
  BY DEF StartOutput
<1>10. /\ path' \in [src : Inodes, temp : Inodes \cup {None}, out : Inodes \cup {None}]
       /\ path'.src = path.src /\ file' \in [Inodes -> Contents]
       /\ file'[path'.src] = f /\ file'[i] = h /\ path'[t.dest] = i
       /\ NamesInv' /\ SourceInv' /\ OutputsInv' /\ Kept
       /\ \A u \in Updaters : Session(u)'
       /\ \A d \in Compactors \ {c} : Compacts(d)'
  <2> DEFINE dest == t.dest
  <2>1. /\ dest \in {"temp", "out"} /\ (i = path[dest] \/ Unused(i))
        /\ path' = [path EXCEPT ![dest] = i] /\ file' = [file EXCEPT ![i] = h]
    BY <1>2, <1>3 DEF OpensTarget
  <2>2. comp[c].pc \in {"locked", "indexed", "copying"}
    BY <1>2 DEF t
  <2> HIDE DEF dest
  <2>3. /\ path' \in [src : Inodes, temp : Inodes \cup {None}, out : Inodes \cup {None}]
        /\ path'.src = path.src /\ file' \in [Inodes -> Contents]
        /\ file'[path'.src] = file[path.src] /\ file'[i] = h /\ path'[dest] = i
        /\ NamesInv' /\ SourceInv' /\ OutputsInv' /\ Kept
        /\ \A u \in Updaters : Session(u)'
        /\ \A d \in Compactors \ {c} : Compacts(d)'
    BY <1>5, <1>6, <1>8, <1>9, <2>1, <2>2, OutputChanges, ZenonT(40)
  <2> QED
    BY <2>3 DEF dest, f
<1>11. TypeInv' /\ LockInv' /\ PlaceInv'
  <2>1. \A d \in Compactors \ {c} : comp[d].pc # "unlocked"
    BY <1>2, NoOtherGap DEF t
  <2> QED
    BY <1>2, <1>4, <1>8, <1>9, <1>10, <2>1, CompactorFrame
<1>12. Compacts(c)'
  <2>1. RowsIn(s.ix, s.done) = 0
    BY <1>1, <1>4
  <2>2. 1 = 1 + RowsIn(s.ix, s.done) /\ s.done <= s.n
    BY <1>1, <1>4, <2>1
  <2> QED
    BY <1>4, <1>5, <1>8, <1>10, <2>2 DEF Compacts
<1> QED
  BY <1>10, <1>11, <1>12 DEF PathInv, ActorsInv

LEMMA CopyRangeStep ==
  ASSUME PathInv, NEW c \in Compactors, CopyRange(c)
  PROVE  PathInv' /\ Kept
<1> DEFINE f == file[path.src]
           t == comp[c]
           o == file[t.dst]
           old == o.body
           ix == Index(f.body, f.n)
           k == t.done + 1
           w == ix[k].rows
           x == RowsIn(ix, t.done)
           rows == Spliced(t)
           cells == [j \in 1..Len(rows) |-> RowCell(rows[j])]
           g == old \o cells
           h == [o EXCEPT !.body = g]
           s == [t EXCEPT !.done = k]
<1>1. /\ f.n \in Nat \ {0} /\ f.rows \in Nat /\ f.body \in Seq(Cell) /\ Stored(f.body, f.n, f.rows)
      /\ path.src \in Inodes
  BY SourceFacts
<1>2. /\ t.pc = "copying" /\ t.fd = path.src /\ holder[path.src] = c
      /\ t \in Compaction /\ comp \in [Compactors -> Compaction]
      /\ holder \in [Inodes -> Actors \cup {None}] /\ t.dest \in {"temp", "out"}
      /\ t.n = f.n /\ t.rows = f.rows /\ t.ix = ix /\ t.done \in Nat /\ t.done < t.n
      /\ t.dst \in Inodes /\ t.dst = path[t.dest] /\ o.rows = f.rows /\ t.src = path.src
      /\ Len(old) = 1 + x
  <2>1. t.pc = "copying" /\ t.done < t.n
    BY DEF CopyRange
  <2>2. t.fd = path.src /\ holder[path.src] = c
    BY <2>1, WorkerAlone
  <2>3. /\ t \in Compaction /\ comp \in [Compactors -> Compaction]
        /\ holder \in [Inodes -> Actors \cup {None}]
    BY DEF PathInv, TypeInv
  <2>4. t.dest \in {"temp", "out"} /\ t.done \in Nat
    BY <2>3 DEF Compaction
  <2>5. Compacts(c)
    BY DEF PathInv, ActorsInv
  <2>6. /\ t.n = f.n /\ t.rows = f.rows /\ t.ix = ix /\ t.dst \in Inodes /\ t.dst = path[t.dest]
        /\ o.rows = f.rows /\ t.src = path.src /\ Len(old) = 1 + x
    BY <2>1, <2>5 DEF Compacts
  <2> QED
    BY <2>1, <2>2, <2>3, <2>4, <2>6
<1>3. o \in Contents /\ Output(o) /\ old \in Seq(Cell) /\ t.dst # None
  <2>1. t.dst # None
    BY <1>2, NoneAssumption
  <2>2. o \in Contents
    BY <1>2 DEF PathInv, TypeInv
  <2>3. Output(o)
    BY <1>2, <2>1 DEF PathInv, OutputsInv
  <2> HIDE DEF o
  <2> QED
    BY <2>1, <2>2, <2>3 DEF Contents
<1>4. k \in 1..f.n /\ k - 1 = t.done
  BY <1>1, <1>2
<1>5. /\ w \in Nat /\ x \in Nat /\ Before(ix, k) = x /\ RowsIn(ix, k) = x + w
      /\ RowsAt(f.body, ix[k]) = [j \in 1..w |-> Before(ix, k) + j]
  <2>1. /\ ix[k].rows \in Nat
        /\ RowsAt(f.body, ix[k]) = [j \in 1..ix[k].rows |-> Before(ix, k) + j]
    <3> DEFINE b == f.body
               n == f.n
               m == f.rows
    <3>1. b \in Seq(Cell) /\ Stored(b, n, m) /\ k \in 1..n /\ ix = Index(b, n)
      BY <1>1, <1>4
    <3> HIDE DEF b, n, m, k, ix
    <3>2. Index(b, n)[k].rows \in Nat
      BY <3>1, StoredCells
    <3>3. RowsAt(b, Index(b, n)[k]) = [j \in 1..Index(b, n)[k].rows |-> Before(Index(b, n), k) + j]
      BY <3>1, StoredCells
    <3> QED
      BY <3>1, <3>2, <3>3 DEF b
  <2>2. /\ Before(ix, k) = RowsIn(ix, k - 1) /\ RowsIn(ix, k) = RowsIn(ix, k - 1) + ix[k].rows
        /\ RowsIn(ix, k - 1) \in Nat
    <3>1. k - 1 \in 0..f.n
      BY <1>1, <1>4
    <3> HIDE DEF k
    <3> QED
      BY <1>1, <1>4, <3>1, RowsCounted
  <2> HIDE DEF ix, k
  <2> QED
    BY <1>4, <2>1, <2>2
<1>6. rows = [j \in 1..w |-> x + j]
  <2>1. rows = RowsAt(f.body, ix[k])
    BY <1>2 DEF Spliced
  <2> HIDE DEF ix, k, x, w, rows
  <2> QED
    BY <1>5, <2>1
<1>7. cells \in Seq(Cell) /\ Len(cells) = w /\ \A j \in 1..w : cells[j] = RowCell(x + j)
  <2> HIDE DEF x, w, rows
  <2>1. rows \in Seq(Nat) /\ Len(rows) = w /\ \A j \in 1..w : rows[j] = x + j
    BY <1>5, <1>6
  <2>2. \A j \in 1..w : RowCell(rows[j]) \in Cell
    BY <1>5, <2>1 DEF RowCell, Cell
  <2>3. cells = [j \in 1..w |-> RowCell(rows[j])]
    BY <2>1
  <2> HIDE DEF cells
  <2> QED
    BY <1>5, <2>1, <2>2, <2>3
<1>8. /\ g \in Seq(Cell) /\ Len(g) = (1 + x) + w
      /\ \A p \in 1..(1 + x) : g[p] = old[p]
      /\ \A j \in 1..w : g[(1 + x) + j] = RowCell(x + j)
  <2> DEFINE y == 1 + x
  <2>1. y = Len(old) /\ w = Len(cells)
    BY <1>2, <1>7
  <2> HIDE DEF x, w, cells, old, y
  <2>2. /\ g \in Seq(Cell) /\ Len(g) = y + w
        /\ \A p \in 1..y : g[p] = old[p]
        /\ \A j \in 1..w : g[y + j] = cells[j]
    BY <1>3, <1>7, <2>1, Joined
  <2> QED
    BY <1>7, <2>2 DEF y
<1> HIDE DEF ix, x, w, rows, cells, g
<1>9. h \in Contents /\ h.n = 1 /\ h.rows = f.rows /\ h.body = g
  BY <1>2, <1>3, <1>8 DEF Contents, Output
<1>10. Output(h)
  <2>1. ASSUME NEW p \in 1..Len(g), p <= f.rows + 1
        PROVE  g[p] = IF p = 1 THEN RecHead(0, f.rows) ELSE RowCell(p - 1)
    <3>1. CASE p \in 1..(1 + x)
      <4>1. g[p] = old[p] /\ p \in 1..Len(old)
        BY <1>2, <1>8, <3>1
      <4>2. old[p] = IF p = 1 THEN RecHead(0, o.rows) ELSE RowCell(p - 1)
        BY <1>2, <1>3, <2>1, <4>1 DEF Output
      <4> QED
        BY <1>2, <4>1, <4>2
    <3>2. CASE p \notin 1..(1 + x)
      <4> DEFINE j == p - (1 + x)
      <4>1. j \in 1..w /\ (1 + x) + j = p /\ x + j = p - 1 /\ p # 1
        BY <1>5, <1>8, <3>2
      <4> HIDE DEF j
      <4> QED
        BY <1>8, <4>1
    <3> QED
      BY <3>1, <3>2
  <2>2. h.rows <= Len(acked)
    BY <1>2, <1>3, <1>9 DEF Output
  <2> HIDE DEF h
  <2> QED
    BY <1>9, <2>1, <2>2 DEF Output
<1>11. file' = [file EXCEPT ![t.dst] = h] /\ comp' = [comp EXCEPT ![c] = s]
       /\ UNCHANGED <<path, upd, acked, holder>>
  BY <1>2 DEF CopyRange, g, cells, rows
<1> HIDE DEF h, t, k, f
<1>12. /\ s \in Compaction /\ s.pc = "copying" /\ s.fd = path.src /\ s.done = k /\ s.src = path.src
       /\ s.n = f.n /\ s.rows = f.rows /\ s.ix = ix /\ s.dst = t.dst /\ s.dest = t.dest
  <2>1. k \in Nat
    BY <1>1, <1>4
  <2>2. t \in Compaction /\ s = [t EXCEPT !.done = k]
    BY <1>2
  <2>3. /\ s \in Compaction /\ s.pc = t.pc /\ s.fd = t.fd /\ s.done = k /\ s.src = t.src
        /\ s.n = t.n /\ s.rows = t.rows /\ s.ix = t.ix /\ s.dst = t.dst /\ s.dest = t.dest
    BY <2>1, <2>2 DEF Compaction
  <2> QED
    BY <1>2, <2>3
<1> HIDE DEF s
<1>13. comp' \in [Compactors -> Compaction] /\ comp'[c] = s /\ \A d \in Compactors \ {c} : comp'[d] = comp[d]
  BY <1>2, <1>11, <1>12
<1>14. /\ path' \in [src : Inodes, temp : Inodes \cup {None}, out : Inodes \cup {None}]
       /\ path'.src = path.src /\ file' \in [Inodes -> Contents]
       /\ file'[path'.src] = f /\ file'[t.dst] = h
       /\ NamesInv' /\ SourceInv' /\ OutputsInv' /\ Kept
       /\ \A u \in Updaters : Session(u)'
       /\ \A d \in Compactors \ {c} : Compacts(d)'
  <2> DEFINE dest == t.dest
             i == t.dst
  <2>1. /\ dest \in {"temp", "out"} /\ i \in Inodes /\ i = path[dest] /\ file' = [file EXCEPT ![i] = h]
    BY <1>2, <1>11
  <2>2. comp[c].pc \in {"locked", "indexed", "copying"}
    BY <1>2 DEF t
  <2> HIDE DEF dest, i
  <2>3. path' = [path EXCEPT ![dest] = i]
    <3>1. path \in [src : Inodes, temp : Inodes \cup {None}, out : Inodes \cup {None}]
      BY DEF PathInv, TypeInv
    <3> QED
      BY <1>11, <2>1, <3>1
  <2>5. UNCHANGED <<upd, acked>> /\ \A d \in Compactors \ {c} : comp'[d] = comp[d]
    BY <1>11, <1>13
  <2>4. /\ path' \in [src : Inodes, temp : Inodes \cup {None}, out : Inodes \cup {None}]
        /\ path'.src = path.src /\ file' \in [Inodes -> Contents]
        /\ file'[path'.src] = file[path.src] /\ file'[i] = h
        /\ NamesInv' /\ SourceInv' /\ OutputsInv' /\ Kept
        /\ \A u \in Updaters : Session(u)'
        /\ \A d \in Compactors \ {c} : Compacts(d)'
    BY <1>9, <1>10, <2>1, <2>2, <2>3, <2>5, OutputChanges
  <2> QED
    BY <2>4 DEF i, f
<1>15. TypeInv' /\ LockInv' /\ PlaceInv'
  <2>1. \A d \in Compactors \ {c} : comp[d].pc # "unlocked"
    BY <1>2, NoOtherGap DEF t
  <2> QED
    BY <1>2, <1>11, <1>12, <1>13, <1>14, <2>1, CompactorFrame
<1>16. Compacts(c)'
  <2>1. Len(h.body) = 1 + RowsIn(s.ix, s.done) /\ s.done <= s.n
    <3>1. RowsIn(s.ix, s.done) = x + w
      BY <1>5, <1>12
    <3>2. (1 + x) + w = 1 + (x + w) /\ k <= f.n
      BY <1>4, <1>5
    <3> QED
      BY <1>8, <1>9, <1>12, <3>1, <3>2
  <2>2. f.rows = h.rows /\ path' = path
    BY <1>9, <1>11
  <2> QED
    BY <1>2, <1>12, <1>13, <1>14, <2>1, <2>2 DEF Compacts, ix, f
<1> QED
  BY <1>14, <1>15, <1>16 DEF PathInv, ActorsInv

LEMMA FinishCopyStep ==
  ASSUME WritersAvoidRename, PathInv, NEW c \in Compactors, FinishCopy(c)
  PROVE  PathInv'
<1> DEFINE f == file[path.src]
           t == comp[c]
           s == [t EXCEPT !.pc = "unlocked"]
           ix == Index(f.body, f.n)
<1>1. /\ f.n \in Nat \ {0} /\ f.rows \in Nat /\ f.body \in Seq(Cell) /\ Stored(f.body, f.n, f.rows)
      /\ path.src \in Inodes
  BY SourceFacts
<1>2. /\ t.pc = "copying" /\ t.fd = path.src /\ holder[path.src] = c
      /\ t \in Compaction /\ comp \in [Compactors -> Compaction]
      /\ holder \in [Inodes -> Actors \cup {None}] /\ t.dest \in {"temp", "out"}
      /\ t.n = f.n /\ t.rows = f.rows /\ t.ix = ix /\ t.done = t.n
      /\ t.dst \in Inodes /\ t.dst = path[t.dest] /\ file[t.dst].rows = f.rows
      /\ Len(file[t.dst].body) = 1 + RowsIn(ix, t.done)
  BY WorkerAlone DEF FinishCopy, AllSpliced, PathInv, TypeInv, ActorsInv, Compacts, Compaction
<1>3. CASE t.dest = "out"
  <2>1. /\ comp' = [comp EXCEPT ![c] = NoCompaction] /\ holder' = Release(path.src)
        /\ UNCHANGED <<path, file, upd, acked>>
    BY <1>2, <1>3 DEF FinishCopy
  <2> QED
    BY <1>1, <1>2, <2>1, CompactionEnds
<1>4. CASE t.dest = "temp"
  <2>1. /\ comp' = [comp EXCEPT ![c] = s] /\ holder' = Release(path.src)
        /\ UNCHANGED <<path, file, upd, acked>>
        /\ \A u \in Updaters : upd[u].pc = "idle"
        /\ \A d \in Compactors \ {c} : comp[d].pc = "idle"
    BY <1>2, <1>4 DEF FinishCopy
  <2>2. Len(file[t.dst].body) = 1 + f.rows
    <3>1. RowsIn(ix, f.n) = f.rows
      BY <1>1, RowsCounted
    <3> QED
      BY <1>2, <3>1
  <2> HIDE DEF t, f
  <2>3. /\ s \in Compaction /\ s.pc = "unlocked" /\ s.dest = "temp" /\ s.dst = t.dst
    BY <1>2, <1>4 DEF Compaction
  <2> HIDE DEF s
  <2>4. comp' \in [Compactors -> Compaction] /\ comp'[c] = s /\ \A d \in Compactors \ {c} : comp'[d] = comp[d]
    BY <1>2, <2>1, <2>3
  <2>5. Compacts(c)'
    BY <1>2, <1>4, <2>1, <2>2, <2>3, <2>4 DEF Compacts, f
  <2>6. /\ holder' \in [Inodes -> Actors \cup {None}]
        /\ \A i \in Inodes : holder'[i] # holder[i] => holder[i] \in {c, None}
    BY <1>1, <1>2, <2>1 DEF Release
  <2> QED
    BY <2>1, <2>3, <2>4, <2>5, <2>6, QuietCompaction
<1> QED
  BY <1>2, <1>3, <1>4

LEMMA RenameStep ==
  ASSUME PathInv, NEW c \in Compactors, Rename(c)
  PROVE  PathInv'
<1> DEFINE f == file[path.src]
           i == path.temp
           g == file[i]
<1>1. /\ f.rows \in Nat /\ acked = [r \in 1..f.rows |-> r] /\ acked \in Seq(Nat)
  BY SourceFacts
<1>2. /\ comp[c].pc = "unlocked" /\ comp \in [Compactors -> Compaction]
      /\ comp[c].dst = i /\ i \in Inodes /\ i # None /\ g.rows = f.rows /\ Len(g.body) = 1 + f.rows
      /\ \A u \in Updaters : upd[u].pc = "idle"
      /\ \A d \in Compactors \ {c} : comp[d].pc = "idle"
  <2>1. comp[c].pc = "unlocked" /\ comp[c].dest = "temp"
    BY DEF Rename, PathInv, PlaceInv
  <2> QED
    BY <2>1, NoneAssumption DEF PathInv, PlaceInv, ActorsInv, Compacts, TypeInv
<1>3. /\ path \in [src : Inodes, temp : Inodes \cup {None}, out : Inodes \cup {None}]
      /\ path.temp # path.out /\ g \in Contents /\ Output(g)
  BY <1>2 DEF PathInv, TypeInv, NamesInv, OutputsInv
<1>4. /\ path' = [path EXCEPT !.src = i, !.temp = None]
      /\ comp' = [comp EXCEPT ![c] = NoCompaction]
      /\ UNCHANGED <<file, holder, upd, acked>>
  BY <1>2 DEF Rename
<1>5. path' \in [src : Inodes, temp : Inodes \cup {None}, out : Inodes \cup {None}]
      /\ path'.src = i /\ path'.temp = None /\ path'.out = path.out
  BY <1>2, <1>3, <1>4
<1>6. NoCompaction \in Compaction /\ NoCompaction.pc = "idle"
  BY DEF NoCompaction, Compaction
<1>7. comp' \in [Compactors -> Compaction] /\ comp'[c] = NoCompaction
      /\ \A d \in Compactors \ {c} : comp'[d] = comp[d]
  BY <1>2, <1>4, <1>6
<1>8. TypeInv'
  BY <1>4, <1>5, <1>7 DEF PathInv, TypeInv
<1>9. NamesInv'
  BY <1>2, <1>3, <1>5 DEF NamesInv
<1>10. LockInv' /\ PlaceInv'
  BY <1>2, <1>4, <1>6, <1>7 DEF LockInv, PlaceInv
<1>11. SourceInv'
  <2> DEFINE b == g.body
             m == f.rows
  <2>1. /\ b \in Seq(Cell) /\ 1 + m <= Len(b)
        /\ \A p \in 1..(1 + m) : b[p] = IF p = 1 THEN RecHead(0, m) ELSE RowCell(p - 1)
    <3>1. b \in Seq(Cell) /\ Len(b) = 1 + m
      BY <1>2, <1>3 DEF Contents
    <3>2. \A p \in 1..Len(b) : p <= m + 1 => b[p] = IF p = 1 THEN RecHead(0, m) ELSE RowCell(p - 1)
      BY <1>2, <1>3 DEF Output
    <3> HIDE DEF b, m
    <3>3. m \in Nat
      BY <1>1 DEF m
    <3>4. \A p \in 1..(1 + m) : p \in 1..Len(b) /\ p <= m + 1
      BY <3>1, <3>3
    <3> QED
      BY <3>1, <3>2, <3>3, <3>4
  <2>2. Stored(b, 1, m)
    <3> HIDE DEF b
    <3> QED
      BY <1>1, <2>1, OneRecord
  <2>3. g.n = 1
    BY <1>3 DEF Output
  <2>4. file'[path'.src] = g
    BY <1>4, <1>5
  <2> QED
    BY <1>1, <1>2, <1>4, <2>2, <2>3, <2>4 DEF SourceInv
<1>12. OutputsInv'
  BY <1>4, <1>5 DEF PathInv, OutputsInv, Output
<1>13. ActorsInv'
  <2>1. \A u \in Updaters : Session(u)'
    BY <1>2, <1>4, WaitingStays DEF PathInv, ActorsInv
  <2>2. \A d \in Compactors \ {c} : Compacts(d)'
    BY <1>2, <1>7, WaitingStays DEF PathInv, ActorsInv
  <2>3. Compacts(c)'
    BY <1>6, <1>7 DEF Compacts
  <2> QED
    BY <2>1, <2>2, <2>3 DEF ActorsInv
<1> QED
  BY <1>8, <1>9, <1>10, <1>11, <1>12, <1>13 DEF PathInv

LEMMA CopyFailsStep ==
  ASSUME PathInv, NEW c \in Compactors, CopyFails(c)
  PROVE  PathInv' /\ Kept
<1> DEFINE dest == comp[c].dest
<1>1. /\ comp[c].pc = "copying" /\ comp[c].fd = path.src /\ holder[path.src] = c
      /\ comp \in [Compactors -> Compaction] /\ path.src \in Inodes
      /\ holder \in [Inodes -> Actors \cup {None}] /\ dest \in {"temp", "out"}
      /\ path \in [src : Inodes, temp : Inodes \cup {None}, out : Inodes \cup {None}]
  BY WorkerAlone DEF CopyFails, PathInv, TypeInv, Compaction
<1>2. /\ path' = [path EXCEPT ![dest] = None] /\ holder' = Release(path.src)
      /\ comp' = [comp EXCEPT ![c] = NoCompaction] /\ UNCHANGED <<file, upd, acked>>
  BY <1>1 DEF CopyFails
<1> HIDE DEF dest
<1>3. /\ path' \in [src : Inodes, temp : Inodes \cup {None}, out : Inodes \cup {None}]
      /\ path'.src = path.src /\ path'[dest] = None
      /\ \A nm \in {"temp", "out"} \ {dest} : path'[nm] = path[nm]
  BY <1>1, <1>2
<1>4. NoCompaction \in Compaction /\ NoCompaction.pc = "idle"
  BY DEF NoCompaction, Compaction
<1>5. comp' \in [Compactors -> Compaction] /\ comp'[c] = NoCompaction
      /\ \A d \in Compactors \ {c} : comp'[d] = comp[d]
  BY <1>1, <1>2, <1>4
<1>6. TypeInv' /\ LockInv' /\ PlaceInv'
  <2>1. /\ holder' \in [Inodes -> Actors \cup {None}]
        /\ \A i \in Inodes : holder'[i] # holder[i] => holder[i] \in {c, None}
    BY <1>1, <1>2 DEF Release
  <2>2. file' \in [Inodes -> Contents]
    BY <1>2 DEF PathInv, TypeInv
  <2> QED
    BY <1>2, <1>3, <1>4, <1>5, <2>1, <2>2, CompactorFrame
<1>7. NamesInv'
  BY <1>1, <1>3, NoneAssumption DEF PathInv, NamesInv
<1>8. SourceInv'
  BY <1>2, <1>3 DEF PathInv, SourceInv
<1>9. OutputsInv'
  <2>1. ASSUME NEW nm \in {"temp", "out"}, path'[nm] # None PROVE Output(file[path[nm]])'
    <3>1. path'[nm] = path[nm] /\ Output(file[path[nm]])
      BY <1>3, <2>1 DEF PathInv, OutputsInv
    <3> QED
      BY <1>2, <3>1 DEF Output
  <2> QED
    BY <2>1 DEF OutputsInv
<1>10. ActorsInv'
  <2>1. \A u \in Updaters : Session(u)'
    BY <1>1, <1>2, WorkerAlone, WaitingStays DEF PathInv, ActorsInv
  <2>2. \A d \in Compactors \ {c} : Compacts(d)'
    BY <1>1, <1>5, WorkerAlone, WaitingStays DEF PathInv, ActorsInv
  <2>3. Compacts(c)'
    BY <1>4, <1>5 DEF Compacts
  <2> QED
    BY <2>1, <2>2, <2>3 DEF ActorsInv
<1>11. Kept
  <2> DEFINE f == file[path.src]
  <2>1. /\ f.n <= f.n /\ f.n + f.rows <= f.n + f.rows /\ f.n + f.rows <= Len(f.body)
        /\ Len(acked) <= Len(acked')
    BY <1>2, SourceFacts
  <2>2. file'[path.src] = f
    BY <1>2
  <2>3. \A i \in Inodes \ {path.src, path.temp, path.out} : i \notin {path'.temp, path'.out}
    BY <1>1, <1>3, NoneAssumption
  <2> HIDE DEF f
  <2>4. LET g == file'[path.src] IN
        /\ f.n <= g.n /\ f.n + f.rows <= g.n + g.rows /\ f.n + f.rows <= Len(g.body)
        /\ \A p \in 1..(f.n + f.rows) : g.body[p] = f.body[p]
    BY <2>1, <2>2
  <2> QED
    BY <1>2, <1>3, <2>1, <2>3, <2>4 DEF Kept, f
<1> QED
  BY <1>6, <1>7, <1>8, <1>9, <1>10, <1>11 DEF PathInv

LEMMA CompactingStep ==
  ASSUME WritersAvoidRename, PathInv, NEW c \in Compactors, Compacting(c)
  PROVE  PathInv'
BY BeginCompactStep, LockCompactStep, CompactContendedStep, NothingToDoStep, CopyWholeStep,
   IndexSourceStep, StartOutputStep, CopyRangeStep, FinishCopyStep, RenameStep, CopyFailsStep,
   CrashCompactStep DEF Compacting

\* A step that leaves all but the readers alone.
LEMMA PathStutters ==
  ASSUME PathInv, UNCHANGED <<path, file, holder, upd, comp, acked>>
  PROVE  PathInv'
<1>1. TypeInv'
  BY DEF PathInv, TypeInv
<1>2. LockInv'
  BY DEF PathInv, LockInv
<1>3. PlaceInv'
  BY DEF PathInv, PlaceInv
<1>4. NamesInv' /\ SourceInv' /\ OutputsInv'
  BY QuietStep
<1>5. ActorsInv'
  BY QuietStep DEF ActorsInv
<1> QED
  BY <1>1, <1>2, <1>3, <1>4, <1>5 DEF PathInv

LEMMA PathStep ==
  ASSUME WritersAvoidRename, PathInv, [Next]_vars
  PROVE  PathInv'
<1>1. ASSUME NEW r \in Readers, Reading(r) PROVE PathInv'
  BY <1>1, PathStutters DEF Reading, ReadHeader, ReadIndex, MapFile, LoadRecordStats, CloseReader
<1>2. CASE UNCHANGED vars
  BY <1>2, PathStutters DEF vars
<1> QED
  BY <1>1, <1>2, UpdatingStep, CompactingStep DEF Next

------------------------------------------------------------------------------
(* What follows *)

\* As long as no writer opens the path between a compaction's unlock and its
\* rename (writer.py, compaction.py), every step keeps PathInv: the file behind
\* the path has the committed rows, whoever is at work has its lock, and an
\* output is a prefix of one record.
THEOREM PathIsKept == WritersAvoidRename => (Spec => []PathInv)
<1> SUFFICES ASSUME WritersAvoidRename PROVE Spec => []PathInv
  OBVIOUS
<1>1. Init => PathInv
  BY InitPath
<1>2. PathInv /\ [Next]_vars => PathInv'
  BY PathStep
<1> QED
  BY <1>1, <1>2, PTL DEF Spec

LEMMA PathHolds == PathInv => PathHoldsAcked
<1> SUFFICES ASSUME PathInv PROVE PathHoldsAcked
  OBVIOUS
<1> DEFINE f == file[path.src]
<1>1. /\ path.src \in Inodes /\ f.body \in Seq(Cell) /\ Stored(f.body, f.n, f.rows) /\ WalkOK(f.body, f.n)
      /\ acked = [r \in 1..f.rows |-> r] /\ Len(acked) = f.rows
  BY SourceFacts
<1>2. StoredRows(f) = [r \in 1..f.rows |-> r]
  <2>1. RowsOf(f.body, Index(f.body, f.n)) = [r \in 1..f.rows |-> r]
    BY <1>1, RowsRead
  <2> QED
    BY <2>1 DEF StoredRows
<1> QED
  BY <1>1, <1>2, NoneAssumption DEF PathHoldsAcked, Holds

\* The path always opens and holds every committed row, in order, whatever update
\* sessions (writer.py) and compactions (compaction.py) do to it at once.
THEOREM PathIsWhole == WritersAvoidRename => (Spec => []PathHoldsAcked)
<1> SUFFICES ASSUME WritersAvoidRename PROVE Spec => []PathHoldsAcked
  OBVIOUS
<1>1. Spec => []PathInv
  BY PathIsKept
<1> QED
  BY <1>1, PathHolds, PTL

\* The rows of an output, once they are all there.
LEMMA OutputRows ==
  ASSUME NEW f \in Contents, Output(f), 1 + f.rows <= Len(f.body)
  PROVE  WalkOK(f.body, f.n) /\ StoredRows(f) = [r \in 1..f.rows |-> r]
<1> DEFINE b == f.body
           m == f.rows
<1>1. b \in Seq(Cell) /\ m \in Nat /\ 1 + m <= Len(b) /\ f.n = 1
  BY DEF Contents, Output
<1>2. \A p \in 1..Len(b) : p <= m + 1 => b[p] = IF p = 1 THEN RecHead(0, m) ELSE RowCell(p - 1)
  BY DEF Output
<1> HIDE DEF b, m
<1>3. \A p \in 1..(1 + m) : p \in 1..Len(b) /\ p <= m + 1
  BY <1>1
<1>4. \A p \in 1..(1 + m) : b[p] = IF p = 1 THEN RecHead(0, m) ELSE RowCell(p - 1)
  BY <1>2, <1>3
<1>5. Stored(b, 1, m)
  BY <1>1, <1>4, OneRecord
<1>6. WalkOK(b, 1) /\ RowsOf(b, Index(b, 1)) = [r \in 1..m |-> r]
  BY <1>1, <1>5, StoredFacts, RowsRead
<1> QED
  BY <1>1, <1>6 DEF StoredRows, b, m

LEMMA CopiesHold == PathInv => CopiesWhole
<1> SUFFICES ASSUME PathInv PROVE CopiesWhole
  OBVIOUS
<1> DEFINE src == file[path.src]
<1>1. /\ src.rows \in Nat /\ src.n \in Nat /\ src.body \in Seq(Cell) /\ Stored(src.body, src.n, src.rows)
      /\ acked = [r \in 1..src.rows |-> r] /\ acked \in Seq(Nat) /\ Len(acked) = src.rows
  BY SourceFacts
<1>2. ASSUME NEW nm \in {"temp", "out"}, path[nm] # None,
             WalkOK(file[path[nm]].body, file[path[nm]].n)
      PROVE  LET f == file[path[nm]] IN Committed(StoredRows(f)) /\ f.rows = Len(StoredRows(f))
  <2> DEFINE f == file[path[nm]]
  <2>1. f \in Contents /\ Output(f)
    BY <1>2 DEF PathInv, TypeInv, OutputsInv
  <2> HIDE DEF f
  <2> DEFINE b == f.body
             m == f.rows
  <2>2. b \in Seq(Cell) /\ m \in Nat /\ f.n = 1 /\ m <= Len(acked)
    BY <2>1 DEF Contents, Output
  <2>3. b # <<>> => b[1] = RecHead(0, m)
    <3>1. b # <<>> => 1 \in 1..Len(b) /\ 1 <= m + 1
      BY <2>2
    <3> QED
      BY <2>1, <3>1 DEF Output
  <2>4. 1 + m <= Len(b)
    <3>1. WalkOK(b, 1)
      BY <1>2, <2>2 DEF f
    <3> HIDE DEF b, m
    <3> QED
      BY <2>2, <2>3, <3>1, OutputOpens
  <2>5. StoredRows(f) = [r \in 1..m |-> r]
    BY <2>1, <2>4, OutputRows
  <2> DEFINE rows == StoredRows(f)
  <2>6. rows \in Seq(Nat) /\ Len(rows) = m
    BY <2>2, <2>5
  <2> DEFINE old == SubSeq(acked, 1, m)
             a == acked
  <2>7. a \in Seq(Nat) /\ m \in 0..Len(a) /\ \A r \in 1..m : a[r] = r
    BY <1>1, <2>2
  <2> HIDE DEF m, rows, a
  <2>8. SubSeq(a, 1, m) = [r \in 1..m |-> r]
    <3>1. SubSeq(a, 1, m) = [r \in 1..m |-> a[r]]
      BY <2>7
    <3> QED
      BY <2>7, <3>1
  <2>9. Committed(rows)
    BY <2>2, <2>5, <2>6, <2>8 DEF Committed, a, rows
  <2> QED
    BY <2>6, <2>9 DEF f, m, rows
<1>3. ASSUME NEW c \in Compactors, comp[c].pc = "copying", comp[c].done = comp[c].n
      PROVE  Holds(comp[c].dst, acked)
  <2> DEFINE i == comp[c].dst
             f == file[i]
  <2>1. /\ i \in Inodes /\ i = path[comp[c].dest] /\ comp[c].dest \in {"temp", "out"}
        /\ f.rows = src.rows /\ Len(f.body) = 1 + RowsIn(comp[c].ix, comp[c].done)
        /\ comp[c].ix = Index(src.body, src.n) /\ comp[c].n = src.n
    BY <1>3 DEF PathInv, TypeInv, ActorsInv, Compacts, Compaction
  <2>2. i # None
    BY <2>1, NoneAssumption
  <2>3. f \in Contents /\ Output(f)
    BY <2>1, <2>2 DEF PathInv, TypeInv, OutputsInv
  <2>4. RowsIn(Index(src.body, src.n), src.n) = src.rows
    BY <1>1, RowsCounted
  <2> HIDE DEF i, src, f
  <2>5. Len(f.body) = 1 + f.rows /\ f.rows \in Nat
    BY <1>1, <1>3, <2>1, <2>4
  <2>6. 1 + f.rows <= Len(f.body)
    BY <2>5
  <2>7. WalkOK(f.body, f.n) /\ StoredRows(f) = [r \in 1..f.rows |-> r]
    BY <2>3, <2>6, OutputRows
  <2>8. StoredRows(f) = acked /\ f.rows = Len(acked)
    BY <1>1, <2>1, <2>7
  <2> QED
    BY <2>2, <2>7, <2>8 DEF Holds, f, i
<1> QED
  BY <1>2, <1>3 DEF CopiesWhole

\* An output that opens has a committed state and all of it, however its
\* compaction ended (compaction.py): the counters written before the data never
\* vouch for rows that are missing.
THEOREM OutputsAreWhole == WritersAvoidRename => (Spec => []CopiesWhole)
<1> SUFFICES ASSUME WritersAvoidRename PROVE Spec => []CopiesWhole
  OBVIOUS
<1>1. Spec => []PathInv
  BY PathIsKept
<1> QED
  BY <1>1, CopiesHold, PTL

------------------------------------------------------------------------------
(* Readers: what they read stays in the file they mapped, which every step    *)
(* but a rename keeps as committed (Kept); ReadersInv ties the two.           *)

\* A step that changes no name, no file and no history keeps what readers need.
LEMMA QuietKeeps ==
  ASSUME PathInv, UNCHANGED <<path, file, acked>>
  PROVE  Kept
<1> DEFINE f == file[path.src]
<1>1. /\ f.n <= f.n /\ f.n + f.rows <= f.n + f.rows /\ f.n + f.rows <= Len(f.body)
      /\ Len(acked) <= Len(acked)
  BY SourceFacts
<1>2. file'[path.src] = f /\ path' = path /\ file' = file /\ acked' = acked
  OBVIOUS
<1>3. /\ path'.src = path.src
      /\ \A i \in Inodes \ {path.src, path.temp, path.out} :
           file'[i] = file[i] /\ i \notin {path'.temp, path'.out}
  BY <1>2
<1> HIDE DEF f
<1>4. LET g == file'[path.src] IN
      /\ f.n <= g.n /\ f.n + f.rows <= g.n + g.rows /\ f.n + f.rows <= Len(g.body)
      /\ \A p \in 1..(f.n + f.rows) : g.body[p] = f.body[p]
  BY <1>1, <1>2
<1> QED
  BY <1>1, <1>2, <1>3, <1>4 DEF Kept, f

\* A session, and a compaction until it renames, keep what readers need.
LEMMA UpdatingKeeps ==
  ASSUME PathInv, NEW u \in Updaters, Updating(u)
  PROVE  Kept /\ rd' = rd
<1>1. CASE OpenUpdate(u) \/ LockUpdate(u) \/ UpdateContended(u) \/ LoseUpdate(u)
  BY <1>1, QuietKeeps DEF OpenUpdate, LockUpdate, UpdateContended, LoseUpdate
<1>2. CASE LoadUpdate(u)
  BY <1>2, LoadUpdateStep DEF LoadUpdate
<1>3. CASE Write(u)
  BY <1>3, WriteStep DEF Write
<1>4. CASE WriteFooter(u)
  BY <1>4, WriteFooterStep DEF WriteFooter
<1>5. CASE CommitUpdate(u)
  BY <1>5, CommitUpdateStep DEF CommitUpdate
<1> QED
  BY <1>1, <1>2, <1>3, <1>4, <1>5 DEF Updating

LEMMA CompactingKeeps ==
  ASSUME PathInv, NEW c \in Compactors, Compacting(c)
  PROVE  (Kept \/ Rename(c)) /\ rd' = rd
<1>1. CASE BeginCompact(c) \/ LockCompact(c) \/ CompactContended(c) \/ NothingToDo(c)
           \/ FinishCopy(c) \/ CrashCompact(c)
  BY <1>1, QuietKeeps DEF BeginCompact, LockCompact, CompactContended, NothingToDo, FinishCopy,
                          CrashCompact
<1>2. CASE IndexSource(c)
  BY <1>2, QuietKeeps DEF IndexSource
<1>3. CASE CopyWhole(c)
  BY <1>3, CopyWholeStep DEF CopyWhole
<1>4. CASE StartOutput(c)
  BY <1>4, StartOutputStep DEF StartOutput
<1>5. CASE CopyRange(c)
  BY <1>5, CopyRangeStep DEF CopyRange
<1>6. CASE CopyFails(c)
  BY <1>6, CopyFailsStep DEF CopyFails
<1>7. CASE Rename(c)
  BY <1>7 DEF Rename
<1> QED
  BY <1>1, <1>2, <1>3, <1>4, <1>5, <1>6, <1>7 DEF Compacting

\* What a reader that is not idle has, with the types.
LEMMA ReaderFacts ==
  ASSUME PathInv, ReadersInv, NEW r \in Readers, rd[r].pc # "idle"
  PROVE  LET s == rd[r]  f == file[Behind(r)] IN
         /\ s \in Reader /\ Behind(r) \in Inodes \ {path.temp, path.out}
         /\ f \in Contents /\ f.body \in Seq(Cell)
         /\ s.n \in Nat \ {0} /\ s.rows \in Nat /\ s.low \in Nat
         /\ Stored(f.body, s.n, s.rows) /\ s.n + s.rows <= Len(f.body)
         /\ Behind(r) = path.src => s.n <= f.n /\ s.n + s.rows <= f.n + f.rows
         /\ s.low <= s.rows /\ s.rows <= Len(acked)
         /\ s.pc # "header" => s.ix = Index(f.body, s.n)
         /\ s.pc # "open" => s.entries = <<>>
<1> DEFINE s == rd[r]
           i == Behind(r)
           b == file[i].body
<1>1. s \in Reader /\ Reads(r)
  BY DEF ReadersInv
<1>2. i \in Inodes \ {path.temp, path.out} /\ Stored(b, s.n, s.rows)
  BY <1>1 DEF Reads
<1>3. file[i] \in Contents /\ b \in Seq(Cell)
  BY <1>2 DEF PathInv, TypeInv, Contents
<1>4. s.n \in Nat \ {0} /\ s.rows \in Nat /\ s.n + s.rows <= Len(b)
  <2> HIDE DEF b
  <2> QED
    BY <1>2, <1>3, StoredFacts
<1>5. s.low \in Nat
  BY <1>1 DEF Reader
<1> QED
  BY <1>1, <1>2, <1>3, <1>4, <1>5 DEF Reads

\* A step that keeps the committed cells keeps what readers have of them.
LEMMA ReadersKeep ==
  ASSUME PathInv, PathInv', ReadersInv, Kept, rd' = rd
  PROVE  ReadersInv'
<1> SUFFICES ASSUME NEW r \in Readers, rd[r].pc # "idle" PROVE Reads(r)'
  BY DEF ReadersInv, Reads
<1> DEFINE s == rd[r]
           i == Behind(r)
           f == file[i]
           g == file'[i]
<1>1. /\ i \in Inodes \ {path.temp, path.out} /\ f.body \in Seq(Cell)
      /\ s.n \in Nat \ {0} /\ s.rows \in Nat /\ s.low \in Nat
      /\ Stored(f.body, s.n, s.rows)
      /\ i = path.src => s.n <= f.n /\ s.n + s.rows <= f.n + f.rows
      /\ s.low <= s.rows /\ s.rows <= Len(acked)
      /\ s.pc # "header" => s.ix = Index(f.body, s.n)
      /\ s.pc # "open" => s.entries = <<>>
  BY ReaderFacts
<1>2. path'.src = path.src /\ Behind(r)' = i /\ rd'[r] = s /\ file'[Behind(r)'] = g
  BY DEF Kept, Behind
<1>3. s.rows <= Len(acked')
  <2>1. Len(acked) <= Len(acked') /\ acked \in Seq(Nat) /\ acked' \in Seq(Nat)
    BY DEF Kept, PathInv, TypeInv
  <2> DEFINE x == Len(acked)
             y == Len(acked')
  <2>2. x \in Nat /\ y \in Nat /\ x <= y /\ s.rows <= x
    BY <1>1, <2>1
  <2> HIDE DEF x, y, s
  <2>3. s.rows <= y
    BY <1>1, <2>2
  <2> QED
    BY <2>3 DEF y
<1>4. CASE i = path.src
  <2>1. i \notin {path'.temp, path'.out}
    BY <1>2, <1>4 DEF PathInv, NamesInv
  <2>2. /\ f.n <= g.n /\ f.n + f.rows <= g.n + g.rows /\ f.n + f.rows <= Len(g.body)
        /\ \A p \in 1..(f.n + f.rows) : g.body[p] = f.body[p]
    BY <1>4 DEF Kept
  <2>3. f.n \in Nat /\ f.rows \in Nat /\ g.n \in Nat /\ g.rows \in Nat /\ g.body \in Seq(Cell)
    <3>1. f \in Contents /\ g \in Contents
      BY <1>1 DEF PathInv, TypeInv
    <3> QED
      BY <3>1 DEF Contents
  <2> DEFINE z == f.n + f.rows
             l == Len(g.body)
             w == s.n + s.rows
  <2>4. z \in Nat /\ l \in Nat /\ w \in Nat /\ w <= z /\ z <= l
    <3>1. z \in Nat /\ l \in Nat
      BY <2>3
    <3>2. w \in Nat /\ w <= z
      <4> HIDE DEF f, s, g, i
      <4> QED
        BY <1>1, <1>4
    <3> QED
      BY <2>2, <3>1, <3>2
  <2>5. w <= l /\ \A p \in 1..w : p \in 1..z
    <3> HIDE DEF z, l, w
    <3> QED
      BY <2>4
  <2>6. s.n + s.rows <= Len(g.body) /\ \A p \in 1..(s.n + s.rows) : g.body[p] = f.body[p]
    BY <2>2, <2>5
  <2>7. Stored(g.body, s.n, s.rows) /\ Index(g.body, s.n) = Index(f.body, s.n)
    <3> HIDE DEF f, g, s
    <3> QED
      BY SMTT(40), <1>1, <2>3, <2>6, StaysStored
  <2>8. s.n <= g.n /\ s.n + s.rows <= g.n + g.rows
    <3>1. s.n <= f.n /\ w <= z /\ z <= g.n + g.rows
      BY <1>1, <1>4, <2>2
    <3> HIDE DEF f, g, s
    <3> QED
      BY <1>1, <2>2, <2>3, <3>1, SMTT(40) DEF w, z
  <2> HIDE DEF f, g, s, i
  <2> QED
    BY <1>1, <1>2, <1>3, <2>1, <2>7, <2>8 DEF Reads
<1>5. CASE i # path.src
  <2>1. s.pc = "open" /\ s.map = i
    BY <1>5 DEF Behind
  <2>2. g = f /\ i \notin {path'.temp, path'.out}
    BY <1>1, <1>5, <2>1 DEF Kept, Unused
  <2> HIDE DEF f, g, s, i
  <2> QED
    BY <1>1, <1>2, <1>3, <1>5, <2>2 DEF Reads
<1> QED
  BY <1>4, <1>5

\* A rename puts another file behind the path; readers keep the one they mapped.
LEMMA ReadersRenamed ==
  ASSUME ReadersAvoidRename, PathInv, ReadersInv, NEW c \in Compactors, Rename(c)
  PROVE  ReadersInv'
<1> SUFFICES ASSUME NEW r \in Readers, rd[r].pc # "idle" PROVE Reads(r)'
  BY DEF ReadersInv, Reads, Rename
<1> DEFINE s == rd[r]
           i == s.map
<1>1. s.pc = "open" /\ Behind(r) = i /\ Reads(r)
  BY DEF Rename, Behind, ReadersInv
<1>2. /\ i \in Inodes \ {path.temp, path.out}
      /\ Stored(file[i].body, s.n, s.rows)
      /\ s.low <= s.rows /\ s.rows <= Len(acked)
      /\ s.ix = Index(file[i].body, s.n)
  BY <1>1 DEF Reads
<1>3. /\ rd' = rd /\ file' = file /\ acked' = acked
      /\ path' = [path EXCEPT !.src = path.temp, !.temp = None]
  <2>1. comp[c].pc = "unlocked" /\ comp[c].dest = "temp"
    BY DEF Rename, PathInv, PlaceInv
  <2>2. path.temp # None
    BY <2>1, NoneAssumption DEF PathInv, ActorsInv, Compacts
  <2> QED
    BY <2>2 DEF Rename
<1>4. path'.src = path.temp /\ path'.temp = None /\ path'.out = path.out
  BY <1>3 DEF PathInv, TypeInv
<1>5. i \notin {path'.temp, path'.out} /\ i # path'.src /\ Behind(r)' = i /\ rd'[r] = s
  BY <1>1, <1>2, <1>3, <1>4, NoneAssumption DEF Behind
<1> HIDE DEF s, i
<1> QED
  BY <1>1, <1>2, <1>3, <1>5 DEF Reads

\* A step of one reader that is right for that reader.
LEMMA OneReader ==
  ASSUME ReadersInv, NEW r \in Readers, UNCHANGED <<path, file, acked>>,
         NEW t \in Reader, rd' = [rd EXCEPT ![r] = t], Reads(r)'
  PROVE  ReadersInv'
<1>1. rd' \in [Readers -> Reader] /\ \A q \in Readers \ {r} : rd'[q] = rd[q]
  BY DEF ReadersInv
<1>2. \A q \in Readers \ {r} : Reads(q)'
  BY <1>1 DEF ReadersInv, Reads, Behind
<1> QED
  BY <1>1, <1>2 DEF ReadersInv

LEMMA ReadHeaderStep ==
  ASSUME PathInv, ReadersInv, NEW r \in Readers, ReadHeader(r)
  PROVE  ReadersInv'
<1> DEFINE f == file[path.src]
           t == [NoReader EXCEPT !.pc = "header", !.n = f.n, !.rows = f.rows, !.stats = f.stats,
                                 !.low = Len(acked)]
<1>1. /\ f.n \in Nat \ {0} /\ f.rows \in Nat /\ f.stats \in Nat /\ path.src \in Inodes
      /\ Stored(f.body, f.n, f.rows) /\ Len(acked) = f.rows
  BY SourceFacts
<1>2. path.src \notin {path.temp, path.out}
  BY DEF PathInv, NamesInv
<1>3. rd' = [rd EXCEPT ![r] = t] /\ UNCHANGED <<path, file, acked>>
  BY DEF ReadHeader
<1>4. /\ t \in Reader /\ t.pc = "header" /\ t.n = f.n /\ t.rows = f.rows /\ t.low = f.rows
      /\ t.entries = <<>>
  <2> DEFINE x == f.n
             y == f.rows
             z == f.stats
  <2>1. t = [NoReader EXCEPT !.pc = "header", !.n = x, !.rows = y, !.stats = z, !.low = y]
    BY <1>1
  <2>2. x \in Nat /\ y \in Nat /\ z \in Nat
    BY <1>1
  <2> HIDE DEF x, y, z, t
  <2>3. /\ t.pc = "header" /\ t.n = x /\ t.rows = y /\ t.low = y /\ t.entries = <<>>
        /\ t = [pc |-> "header", n |-> x, rows |-> y, stats |-> z, ix |-> <<>>, map |-> None,
                entries |-> <<>>, low |-> y]
    BY <2>1 DEF NoReader
  <2>4. <<>> \in Seq(Extents) /\ <<>> \in Seq(SUBSET Nat)
    OBVIOUS
  <2>5. t \in Reader
    BY <2>2, <2>3, <2>4 DEF Reader
  <2> QED
    BY <2>3, <2>5 DEF x, y
<1> HIDE DEF t
<1>5. rd'[r] = t
  BY <1>3 DEF ReadersInv
<1>6. Behind(r)' = path.src /\ file'[Behind(r)'] = f
  BY <1>3, <1>4, <1>5 DEF Behind
<1> HIDE DEF f
<1>7. Reads(r)'
  <2>1. f.n <= f.n /\ f.n + f.rows <= f.n + f.rows /\ f.rows <= f.rows
    BY <1>1
  <2> DEFINE i == path.src
  <2>2. /\ i \in Inodes \ {path'.temp, path'.out} /\ path'.src = i
        /\ rd'[r].pc = "header" /\ rd'[r].n = f.n /\ rd'[r].rows = f.rows /\ rd'[r].low = f.rows
        /\ rd'[r].entries = <<>> /\ f.rows <= Len(acked')
    BY <1>1, <1>2, <1>3, <1>4, <1>5, <2>1
  <2> QED
    BY <1>1, <1>6, <2>1, <2>2 DEF Reads
<1> QED
  BY <1>3, <1>4, <1>7, OneReader

LEMMA ReadIndexStep ==
  ASSUME PathInv, ReadersInv, NEW r \in Readers, ReadIndex(r)
  PROVE  ReadersInv'
<1> DEFINE s == rd[r]
           i == path.src
           b == file[i].body
           ix == Index(b, s.n)
           t == [s EXCEPT !.pc = "index", !.ix = ix]
<1>1. s.pc = "header" /\ Behind(r) = i /\ UNCHANGED <<path, file, acked>>
  BY DEF ReadIndex, Behind
<1>2. /\ s \in Reader /\ i \in Inodes \ {path.temp, path.out} /\ b \in Seq(Cell)
      /\ s.n \in Nat \ {0} /\ Stored(b, s.n, s.rows)
      /\ s.n <= file[i].n /\ s.n + s.rows <= file[i].n + file[i].rows
      /\ s.low <= s.rows /\ s.rows <= Len(acked) /\ s.entries = <<>>
  BY <1>1, ReaderFacts
<1>3. WalkOK(b, s.n) /\ ix \in Seq(Extents)
  <2> HIDE DEF b, s
  <2> QED
    BY <1>2, StoredFacts
<1>4. rd' = [rd EXCEPT ![r] = t]
  BY <1>2, <1>3 DEF ReadIndex
<1> HIDE DEF ix
<1>5. /\ t \in Reader /\ t.pc = "index" /\ t.n = s.n /\ t.rows = s.rows /\ t.low = s.low
      /\ t.entries = <<>> /\ t.ix = ix
  BY <1>2, <1>3 DEF Reader
<1> HIDE DEF t
<1>6. rd'[r] = t
  BY <1>4 DEF ReadersInv
<1>7. Behind(r)' = i /\ file'[Behind(r)'] = file[i]
  BY <1>1, <1>5, <1>6 DEF Behind
<1>8. Reads(r)'
  <2> HIDE DEF s
  <2> QED
    BY <1>1, <1>2, <1>5, <1>6, <1>7 DEF Reads, ix
<1> QED
  BY <1>1, <1>4, <1>5, <1>8, OneReader

\* Of a single record the header's row count is the record's.
LEMMA SingleExtent ==
  ASSUME NEW b \in Seq(Cell), NEW n, NEW m, Stored(b, n, m), n = 1
  PROVE  LET ix == Index(b, n) IN
         /\ Len(ix) = 1 /\ ix[1].at = 2 /\ ix[1].rows = m
         /\ <<[ix[1] EXCEPT !.rows = m]>> = ix
<1> DEFINE ix == Index(b, n)
           e == ix[1]
<1>1. ix \in Seq(Extents) /\ Len(ix) = 1 /\ m \in Nat
  BY StoredFacts
<1>2. e \in Extents /\ e.at \in Nat /\ e.rows \in Nat
  BY <1>1, ExtentParts
<1>3. e.at = 2 /\ e.at + e.rows = 1 + m + 1
  BY <1>1 DEF Stored, Laid
<1> HIDE DEF e
<1>4. e.rows = m
  BY <1>1, <1>2, <1>3
<1>5. [e EXCEPT !.rows = m] = e
  BY <1>2, <1>4 DEF Extents
<1>6. <<e>> = ix
  <2>1. e = ix[1]
    BY DEF e
  <2> HIDE DEF ix
  <2> QED
    BY <1>1, <2>1
<1> QED
  BY <1>1, <1>3, <1>4, <1>5, <1>6 DEF e

LEMMA MapFileStep ==
  ASSUME PathInv, ReadersInv, NEW r \in Readers, MapFile(r)
  PROVE  ReadersInv'
<1> DEFINE s == rd[r]
           i == path.src
           b == file[i].body
           t == [s EXCEPT !.pc = "open", !.map = i, !.ix = s.ix]
<1>1. s.pc = "index" /\ Behind(r) = i /\ UNCHANGED <<path, file, acked>>
  BY DEF MapFile, Behind
<1>2. /\ s \in Reader /\ i \in Inodes \ {path.temp, path.out} /\ b \in Seq(Cell)
      /\ s.n \in Nat \ {0} /\ s.rows \in Nat /\ Stored(b, s.n, s.rows) /\ s.n + s.rows <= Len(b)
      /\ s.n <= file[i].n /\ s.n + s.rows <= file[i].n + file[i].rows
      /\ s.low <= s.rows /\ s.rows <= Len(acked) /\ s.entries = <<>> /\ s.ix = Index(b, s.n)
  BY <1>1, ReaderFacts
<1>3. Extent(s) = s.ix /\ (s.n = 1 => s.ix[1].at = 2 /\ s.ix[1].rows = s.rows)
  <2>1. CASE s.n = 1
    <3> HIDE DEF b, s
    <3>1. LET ix == Index(b, s.n) IN
          /\ Len(ix) = 1 /\ ix[1].at = 2 /\ ix[1].rows = s.rows
          /\ <<[ix[1] EXCEPT !.rows = s.rows]>> = ix
      BY <1>2, <2>1, SingleExtent
    <3> QED
      BY <1>2, <2>1, <3>1 DEF Extent
  <2>2. CASE s.n # 1
    BY <2>2 DEF Extent
  <2> QED
    BY <2>1, <2>2
<1>4. s.n > 1 \/ s.ix[1].at + s.ix[1].rows - 1 <= Len(b)
  <2> HIDE DEF b, s
  <2>1. CASE s.n = 1
    <3>1. s.ix[1].at + s.ix[1].rows - 1 = s.n + s.rows
      BY <1>2, <1>3, <2>1
    <3> QED
      BY <1>2, <3>1
  <2> QED
    BY <1>2, <2>1
<1>5. rd' = [rd EXCEPT ![r] = t]
  BY <1>3, <1>4 DEF MapFile
<1>6. /\ t \in Reader /\ t.pc = "open" /\ t.n = s.n /\ t.rows = s.rows /\ t.low = s.low
      /\ t.entries = <<>> /\ t.ix = s.ix /\ t.map = i
  <2>1. s.ix \in Seq(Extents)
    BY <1>2 DEF Reader
  <2> HIDE DEF b
  <2> QED
    BY <1>2, <2>1 DEF Reader
<1> HIDE DEF t
<1>7. rd'[r] = t
  BY <1>5 DEF ReadersInv
<1>8. Behind(r)' = i /\ file'[Behind(r)'] = file[i]
  BY <1>1, <1>6, <1>7 DEF Behind
<1>9. Reads(r)'
  <2> HIDE DEF s
  <2> QED
    BY <1>1, <1>2, <1>6, <1>7, <1>8 DEF Reads
<1> QED
  BY <1>1, <1>5, <1>6, <1>9, OneReader

LEMMA FooterType ==
  ASSUME NEW f \in Contents, NEW at \in Nat
  PROVE  FooterAt(f, at) \in Seq(SUBSET Nat)
<1>1. f.body \in Seq(Cell)
  BY DEF Contents
<1>2. CASE HasFooter(f, at)
  <2>1. at \in 1..Len(f.body) /\ f.body[at].kind = "foot"
    BY <1>1, <1>2 DEF HasFooter
  <2>2. f.body[at].entries \in Seq(SUBSET Nat)
    BY <1>1, <2>1, FootCell
  <2> QED
    BY <1>2, <2>2 DEF FooterAt
<1>3. CASE ~HasFooter(f, at)
  BY <1>3 DEF FooterAt
<1> QED
  BY <1>2, <1>3

LEMMA LoadRecordStatsStep ==
  ASSUME PathInv, ReadersInv, NEW r \in Readers, LoadRecordStats(r)
  PROVE  ReadersInv'
<1> DEFINE s == rd[r]
           e == FooterAt(file[path.src], s.stats)
           t == [s EXCEPT !.entries = e, !.stats = 0]
<1>1. s.pc = "open" /\ s \in Reader /\ Reads(r) /\ UNCHANGED <<path, file, acked>>
  BY DEF LoadRecordStats, ReadersInv
<1>2. e \in Seq(SUBSET Nat)
  <2>1. s.stats \in Nat /\ file[path.src] \in Contents
    BY <1>1, SourceFacts DEF Reader
  <2> QED
    BY <2>1, FooterType
<1>3. rd' = [rd EXCEPT ![r] = t]
  BY <1>1 DEF LoadRecordStats, ReadersInv
<1> HIDE DEF e
<1>4. /\ t \in Reader /\ t.pc = "open" /\ t.n = s.n /\ t.rows = s.rows /\ t.low = s.low
      /\ t.ix = s.ix /\ t.map = s.map
  BY <1>1, <1>2 DEF Reader
<1> HIDE DEF t
<1>5. rd'[r] = t
  BY <1>3 DEF ReadersInv
<1>6. Behind(r)' = s.map /\ Behind(r) = s.map
  BY <1>1, <1>4, <1>5 DEF Behind
<1>7. Reads(r)'
  <2> HIDE DEF s
  <2>1. /\ rd[r].pc = "open" /\ rd[r].n = s.n /\ rd[r].rows = s.rows /\ rd[r].low = s.low
        /\ rd[r].ix = s.ix
    BY <1>1 DEF s
  <2> QED
    BY <1>1, <1>4, <1>5, <1>6, <2>1 DEF Reads
<1> QED
  BY <1>1, <1>3, <1>4, <1>7, OneReader

LEMMA CloseReaderStep ==
  ASSUME ReadersInv, NEW r \in Readers, CloseReader(r)
  PROVE  ReadersInv'
<1>1. NoReader \in Reader /\ NoReader.pc = "idle" /\ NoReader.entries = <<>>
  BY DEF NoReader, Reader
<1>2. rd' = [rd EXCEPT ![r] = NoReader] /\ UNCHANGED <<path, file, acked>> /\ rd'[r] = NoReader
  BY DEF CloseReader, ReadersInv
<1>3. Reads(r)'
  BY <1>1, <1>2 DEF Reads
<1> QED
  BY <1>1, <1>2, <1>3, OneReader

LEMMA InitReaders == Init => ReadersInv
<1>1. NoReader \in Reader /\ NoReader.pc = "idle" /\ NoReader.entries = <<>>
  BY DEF NoReader, Reader
<1> QED
  BY <1>1 DEF Init, ReadersInv, Reads

LEMMA ReadersStep ==
  ASSUME ReadersAvoidRename, PathInv, PathInv', ReadersInv, [Next]_vars
  PROVE  ReadersInv'
<1>1. ASSUME NEW u \in Updaters, Updating(u) PROVE ReadersInv'
  BY <1>1, UpdatingKeeps, ReadersKeep
<1>2. ASSUME NEW c \in Compactors, Compacting(c) PROVE ReadersInv'
  BY <1>2, CompactingKeeps, ReadersKeep, ReadersRenamed
<1>3. ASSUME NEW r \in Readers, Reading(r) PROVE ReadersInv'
  BY <1>3, ReadHeaderStep, ReadIndexStep, MapFileStep, LoadRecordStatsStep, CloseReaderStep DEF Reading
<1>4. CASE UNCHANGED vars
  BY <1>4 DEF vars, ReadersInv, Reads, Behind
<1> QED
  BY <1>1, <1>2, <1>3, <1>4 DEF Next

------------------------------------------------------------------------------
(* What follows *)

\* As long as no reader is between its opens of the path when a compaction renames,
\* every step keeps ReadersInv: what a reader read of the path still describes the
\* committed records of the file it has mapped (reader.py).
THEOREM ReadersAreKept ==
  WritersAvoidRename /\ ReadersAvoidRename => (Spec => []ReadersInv)
<1> SUFFICES ASSUME WritersAvoidRename, ReadersAvoidRename PROVE Spec => []ReadersInv
  OBVIOUS
<1>1. Init => ReadersInv
  BY InitReaders
<1>2. PathInv /\ PathInv' /\ ReadersInv /\ [Next]_vars => ReadersInv'
  BY ReadersStep
<1>3. Spec => []PathInv
  BY PathIsKept
<1> QED
  BY <1>1, <1>2, <1>3, PTL DEF Spec

\* What an open reader returns.
LEMMA OpenReads ==
  ASSUME PathInv, ReadersInv, NEW r \in Readers, rd[r].pc = "open"
  PROVE  FlattenSeq(ReadRecords(r)) = [k \in 1..rd[r].rows |-> k]
<1> DEFINE s == rd[r]
           b == file[s.map].body
<1>1. b \in Seq(Cell) /\ Stored(b, s.n, s.rows) /\ s.ix = Index(b, s.n)
  BY ReaderFacts DEF Behind
<1>2. ReadRecords(r) = [k \in 1..Len(s.ix) |-> RowsAt(b, s.ix[k])]
  BY DEF ReadRecords, Cells
<1> HIDE DEF b, s
<1>3. RowsOf(b, Index(b, s.n)) = [k \in 1..s.rows |-> k]
  BY <1>1, RowsRead
<1> QED
  BY <1>1, <1>2, <1>3 DEF RowsOf, s

LEMMA SnapshotHolds == PathInv /\ ReadersInv => ReaderSnapshot
<1> SUFFICES ASSUME PathInv, ReadersInv, NEW r \in Readers
             PROVE  /\ rd[r].pc # "failed"
                    /\ rd[r].pc = "open" =>
                         LET rows == FlattenSeq(ReadRecords(r)) IN
                         Committed(rows) /\ rd[r].low <= Len(rows)
  BY DEF ReaderSnapshot
<1>1. rd[r].pc # "failed"
  BY DEF ReadersInv, Reader
<1>2. ASSUME rd[r].pc = "open"
      PROVE  LET rows == FlattenSeq(ReadRecords(r)) IN Committed(rows) /\ rd[r].low <= Len(rows)
  <2> DEFINE m == rd[r].rows
             z == Len(acked)
             rows == FlattenSeq(ReadRecords(r))
  <2>1. m \in Nat /\ z \in Nat /\ m <= z /\ rd[r].low <= m /\ acked = [k \in 1..z |-> k]
    BY <1>2, ReaderFacts, SourceFacts
  <2>2. rows = [k \in 1..m |-> k]
    BY <1>2, OpenReads
  <2> HIDE DEF m, z, rows
  <2>3. Len(rows) = m /\ SubSeq(acked, 1, m) = [k \in 1..m |-> k]
    BY <2>1, <2>2
  <2> QED
    BY <2>1, <2>2, <2>3 DEF Committed, z, rows
<1> QED
  BY <1>1, <1>2

\* Sessions and compactions at work do not keep a reader from opening, and an open
\* reader returns the rows of one committed state, no older than its open.
THEOREM ReadersHaveOneState ==
  WritersAvoidRename /\ ReadersAvoidRename => (Spec => []ReaderSnapshot)
<1> SUFFICES ASSUME WritersAvoidRename, ReadersAvoidRename PROVE Spec => []ReaderSnapshot
  OBVIOUS
<1>1. Spec => []PathInv
  BY PathIsKept
<1>2. Spec => []ReadersInv
  BY ReadersAreKept
<1> QED
  BY <1>1, <1>2, SnapshotHolds, PTL

\* A reader that stays open keeps its file and its index.
LEMMA OpenStays ==
  ASSUME PathInv, ReadersInv, [Next]_vars, NEW r \in Readers, rd[r].pc = "open", rd'[r].pc = "open"
  PROVE  rd'[r].map = rd[r].map /\ rd'[r].ix = rd[r].ix /\ rd'[r].n = rd[r].n
         /\ rd'[r].rows = rd[r].rows
<1>1. rd \in [Readers -> Reader] /\ rd[r] \in Reader
  BY DEF ReadersInv
<1>2. ASSUME NEW u \in Updaters, Updating(u) PROVE rd' = rd
  BY <1>2, UpdatingKeeps
<1>3. ASSUME NEW c \in Compactors, Compacting(c) PROVE rd' = rd
  BY <1>3, CompactingKeeps
<1>4. ASSUME NEW q \in Readers, Reading(q)
      PROVE  rd'[r].map = rd[r].map /\ rd'[r].ix = rd[r].ix /\ rd'[r].n = rd[r].n
             /\ rd'[r].rows = rd[r].rows
  <2>1. CASE q # r
    BY <1>1, <1>4, <2>1 DEF Reading, ReadHeader, ReadIndex, MapFile, LoadRecordStats, CloseReader
  <2>2. CASE q = r
    <3>1. CASE LoadRecordStats(r)
      <4>1. rd'[r] = [rd[r] EXCEPT !.entries = FooterAt(file[path.src], rd[r].stats), !.stats = 0]
        BY <1>1, <3>1 DEF LoadRecordStats
      <4> QED
        BY <1>1, <4>1 DEF Reader
    <3>2. CASE CloseReader(r)
      <4>1. rd'[r].pc = "idle"
        BY <1>1, <3>2 DEF CloseReader, NoReader
      <4> QED
        BY <4>1
    <3> QED
      BY <1>4, <2>2, <3>1, <3>2 DEF Reading, ReadHeader, ReadIndex, MapFile
  <2> QED
    BY <2>1, <2>2
<1>5. CASE UNCHANGED vars
  BY <1>5 DEF vars
<1> QED
  BY <1>2, <1>3, <1>4, <1>5 DEF Next

LEMMA MappedStep ==
  ASSUME PathInv, PathInv', ReadersInv, ReadersInv', [Next]_vars,
         NEW r \in Readers, rd[r].pc = "open", rd'[r].pc = "open"
  PROVE  ReadRecords(r)' = ReadRecords(r)
<1> DEFINE s == rd[r]
           b == file[s.map].body
           g == file'[s.map].body
           n == s.n
           m == s.rows
           ix == s.ix
<1>1. rd'[r].map = s.map /\ rd'[r].ix = ix /\ rd'[r].n = n /\ rd'[r].rows = m
  BY OpenStays
<1>2. b \in Seq(Cell) /\ Stored(b, n, m) /\ ix = Index(b, n)
  BY ReaderFacts DEF Behind
<1>3. g \in Seq(Cell) /\ Stored(g, n, m) /\ ix = Index(g, n)
  <2>1. Reads(r)'
    BY DEF ReadersInv
  <2>2. Behind(r)' = s.map
    BY <1>1 DEF Behind
  <2>3. file' \in [Inodes -> Contents] /\ s.map \in Inodes
    BY <2>1, <2>2 DEF Reads, PathInv, TypeInv
  <2>4. g \in Seq(Cell)
    BY <2>3 DEF Contents
  <2> QED
    BY <1>1, <2>1, <2>2, <2>4 DEF Reads
<1>4. ReadRecords(r) = [k \in 1..Len(ix) |-> RowsAt(b, ix[k])]
  BY DEF ReadRecords, Cells
<1>5. ReadRecords(r)' = [k \in 1..Len(ix) |-> RowsAt(g, ix[k])]
  BY <1>1 DEF ReadRecords, Cells
<1> HIDE DEF s, b, g, n, m, ix
<1>6. Len(ix) = n
  BY <1>2, StoredFacts
<1>7. ASSUME NEW k \in 1..n PROVE RowsAt(b, ix[k]) = RowsAt(g, ix[k])
  <2>1. RowsAt(b, ix[k]) = [j \in 1..ix[k].rows |-> Before(ix, k) + j]
    BY <1>2, StoredCells
  <2>2. RowsAt(g, ix[k]) = [j \in 1..ix[k].rows |-> Before(ix, k) + j]
    BY <1>3, StoredCells
  <2> QED
    BY <2>1, <2>2
<1> QED
  BY <1>4, <1>5, <1>6, <1>7

\* The rows an open reader has mapped stay what they are whatever happens to the
\* path: sessions only cut off and overwrite what was not committed when it opened,
\* and a rename leaves it the unlinked file.
THEOREM MappedRowsAreKept ==
  WritersAvoidRename /\ ReadersAvoidRename => (Spec => MappedRowsStay)
<1> SUFFICES ASSUME WritersAvoidRename, ReadersAvoidRename PROVE Spec => MappedRowsStay
  OBVIOUS
<1> DEFINE Stays == \A r \in Readers : rd[r].pc = "open" /\ rd'[r].pc = "open" =>
                      ReadRecords(r)' = ReadRecords(r)
<1>1. PathInv /\ PathInv' /\ ReadersInv /\ ReadersInv' /\ [Next]_vars => [Stays]_vars
  BY MappedStep
<1>2. Spec => []PathInv
  BY PathIsKept
<1>3. Spec => []ReadersInv
  BY ReadersAreKept
<1>4. Spec => [][Stays]_vars
  <2> HIDE DEF Stays
  <2> QED
    BY <1>1, <1>2, <1>3, PTL DEF Spec
<1> QED
  BY <1>4 DEF MappedRowsStay

------------------------------------------------------------------------------
(* What footers say *)

\* A file that ends with its last record ends with no footer.
LEMMA NoFoot ==
  ASSUME NEW b \in Seq(Cell), NEW n, NEW m, Stored(b, n, m), Len(b) = n + m
  PROVE  b[Len(b)].kind # "foot"
<1> DEFINE ix == Index(b, n)
           e == ix[n]
           l == Len(b)
<1>1. n \in Nat \ {0} /\ m \in Nat /\ n \in 1..n /\ Len(ix) = n
  BY StoredFacts
<1>2. /\ e.at \in Nat /\ e.rows \in Nat /\ Before(ix, n) \in Nat
      /\ b[e.at - 1] = RecHead(n - 1, e.rows)
      /\ \A j \in 1..e.rows : b[e.at + j - 1] = RowCell(Before(ix, n) + j)
  <2>1. \A k \in 1..n :
          /\ ix[k].at \in Nat /\ ix[k].rows \in Nat /\ Before(ix, k) \in Nat
          /\ b[ix[k].at - 1] = RecHead(k - 1, ix[k].rows)
          /\ \A j \in 1..ix[k].rows : b[ix[k].at + j - 1] = RowCell(Before(ix, k) + j)
    <3> SUFFICES ASSUME NEW k \in 1..n
                 PROVE  /\ ix[k].at \in Nat /\ ix[k].rows \in Nat /\ Before(ix, k) \in Nat
                        /\ b[ix[k].at - 1] = RecHead(k - 1, ix[k].rows)
                        /\ \A j \in 1..ix[k].rows : b[ix[k].at + j - 1] = RowCell(Before(ix, k) + j)
      OBVIOUS
    <3>1. ix[k].at \in Nat /\ ix[k].rows \in Nat /\ Before(ix, k) \in Nat
      BY StoredCells
    <3>2. b[ix[k].at - 1] = RecHead(k - 1, ix[k].rows)
      BY StoredCells
    <3>3. \A j \in 1..ix[k].rows : b[ix[k].at + j - 1] = RowCell(Before(ix, k) + j)
      BY <1>1 DEF Stored, Laid
    <3> QED
      BY <3>1, <3>2, <3>3
  <2> HIDE DEF ix
  <2> QED
    BY <1>1, <2>1
<1>3. e.at + e.rows = l + 1 /\ l \in Nat
  BY <1>1 DEF Stored, Laid
<1> HIDE DEF l, e, ix
<1>4. CASE e.rows = 0
  <2>1. e.at - 1 = l
    BY <1>2, <1>3, <1>4
  <2> QED
    BY <1>2, <2>1 DEF RecHead, l
<1>5. CASE e.rows # 0
  <2>1. e.rows \in 1..e.rows /\ e.at + e.rows - 1 = l
    BY <1>2, <1>3, <1>5
  <2>2. b[l] = RowCell(Before(ix, n) + e.rows)
    BY <1>2, <2>1
  <2> QED
    BY <2>2 DEF RowCell, l
<1> QED
  BY <1>4, <1>5

\* The first records are where they are, however many are asked for.
LEMMA IndexPrefix ==
  ASSUME NEW b, NEW n \in Nat, NEW k \in Nat, k <= n
  PROVE  \A j \in 1..k : Index(b, k)[j] = Index(b, n)[j]
<1> DEFINE x == HeadAt(b, k)
           y == HeadAt(b, n)
           S == {j \in 0..k : x[j] = y[j]}
<1>1. x[0] = 1 /\ \A j \in 1..k : x[j] = NextHead(b, j, x[j - 1])
  BY HeadsStep
<1>2. y[0] = 1 /\ \A j \in 1..n : y[j] = NextHead(b, j, y[j - 1])
  BY HeadsStep
<1> HIDE DEF x, y
<1>3. 0 \in S
  BY <1>1, <1>2
<1>4. \A j \in 0..(k - 1) : j \in S => j + 1 \in S
  <2>1. ASSUME NEW j \in 0..(k - 1), x[j] = y[j] PROVE x[j + 1] = y[j + 1]
    <3>1. j + 1 \in 1..k /\ j + 1 \in 1..n /\ (j + 1) - 1 = j
      OBVIOUS
    <3> QED
      BY <1>1, <1>2, <2>1, <3>1
  <2> QED
    BY <2>1
<1>5. \A j \in 0..k : j \in S
  <2> HIDE DEF S
  <2> QED
    BY <1>3, <1>4, UpTo
<1>6. \A j \in 0..k : x[j] = y[j]
  BY <1>5
<1>7. ASSUME NEW j \in 1..k PROVE Index(b, k)[j] = Index(b, n)[j]
  <2>1. j \in 1..n /\ j \in 0..k /\ j - 1 \in 0..k
    OBVIOUS
  <2> QED
    BY <1>6, <2>1 DEF Index, x, y
<1> QED
  BY <1>7

\* Entries for records are entries for the first of them.
LEMMA SpeaksPrefix ==
  ASSUME NEW b, NEW n \in Nat, NEW k \in Nat, k <= n, NEW e \in Seq(SUBSET Nat), Speaks(e, b, n)
  PROVE  Speaks(e, b, k)
<1>1. \A j \in 1..k : Index(b, k)[j] = Index(b, n)[j] /\ j \in 1..n
  BY IndexPrefix
<1>2. n <= Len(e) /\ \A j \in 1..n : Range(RowsAt(b, Index(b, n)[j])) \cap Rows \subseteq e[j]
  BY DEF Speaks
<1>3. k <= Len(e)
  <2> DEFINE l == Len(e)
  <2>1. l \in Nat /\ n <= l
    BY <1>2
  <2> HIDE DEF l
  <2>2. k <= l
    BY <2>1
  <2> QED
    BY <2>2 DEF l
<1> QED
  BY <1>1, <1>2, <1>3 DEF Speaks

\* Entries speak for the same records in another file, or behind changed cells.
LEMMA SpeaksMoves ==
  ASSUME NEW b \in Seq(Cell), NEW g \in Seq(Cell), NEW n, NEW m,
         Stored(b, n, m), Stored(g, n, m), Index(b, n) = Index(g, n), NEW e, Speaks(e, b, n)
  PROVE  Speaks(e, g, n)
<1>1. ASSUME NEW k \in 1..n PROVE RowsAt(b, Index(b, n)[k]) = RowsAt(g, Index(g, n)[k])
  <2> DEFINE ix == Index(b, n)
  <2>1. RowsAt(b, ix[k]) = [j \in 1..ix[k].rows |-> Before(ix, k) + j]
    BY StoredCells
  <2>2. ix = Index(g, n)
    OBVIOUS
  <2> HIDE DEF ix
  <2>3. RowsAt(g, ix[k]) = [j \in 1..ix[k].rows |-> Before(ix, k) + j]
    BY <2>2, StoredCells
  <2> QED
    BY <2>1, <2>2, <2>3 DEF ix
<1> QED
  BY <1>1 DEF Speaks

\* The footer a file has in the place its header gives is its last cell.
LEMMA FooterIsLast ==
  ASSUME NEW f \in Contents, NEW at \in Nat, HasFooter(f, at), FooterSpeaks(f.body, f.n)
  PROVE  Speaks(f.body[at].entries, f.body, f.n) /\ f.body[at].entries \in Seq(SUBSET Nat)
<1>1. f.body \in Seq(Cell) /\ at = Len(f.body) /\ at # 0 /\ f.body[at].kind = "foot"
  BY DEF HasFooter, Contents
<1>2. f.body # <<>> /\ at \in 1..Len(f.body)
  BY <1>1
<1> QED
  BY <1>1, <1>2, FootCell DEF FooterSpeaks

\* What an append makes of the statistics there are.
LEMMA LoadedSpeaks ==
  ASSUME NEW f \in Contents, Stored(f.body, f.n, f.rows), FooterSpeaks(f.body, f.n)
  PROVE  Len(LoadStats(f)) = f.n /\ Speaks(LoadStats(f), f.body, f.n)
<1> DEFINE old == f.body[f.stats].entries
           n == f.n
           b == f.body
<1>1. n \in Nat /\ f.stats \in Nat /\ LoadStats(f) \in Seq(SUBSET Nat) /\ Len(LoadStats(f)) = n
  BY LoadedStats DEF Contents
<1>2. CASE HasFooter(f, f.stats) /\ Len(old) >= f.n
  <2>1. LoadStats(f) = SubSeq(old, 1, n)
    BY <1>2 DEF LoadStats
  <2>2. Speaks(old, b, n) /\ old \in Seq(SUBSET Nat)
    BY <1>1, <1>2, FooterIsLast
  <2>3. n <= Len(old)
    BY <1>2, <2>2 DEF Speaks
  <2> HIDE DEF old, n, b
  <2>4. \A k \in 1..n : SubSeq(old, 1, n)[k] = old[k]
    BY <1>1, <2>2, <2>3
  <2>5. Speaks(SubSeq(old, 1, n), b, n)
    BY <1>1, <2>1, <2>2, <2>4 DEF Speaks
  <2> QED
    BY <1>1, <2>1, <2>5 DEF b, n
<1>3. CASE ~(HasFooter(f, f.stats) /\ Len(old) >= f.n)
  <2>1. LoadStats(f) = [k \in 1..n |-> Rows]
    BY <1>3 DEF LoadStats
  <2>2. \A k \in 1..n : LoadStats(f)[k] = Rows
    BY <2>1
  <2> QED
    BY <1>1, <2>2 DEF Speaks
<1> QED
  BY <1>2, <1>3

\* The statistics of a record's rows.
LEMMA EntryHas ==
  ASSUME NEW rows
  PROVE  {rows[j] : j \in 1..Len(rows)} \cap Rows \subseteq Entry(rows)
BY DEF Entry

LEMMA FollowingHas ==
  ASSUME NEW m \in Nat, NEW c \in Nat
  PROVE  Range(Following(m, c)) \cap Rows \subseteq Entry(Following(m, c))
<1> DEFINE s == Following(m, c)
<1>1. Len(s) = c /\ DOMAIN s = 1..c
  BY DEF Following
<1>2. Range(s) = {s[j] : j \in 1..Len(s)}
  BY <1>1 DEF Range
<1> QED
  BY <1>2, EntryHas

\* The store to begin with.
LEMMA StartFooter ==
  ASSUME NEW ends \in Starts, NEW stats \in BOOLEAN
  PROVE  LET f == StartFile(ends, stats) IN FooterSpeaks(f.body, f.n)
<1> DEFINE f == StartFile(ends, stats)
           n == f.n
           b == f.body
           ix == Index(b, n)
           e == [k \in 1..Len(ends) |-> Entry([j \in 1..(ends[k] - RowsBefore(ends, k)) |->
                                                  RowsBefore(ends, k) + j])]
<1>1. /\ f \in Contents /\ Stored(b, n, f.rows) /\ n = Len(ends)
      /\ ix = [k \in 1..Len(ends) |-> [at |-> k + RowsBefore(ends, k) + 1,
                                       rows |-> ends[k] - RowsBefore(ends, k)]]
      /\ IF stats THEN b[Len(b)] = Foot(e) ELSE Len(b) = n + f.rows
  BY StartStored
<1> HIDE DEF f
<1>2. b \in Seq(Cell) /\ n \in Nat
  BY <1>1 DEF Contents
<1>3. ASSUME ~stats PROVE FooterSpeaks(b, n)
  <2> HIDE DEF b, n
  <2> QED
    BY <1>1, <1>2, <1>3, NoFoot DEF FooterSpeaks
<1>4. ASSUME stats PROVE FooterSpeaks(b, n)
  <2>1. b[Len(b)].entries = e
    <3> HIDE DEF b, n, e
    <3> QED
      BY <1>1, <1>4 DEF Foot
  <2>2. n <= Len(e)
    <3>1. Len(ends) \in Nat
      BY <1>1, <1>2
    <3>2. Len(e) = Len(ends)
      BY <3>1
    <3> QED
      BY <1>1, <1>2, <3>2
  <2>3. ASSUME NEW k \in 1..n PROVE Range(RowsAt(b, ix[k])) \cap Rows \subseteq e[k]
    <3> DEFINE x == RowsBefore(ends, k)
               c == ends[k] - x
    <3>1. ix[k] = [at |-> k + x + 1, rows |-> c] /\ e[k] = Entry([j \in 1..c |-> x + j])
      BY <1>1
    <3>2. /\ ix[k].at \in Nat /\ ix[k].rows \in Nat
          /\ RowsAt(b, ix[k]) = [j \in 1..ix[k].rows |-> Before(ix, k) + j]
      <4> HIDE DEF b, n
      <4> QED
        BY <1>1, <1>2, StoredCells
    <3>3. x \in Nat
      <4>1. ends \in Seq(Nat) /\ k \in 1..Len(ends) /\ k \in Nat
        BY <1>1, <1>2, StartsAssumption
      <4> QED
        BY <4>1 DEF RowsBefore
    <3> HIDE DEF ix, x, c, e
    <3>4. ix[k].rows = c /\ Before(ix, k) = x /\ c \in Nat
      BY <1>2, <3>1, <3>2, <3>3 DEF Before
    <3>5. RowsAt(b, ix[k]) = Following(x, c) /\ e[k] = Entry(Following(x, c))
      BY <3>1, <3>2, <3>4 DEF Following
    <3> QED
      BY <3>3, <3>4, <3>5, FollowingHas
  <2>4. Speaks(e, b, n)
    BY <2>2, <2>3 DEF Speaks
  <2> QED
    BY <2>1, <2>4 DEF FooterSpeaks
<1> QED
  BY <1>3, <1>4 DEF f

LEMMA InitFooters == Init => FootersInv
<1> SUFFICES ASSUME Init PROVE FootersInv
  OBVIOUS
<1>1. PICK i \in Inodes, ends \in Starts, stats \in Statistics :
          /\ path = [src |-> i, temp |-> None, out |-> None]
          /\ file = [[j \in Inodes |-> EmptyFile] EXCEPT ![i] = StartFile(ends, stats)]
          /\ upd = [u \in Updaters |-> NoUpdate]
          /\ rd = [r \in Readers |-> NoReader]
  BY DEF Init
<1>2. file[path.src] = StartFile(ends, stats)
  BY <1>1
<1>3. FooterSpeaks(file[path.src].body, file[path.src].n)
  <2>1. stats \in BOOLEAN
    BY StatisticsAssumption
  <2> QED
    BY <1>2, <2>1, StartFooter
<1>4. \A u \in Updaters : Announces(u)
  BY <1>1 DEF Announces, NoUpdate
<1>5. \A r \in Readers : SkipsBy(r)
  BY <1>1 DEF SkipsBy, NoReader
<1> QED
  BY <1>3, <1>4, <1>5 DEF FootersInv

\* Whoever is not at work announces nothing.
LEMMA OthersAnnounce ==
  ASSUME PathInv, NEW a, a \in Updaters => upd[a].pc \in {"locked", "open", "footed"},
         a \notin Updaters => \A u \in Updaters : upd[u].pc \in {"idle", "opened"}
  PROVE  \A u \in Updaters \ {a} : upd'[u] = upd[u] => Announces(u)'
<1>1. \A u \in Updaters \ {a} : upd[u].pc \in {"idle", "opened"}
  BY WorkerAlone
<1> QED
  BY <1>1 DEF Announces

\* What a session does, as far as footers go.
LEMMA UpdatingFooters ==
  ASSUME PathInv, PathInv', FootersInv, NEW u \in Updaters, Updating(u)
  PROVE  /\ FooterSpeaks(file'[path'.src].body, file'[path'.src].n)
         /\ \A v \in Updaters : Announces(v)'
<1> DEFINE f == file[path.src]
           h == file'[path'.src]
           t == upd[u]
           s == upd'[u]
<1>1. /\ f \in Contents /\ f.body \in Seq(Cell) /\ f.n \in Nat \ {0} /\ f.rows \in Nat /\ f.stats \in Nat
      /\ Stored(f.body, f.n, f.rows) /\ WalkOK(f.body, f.n)
      /\ FooterSpeaks(f.body, f.n) /\ path.src \in Inodes
      /\ Len(acked) = f.rows /\ EndOf(f.body, f.n) = f.n + f.rows
  BY SourceFacts DEF FootersInv
<1>2. /\ h \in Contents /\ h.body \in Seq(Cell) /\ h.n \in Nat /\ Stored(h.body, h.n, h.rows)
  BY DEF PathInv, SourceInv, TypeInv, Contents
<1>3. /\ t \in Update /\ s \in Update /\ upd \in [Updaters -> Update] /\ Announces(u)
      /\ Session(u) /\ Session(u)' /\ file \in [Inodes -> Contents]
  BY DEF PathInv, ActorsInv, TypeInv, FootersInv
<1>4. CASE OpenUpdate(u) \/ LockUpdate(u) \/ UpdateContended(u) \/ LoseUpdate(u)
  <2>1. path' = path /\ file' = file /\ (\A v \in Updaters \ {u} : upd'[v] = upd[v])
    BY <1>3, <1>4 DEF OpenUpdate, LockUpdate, UpdateContended, LoseUpdate
  <2>2. s.pc \notin {"open", "footed"}
    <3>1. CASE OpenUpdate(u)
      BY <1>3, <3>1 DEF OpenUpdate, Update
    <3>2. CASE LockUpdate(u)
      BY <1>3, <3>2 DEF LockUpdate, Update
    <3>3. CASE UpdateContended(u) \/ LoseUpdate(u)
      BY <1>3, <3>3 DEF UpdateContended, LoseUpdate, NoUpdate
    <3> QED
      BY <1>4, <3>1, <3>2, <3>3
  <2>3. \A v \in Updaters : Announces(v)'
    BY <2>1, <2>2 DEF FootersInv, Announces
  <2> QED
    BY <1>1, <2>1, <2>3
<1>5. CASE LoadUpdate(u)
  <2>1. t.pc = "locked" /\ t.inode = path.src /\ path' = path
    BY <1>5, WorkerAlone DEF LoadUpdate
  <2>2. /\ upd' = [upd EXCEPT ![u] = [@ EXCEPT !.pc = "open", !.n = f.n, !.rows = f.rows,
                                        !.acc = IF t.stats THEN LoadStats(f) ELSE <<>>]]
        /\ file' = [file EXCEPT ![path.src].body = Truncated(@, f.n + f.rows)]
    BY <1>1, <1>5, <2>1 DEF LoadUpdate
  <2> DEFINE z == f.n + f.rows
             g == Truncated(f.body, z)
  <2>3. h.n = f.n /\ h.body = g
    BY <1>1, <1>3, <2>1, <2>2 DEF Contents
  <2>4. g \in Seq(Cell) /\ Len(g) = z /\ Stored(g, f.n, f.rows) /\ Index(g, f.n) = Index(f.body, f.n)
    <3>1. z \in Nat /\ z <= Len(f.body)
      BY SourceFacts
    <3> HIDE DEF z, f
    <3>2. \A p \in 1..z : p <= Len(f.body) /\ f.body[p] \in Cell
      BY <1>1, <3>1
    <3>3. g = [p \in 1..z |-> f.body[p]]
      BY <3>2 DEF Truncated
    <3> HIDE DEF g
    <3>4. g \in Seq(Cell) /\ Len(g) = z /\ \A p \in 1..z : g[p] = f.body[p]
      BY <3>1, <3>2, <3>3
    <3>5. f.n + f.rows <= Len(g) /\ \A p \in 1..(f.n + f.rows) : g[p] = f.body[p]
      BY <3>1, <3>4 DEF z
    <3>6. Stored(g, f.n, f.rows) /\ Index(g, f.n) = Index(f.body, f.n)
      BY <1>1, <3>4, <3>5, StaysStored
    <3> QED
      BY <3>4, <3>6
  <2> HIDE DEF g
  <2>5. g[Len(g)].kind # "foot"
    BY <2>4, NoFoot
  <2>6. FooterSpeaks(h.body, h.n)
    BY <2>3, <2>5 DEF FooterSpeaks
  <2>7. Announces(u)'
    <3> DEFINE acc == IF t.stats THEN LoadStats(f) ELSE <<>>
    <3>1. upd' = [upd EXCEPT ![u] = [@ EXCEPT !.pc = "open", !.n = f.n, !.rows = f.rows, !.acc = acc]]
      BY <2>2
    <3>2. t.stats => Len(acc) = f.n /\ Speaks(acc, g, f.n)
      <4>1. Len(LoadStats(f)) = f.n /\ Speaks(LoadStats(f), f.body, f.n)
        BY <1>1, LoadedSpeaks
      <4> DEFINE l == LoadStats(f)
      <4> HIDE DEF l, f
      <4>2. Speaks(l, f.body, f.n)
        BY <4>1 DEF l
      <4>3. Speaks(l, g, f.n)
        BY <1>1, <2>4, <4>2, SpeaksMoves
      <4> QED
        BY <4>1, <4>3 DEF l
    <3>3. ~t.stats => acc = <<>>
      OBVIOUS
    <3> HIDE DEF acc
    <3>4. s.pc = "open" /\ s.n = f.n /\ s.acc = acc /\ s.stats = t.stats
      BY <1>3, <3>1 DEF Update
    <3> QED
      BY <2>3, <3>2, <3>3, <3>4 DEF Announces
  <2>8. \A v \in Updaters \ {u} : Announces(v)'
    BY <1>3, <2>1, <2>2, OthersAnnounce
  <2> QED
    BY <2>6, <2>7, <2>8
<1>6. CASE WriteFooter(u)
  <2> DEFINE due == t.n # 0 /\ t.acc # <<>>
  <2>1. t.pc = "open" /\ t.inode = path.src /\ path' = path
    BY <1>6, WorkerAlone DEF WriteFooter
  <2>2. /\ file' = IF due THEN [file EXCEPT ![path.src].body = Append(@, Foot(t.acc))] ELSE file
        /\ s.pc = "footed" /\ s.n = t.n /\ \A v \in Updaters \ {u} : upd'[v] = upd[v]
    BY <1>3, <1>6, <2>1 DEF WriteFooter, Update
  <2>3. /\ Stored(f.body, t.n, t.rows) /\ Len(f.body) = t.n + t.rows /\ f.n <= t.n
        /\ Stored(h.body, t.n, s.rows) /\ s.rows = t.rows
    BY <1>3, <1>6, <2>1, <2>2 DEF Session, WriteFooter, Update
  <2>4. t.n \in Nat
    BY <1>3 DEF Update
  <2>5. FooterSpeaks(h.body, t.n) /\ FooterSpeaks(h.body, f.n) /\ h.n = f.n
    <3>1. CASE due
      <4>1. h.body = Append(f.body, Foot(t.acc)) /\ h.n = f.n
        BY <1>1, <1>3, <2>1, <2>2, <3>1 DEF Contents
      <4>2. h.body[Len(h.body)] = Foot(t.acc) /\ Index(h.body, t.n) = Index(f.body, t.n)
        <5> DEFINE b == f.body
                   c == Foot(t.acc)
                   g == h.body
        <5>1. c \in Cell /\ b \in Seq(Cell) /\ g = Append(b, c)
          BY <1>1, <1>3, <4>1 DEF Foot, Cell, Update
        <5> HIDE DEF b, c, g
        <5>2. /\ g \in Seq(Cell) /\ Len(g) = Len(b) + 1 /\ g[Len(g)] = c
              /\ \A p \in 1..Len(b) : g[p] = b[p]
          BY <5>1, AppendProperties
        <5> DEFINE n == t.n
                   m == t.rows
        <5>3. Stored(b, n, m) /\ Len(b) = n + m
          BY <2>3 DEF b
        <5> HIDE DEF n, m
        <5>4. n + m <= Len(g) /\ \A p \in 1..(n + m) : g[p] = b[p]
          BY <5>1, <5>2, <5>3
        <5>5. Index(g, n) = Index(b, n)
          BY <5>1, <5>2, <5>3, <5>4, StaysStored
        <5> QED
          BY <5>2, <5>5 DEF b, c, g, n
      <4>3. t.acc \in Seq(SUBSET Nat) /\ Speaks(t.acc, f.body, t.n)
        BY <1>3, <2>1, <3>1 DEF Announces, Update
      <4>4. Speaks(t.acc, h.body, t.n)
        <5> HIDE DEF f, h, t
        <5> QED
          BY <1>1, <1>2, <2>3, <4>2, <4>3, SpeaksMoves
      <4>5. Speaks(t.acc, h.body, f.n)
        <5> HIDE DEF f, h, t
        <5> QED
          BY <1>1, <2>3, <2>4, <4>3, <4>4, SpeaksPrefix
      <4>6. h.body[Len(h.body)].entries = t.acc
        <5> HIDE DEF f, h, t
        <5> QED
          BY <4>2 DEF Foot
      <4>7. h.n = f.n
        BY <4>1
      <4> HIDE DEF f, h, t
      <4> QED
        BY <4>4, <4>5, <4>6, <4>7 DEF FooterSpeaks
    <3>2. CASE ~due
      <4>1. h = f
        BY <2>1, <2>2, <3>2
      <4>2. f.body[Len(f.body)].kind # "foot"
        BY <1>1, <2>3, NoFoot
      <4> QED
        BY <4>1, <4>2 DEF FooterSpeaks
    <3> QED
      BY <3>1, <3>2
  <2>6. Announces(u)'
    BY <2>2, <2>5 DEF Announces
  <2>7. \A v \in Updaters \ {u} : Announces(v)'
    BY <2>1, <2>2, OthersAnnounce
  <2> QED
    BY <2>5, <2>6, <2>7
<1>7. CASE CommitUpdate(u)
  <2>1. t.pc = "footed" /\ t.inode = path.src /\ path' = path
    BY <1>7, WorkerAlone DEF CommitUpdate
  <2>2. /\ file' = [file EXCEPT ![path.src] = [@ EXCEPT !.n = t.n, !.rows = t.rows, !.stats = t.foot]]
        /\ upd' = [upd EXCEPT ![u] = NoUpdate]
    BY <1>7, <2>1 DEF CommitUpdate
  <2>3. h.n = t.n /\ h.body = f.body
    BY <1>1, <1>3, <2>1, <2>2 DEF Contents
  <2>4. FooterSpeaks(h.body, h.n)
    BY <1>3, <2>1, <2>3 DEF Announces
  <2>5. Announces(u)'
    BY <1>3, <2>2 DEF Announces, NoUpdate
  <2>6. \A v \in Updaters \ {u} : Announces(v)'
    BY <1>3, <2>1, <2>2, OthersAnnounce
  <2> QED
    BY <2>4, <2>5, <2>6
<1>8. CASE Write(u)
  <2>1. t.pc = "open" /\ t.inode = path.src /\ path' = path
    BY <1>8, WorkerAlone DEF Write
  <2>2. /\ Stored(f.body, t.n, t.rows) /\ Len(f.body) = t.n + t.rows /\ t.rows = f.rows + Len(t.wrote)
        /\ t.n \in Nat /\ t.rows \in Nat
    BY <1>3, <2>1 DEF Session, Update
  <2>3. PICK m \in 1..MaxPerRecord :
          LET rows == [j \in 1..m |-> t.rows + j] IN
          /\ file' = [file EXCEPT ![t.inode].body = @ \o RecordCells(t.n, rows)]
          /\ upd' = [upd EXCEPT ![u] =
                       [t EXCEPT !.n = @ + 1, !.rows = @ + m, !.wrote = @ \o rows,
                                 !.acc = IF t.stats THEN Append(@, Entry(rows)) ELSE @]]
    <3>1. Len(acked) + Len(t.wrote) = t.rows
      BY <1>1, <2>2
    <3>2. Write(u)
      BY <1>8
    <3> HIDE DEF f, h, s, t
    <3> QED
      BY <3>1, <3>2, ZenonT(40) DEF Write, t
  <2> DEFINE b == f.body
             n == t.n
             k == t.rows
             rows == [j \in 1..m |-> k + j]
             g == b \o RecordCells(n, rows)
             e == Entry(rows)
             acc == IF t.stats THEN Append(t.acc, e) ELSE t.acc
  <2>4. m \in Nat /\ b \in Seq(Cell) /\ n \in Nat \ {0} /\ k \in Nat /\ Stored(b, n, k) /\ Len(b) = n + k
    BY <1>1, <2>2, BoundAssumption, StoredFacts
  <2>5. h.n = f.n /\ h.body = g
    BY <1>1, <1>3, <2>1, <2>3 DEF Contents
  <2>6. s.pc = "open" /\ s.n = n + 1 /\ s.stats = t.stats /\ s.acc = acc
        /\ \A v \in Updaters \ {u} : upd'[v] = upd[v]
    <3> DEFINE w == t.wrote \o rows
    <3>1. upd' = [upd EXCEPT ![u] = [t EXCEPT !.n = @ + 1, !.rows = @ + m, !.wrote = w, !.acc = acc]]
      BY <2>3
    <3> HIDE DEF w, acc, rows
    <3> QED
      BY <1>3, <2>1, <3>1 DEF Update
  <2>7. /\ t.stats => Len(t.acc) = n /\ Speaks(t.acc, b, n)
        /\ ~t.stats => t.acc = <<>>
        /\ t.acc \in Seq(SUBSET Nat)
    BY <1>3, <2>1 DEF Announces, Update
  <2>8. h.n \in Nat
    BY <1>2
  <2> DEFINE a == t.acc
             st == t.stats
             i0 == Index(b, n)
             i1 == Index(g, n)
             i2 == Index(g, n + 1)
  <2>19. rows = Following(k, m)
    BY DEF Following
  <2>9. a \in Seq(SUBSET Nat) /\ acc = IF st THEN Append(a, e) ELSE a
    BY <2>7
  <2>10. /\ st => Len(a) = n /\ Speaks(a, b, n)
         /\ ~st => a = <<>>
    BY <2>7
  <2> HIDE DEF b, n, k, a, st, f, h, rows
  <2>11. /\ g \in Seq(Cell) /\ Len(g) = (n + 1) + (k + m)
         /\ \A p \in 1..(n + k) : g[p] = b[p]
    <3>1. g \in Seq(Cell)
      BY <2>4, <2>19, RecordAppended
    <3>2. Len(g) = (n + 1) + (k + m)
      BY ZenonT(40), <2>4, <2>19, RecordAppended
    <3>3. \A p \in 1..(n + k) : g[p] = b[p]
      BY <2>4, <2>19, RecordAppended
    <3> QED
      BY <3>1, <3>2, <3>3
  <2>12. Stored(g, n + 1, k + m)
    BY <2>4, <2>19, RecordAppended
  <2>13. i2 = Append(i0, [at |-> n + k + 2, rows |-> m])
    BY <2>4, <2>19, RecordAppended
  <2> HIDE DEF g, acc
  <2>14. Stored(g, n, k) /\ i1 = i0
    <3>1. n + k <= Len(g)
      BY <2>4, <2>11
    <3> QED
      BY <2>4, <2>11, <3>1, StaysStored
  <2>15. FooterSpeaks(h.body, h.n)
    <3> DEFINE x == n + 1
               y == k + m
    <3>1. Stored(g, x, y) /\ Len(g) = x + y
      BY <2>11, <2>12
    <3> HIDE DEF x, y
    <3>2. g[Len(g)].kind # "foot"
      BY <2>11, <3>1, NoFoot
    <3> QED
      BY <2>5, <3>2 DEF FooterSpeaks
  <2>16. st => Len(acc) = n + 1 /\ Speaks(acc, g, n + 1)
    <3> SUFFICES ASSUME st PROVE Len(acc) = n + 1 /\ Speaks(acc, g, n + 1)
      OBVIOUS
    <3>1. Speaks(a, g, n)
      BY <2>4, <2>10, <2>11, <2>14, SpeaksMoves
    <3>2. e \in SUBSET Nat
      <4>1. rows \in Seq(Nat)
        BY <2>4, <2>19 DEF Following
      <4> QED
        BY <4>1, EntryType
    <3> HIDE DEF e
    <3>3. Len(acc) = n + 1 /\ acc[n + 1] = e /\ \A j \in 1..n : acc[j] = a[j]
      BY <2>4, <2>9, <2>10, <3>2, AppendProperties
    <3>4. /\ i0 \in Seq(Extents) /\ Len(i0) = n
      BY <2>4, StoredFacts
    <3> DEFINE last == [at |-> n + k + 2, rows |-> m]
    <3>5. last \in Extents
      BY <2>4 DEF Extents
    <3> HIDE DEF i0, i1, i2
    <3>6. i2[n + 1] = last /\ \A j \in 1..n : i2[j] = i1[j]
      <4>1. i2 = Append(i0, last)
        BY <2>13
      <4> HIDE DEF last
      <4> QED
        BY <2>4, <2>14, <3>4, <3>5, <4>1, AppendProperties
    <3>7. RowsAt(g, i2[n + 1]) = rows
      <4> DEFINE x == n + 1
                 y == k + m
      <4>1. Stored(g, x, y) /\ x \in 1..x /\ i2 = Index(g, x)
        BY <2>4, <2>12 DEF i2
      <4> HIDE DEF x, y
      <4>2. RowsAt(g, i2[x]) = [j \in 1..i2[x].rows |-> Before(i2, x) + j]
        BY <2>11, <4>1, StoredCells
      <4>3. i2[x].rows = m /\ i2[x].at = n + k + 2
        BY <3>6 DEF x
      <4>4. Before(i2, x) = k
        BY <2>4, <4>3 DEF Before, x
      <4> QED
        BY <2>19, <4>2, <4>3, <4>4 DEF x, Following
    <3>8. Range(rows) \cap Rows \subseteq e
      BY <2>4, <2>19, FollowingHas DEF e
    <3>9. \A j \in 1..n : Range(RowsAt(g, i1[j])) \cap Rows \subseteq a[j]
      BY <3>1 DEF Speaks, i1
    <3>10. ASSUME NEW j \in 1..(n + 1) PROVE Range(RowsAt(g, i2[j])) \cap Rows \subseteq acc[j]
      <4>1. CASE j = n + 1
        BY <3>3, <3>7, <3>8, <4>1
      <4>2. CASE j # n + 1
        <5>1. j \in 1..n
          BY <2>4, <4>2
        <5> QED
          BY <3>3, <3>6, <3>9, <5>1
      <4> QED
        BY <4>1, <4>2
    <3>11. n + 1 <= Len(acc)
      BY <2>4, <3>3
    <3>12. Speaks(acc, g, n + 1)
      BY <3>10, <3>11 DEF Speaks, i2
    <3> QED
      BY <3>3, <3>12
  <2>17. Announces(u)'
    <3>1. ~st => acc = <<>>
      BY <2>9, <2>10
    <3>2. s.pc = "open" /\ s.n = n + 1 /\ s.stats = st /\ s.acc = acc
      BY <2>6 DEF st
    <3>3. file'[path'.src].body = g
      BY <2>5 DEF h
    <3> HIDE DEF e, rows
    <3> QED
      BY <2>16, <3>1, <3>2, <3>3 DEF Announces
  <2>18. \A v \in Updaters \ {u} : Announces(v)'
    BY <2>1, <2>6, OthersAnnounce
  <2> QED
    BY <2>15, <2>17, <2>18 DEF h
<1> QED
  BY <1>4, <1>5, <1>6, <1>7, <1>8 DEF Updating

\* A compaction writes no file but its output.
LEMMA CompactingSource ==
  ASSUME PathInv, NEW c \in Compactors, Compacting(c), ~Rename(c)
  PROVE  path'.src = path.src /\ file'[path.src] = file[path.src] /\ upd' = upd
<1> DEFINE t == comp[c]
<1>1. /\ path \in [src : Inodes, temp : Inodes \cup {None}, out : Inodes \cup {None}]
      /\ file \in [Inodes -> Contents] /\ path.src \in Inodes
      /\ t.dest \in {"temp", "out"}
  BY DEF PathInv, TypeInv, Compaction
<1>2. CASE \/ BeginCompact(c) \/ LockCompact(c) \/ CompactContended(c) \/ NothingToDo(c)
           \/ IndexSource(c) \/ FinishCopy(c) \/ CrashCompact(c)
  BY <1>2 DEF BeginCompact, LockCompact, CompactContended, NothingToDo, IndexSource, FinishCopy,
              CrashCompact
<1>3. ASSUME NEW dest \in {"temp", "out"}, NEW i \in Inodes, OpensTarget(dest, i), NEW h,
             path' = [path EXCEPT ![dest] = i], file' = [file EXCEPT ![i] = h]
      PROVE  path'.src = path.src /\ file'[path.src] = file[path.src]
  <2>1. i # path.src
    BY <1>3, TargetApart DEF OpensTarget
  <2> QED
    BY <1>1, <1>3, <2>1
<1>4. CASE CopyWhole(c)
  BY <1>3, <1>4 DEF CopyWhole
<1>5. CASE StartOutput(c)
  BY <1>1, <1>3, <1>5, ZenonT(40) DEF StartOutput
<1>6. CASE CopyRange(c)
  <2>1. t.pc = "copying" /\ path' = path /\ upd' = upd
    BY <1>6 DEF CopyRange
  <2>2. t.dst = path[t.dest] /\ t.dst # path.src
    BY <1>1, <2>1 DEF PathInv, ActorsInv, Compacts, NamesInv
  <2>3. file'[path.src] = file[path.src]
    BY <1>1, <1>6, <2>2 DEF CopyRange
  <2> QED
    BY <2>1, <2>3
<1>7. CASE CopyFails(c)
  BY <1>1, <1>7 DEF CopyFails
<1> QED
  BY <1>2, <1>4, <1>5, <1>6, <1>7 DEF Compacting

\* What a rename puts behind the path has no footer.
LEMMA RenamedFooter ==
  ASSUME PathInv, PathInv', NEW c \in Compactors, Rename(c)
  PROVE  /\ FooterSpeaks(file'[path'.src].body, file'[path'.src].n)
         /\ \A u \in Updaters : Announces(u)'
<1> DEFINE f == file[path.src]
           g == file[path.temp]
           h == file'[path'.src]
<1>1. /\ comp[c].pc = "unlocked" /\ comp[c].dest = "temp"
      /\ \A u \in Updaters : upd[u].pc = "idle"
  BY DEF Rename, PathInv, PlaceInv
<1>2. path.temp \in Inodes /\ g.rows = f.rows /\ Len(g.body) = 1 + f.rows /\ path.temp # None
  BY <1>1, NoneAssumption DEF PathInv, ActorsInv, Compacts
<1>3. g.n = 1
  BY <1>2 DEF PathInv, OutputsInv, Output
<1>4. h = g /\ upd' = upd
  BY <1>2 DEF Rename, PathInv, TypeInv
<1>5. Stored(h.body, h.n, h.rows) /\ h.body \in Seq(Cell)
  BY DEF PathInv, SourceInv, TypeInv, Contents
<1> HIDE DEF f, g, h
<1>6. Len(h.body) = h.n + h.rows
  BY <1>2, <1>3, <1>4
<1>7. h.body[Len(h.body)].kind # "foot"
  BY <1>5, <1>6, NoFoot
<1>8. FooterSpeaks(h.body, h.n)
  BY <1>7 DEF FooterSpeaks
<1>9. \A u \in Updaters : Announces(u)'
  BY <1>1, <1>4 DEF Announces
<1> QED
  BY <1>8, <1>9 DEF h

\* A reader's entries go on to speak for its records while it stays open.
LEMMA OpenSkips ==
  ASSUME PathInv, PathInv', ReadersInv, ReadersInv', FootersInv, [Next]_vars,
         NEW r \in Readers, rd[r].pc = "open", rd'[r].pc = "open", rd'[r].entries = rd[r].entries
  PROVE  SkipsBy(r)'
<1> SUFFICES ASSUME rd[r].entries # <<>> PROVE Speaks(rd'[r].entries, file'[rd'[r].map].body, rd'[r].n)
  BY DEF SkipsBy
<1> DEFINE s == rd[r]
           e == s.entries
           b == file[s.map].body
           g == file'[s.map].body
           n == s.n
           m == s.rows
<1>1. rd'[r].map = s.map /\ rd'[r].ix = s.ix /\ rd'[r].n = n /\ rd'[r].rows = m
  BY OpenStays
<1>2. b \in Seq(Cell) /\ Stored(b, n, m) /\ s.ix = Index(b, n) /\ Speaks(e, b, n)
  BY ReaderFacts DEF Behind, FootersInv, SkipsBy
<1>3. g \in Seq(Cell) /\ Stored(g, n, m) /\ s.ix = Index(g, n)
  <2>1. Reads(r)'
    BY DEF ReadersInv
  <2>2. Behind(r)' = s.map
    BY <1>1 DEF Behind
  <2>3. file' \in [Inodes -> Contents] /\ s.map \in Inodes
    BY <2>1, <2>2 DEF Reads, PathInv, TypeInv
  <2>4. g \in Seq(Cell)
    BY <2>3 DEF Contents
  <2> QED
    BY <1>1, <2>1, <2>2, <2>4 DEF Reads
<1> HIDE DEF b, g, n, m, e
<1>4. Speaks(e, g, n)
  BY <1>2, <1>3, SpeaksMoves
<1> QED
  BY <1>1, <1>4 DEF e, g, n

\* The entries read for the first filter speak for the reader's records.
LEMMA FirstFilter ==
  ASSUME FiltersAvoidRename, PathInv, ReadersInv, FootersInv, NEW r \in Readers, LoadRecordStats(r)
  PROVE  SkipsBy(r)'
<1> DEFINE s == rd[r]
           f == file[path.src]
           e == FooterAt(f, s.stats)
<1>1. s.pc = "open" /\ s.map = path.src /\ file' = file /\ s \in Reader /\ rd \in [Readers -> Reader]
  BY DEF LoadRecordStats, ReadersInv
<1>2. f \in Contents /\ f.n \in Nat /\ s.n \in Nat /\ s.n <= f.n /\ s.stats \in Nat
      /\ FooterSpeaks(f.body, f.n)
  <2>1. f \in Contents /\ f.n \in Nat
    BY SourceFacts
  <2>2. s.n \in Nat /\ s.n <= f.n
    BY <1>1, ReaderFacts DEF Behind
  <2> QED
    BY <1>1, <2>1, <2>2 DEF Reader, FootersInv
<1>3. rd'[r].entries = e /\ rd'[r].map = path.src /\ rd'[r].n = s.n
  <2> HIDE DEF e
  <2>1. rd' = [rd EXCEPT ![r] = [s EXCEPT !.entries = e, !.stats = 0]]
    BY <1>1 DEF LoadRecordStats, e
  <2> QED
    BY <1>1, <2>1 DEF Reader
<1>4. ASSUME e # <<>> PROVE Speaks(e, f.body, s.n)
  <2> HIDE DEF f, s
  <2>1. HasFooter(f, s.stats) /\ e = f.body[s.stats].entries
    BY <1>4 DEF FooterAt
  <2>2. Speaks(e, f.body, f.n) /\ e \in Seq(SUBSET Nat)
    BY <1>2, <2>1, FooterIsLast
  <2> HIDE DEF e
  <2> QED
    BY <1>2, <2>2, SpeaksPrefix
<1> HIDE DEF e
<1> QED
  BY <1>1, <1>3, <1>4 DEF SkipsBy

LEMMA FootersStep ==
  ASSUME FiltersAvoidRename, PathInv, PathInv', ReadersInv, ReadersInv', FootersInv, [Next]_vars
  PROVE  FootersInv'
<1>1. rd \in [Readers -> Reader] /\ rd' \in [Readers -> Reader]
  BY DEF ReadersInv
<1>2. /\ FooterSpeaks(file'[path'.src].body, file'[path'.src].n)
      /\ \A u \in Updaters : Announces(u)'
  <2>1. ASSUME path'.src = path.src, file'[path.src] = file[path.src], upd' = upd
        PROVE  /\ FooterSpeaks(file'[path'.src].body, file'[path'.src].n)
               /\ \A u \in Updaters : Announces(u)'
    BY <2>1 DEF FootersInv, Announces
  <2>2. ASSUME NEW u \in Updaters, Updating(u)
        PROVE  /\ FooterSpeaks(file'[path'.src].body, file'[path'.src].n)
               /\ \A v \in Updaters : Announces(v)'
    BY <2>2, UpdatingFooters
  <2>3. ASSUME NEW c \in Compactors, Compacting(c)
        PROVE  /\ FooterSpeaks(file'[path'.src].body, file'[path'.src].n)
               /\ \A u \in Updaters : Announces(u)'
    BY <2>1, <2>3, RenamedFooter, CompactingSource
  <2>4. ASSUME NEW r \in Readers, Reading(r)
        PROVE  path' = path /\ file' = file /\ upd' = upd
    BY <2>4 DEF Reading, ReadHeader, ReadIndex, MapFile, LoadRecordStats, CloseReader
  <2>5. CASE UNCHANGED vars
    BY <2>1, <2>5 DEF vars
  <2> QED
    BY <2>1, <2>2, <2>3, <2>4, <2>5 DEF Next
<1>3. ASSUME NEW r \in Readers PROVE SkipsBy(r)'
  <2>1. CASE rd'[r].entries = <<>>
    BY <2>1 DEF SkipsBy
  <2>2. CASE rd'[r].entries # <<>>
    <3>1. rd'[r].pc = "open"
      BY <2>2 DEF ReadersInv, Reads
    <3>2. rd[r].pc = "open" /\ (rd'[r].entries = rd[r].entries \/ LoadRecordStats(r))
      <4>1. ASSUME NEW u \in Updaters, Updating(u) PROVE rd' = rd
        BY <4>1, UpdatingKeeps
      <4>2. ASSUME NEW c \in Compactors, Compacting(c) PROVE rd' = rd
        BY <4>2, CompactingKeeps
      <4>3. ASSUME NEW q \in Readers, Reading(q)
            PROVE  rd'[r] = rd[r] \/ LoadRecordStats(r) \/ MapFile(r)
        <5>1. CASE q # r
          BY <1>1, <4>3, <5>1 DEF Reading, ReadHeader, ReadIndex, MapFile, LoadRecordStats, CloseReader
        <5>2. CASE q = r
          <6>1. ~CloseReader(r)
            BY <1>1, <3>1 DEF CloseReader, NoReader
          <6>2. ~ReadHeader(r)
            BY <1>1, <3>1 DEF ReadHeader, NoReader
          <6>3. ~ReadIndex(r)
            BY <1>1, <3>1, ZenonT(40) DEF ReadIndex, NoReader, Reader
          <6> QED
            BY <4>3, <5>2, <6>1, <6>2, <6>3 DEF Reading
        <5> QED
          BY <5>1, <5>2
      <4>4. ASSUME MapFile(r) PROVE FALSE
        <5>1. rd[r].pc = "index" /\ rd[r] \in Reader /\ rd[r].entries = <<>>
          BY <1>1, <4>4, ReaderFacts DEF MapFile
        <5>2. rd'[r].entries = rd[r].entries \/ rd'[r].pc = "failed"
          <6> DEFINE t == [rd[r] EXCEPT !.pc = "open", !.map = path.src, !.ix = Extent(rd[r])]
                     x == [NoReader EXCEPT !.pc = "failed"]
          <6>1. t.entries = rd[r].entries /\ x.pc = "failed"
            BY <5>1 DEF Reader, NoReader
          <6>2. rd' = [rd EXCEPT ![r] = t] \/ rd' = [rd EXCEPT ![r] = x]
            BY <4>4 DEF MapFile
          <6> HIDE DEF t, x
          <6> QED
            BY <1>1, <6>1, <6>2
        <5> QED
          BY <2>2, <3>1, <5>1, <5>2
      <4>5. ASSUME UNCHANGED vars PROVE rd' = rd
        BY <4>5 DEF vars
      <4>6. LoadRecordStats(r) => rd[r].pc = "open"
        BY DEF LoadRecordStats
      <4>7. rd'[r] = rd[r] \/ LoadRecordStats(r)
        BY <4>1, <4>2, <4>3, <4>4, <4>5 DEF Next
      <4> QED
        BY <3>1, <4>6, <4>7
    <3> QED
      BY <3>1, <3>2, OpenSkips, FirstFilter
  <2> QED
    BY <2>1, <2>2
<1> QED
  BY <1>2, <1>3 DEF FootersInv

\* As long as, besides, no reader filters for the first time after a rename, every
\* step keeps FootersInv: footers, what sessions have for the next one and what
\* readers got out of them speak for the records they are used for.
THEOREM FootersAreKept ==
  WritersAvoidRename /\ ReadersAvoidRename /\ FiltersAvoidRename => (Spec => []FootersInv)
<1> SUFFICES ASSUME WritersAvoidRename, ReadersAvoidRename, FiltersAvoidRename
             PROVE  Spec => []FootersInv
  OBVIOUS
<1>1. Init => FootersInv
  BY InitFooters
<1>2. PathInv /\ PathInv' /\ ReadersInv /\ ReadersInv' /\ FootersInv /\ [Next]_vars => FootersInv'
  BY FootersStep
<1>3. Spec => []PathInv
  BY PathIsKept
<1>4. Spec => []ReadersInv
  BY ReadersAreKept
<1> QED
  BY <1>1, <1>2, <1>3, <1>4, PTL DEF Spec

LEMMA SkippingHolds == PathInv /\ ReadersInv /\ FootersInv => SkippingExact
<1> SUFFICES ASSUME PathInv, ReadersInv, FootersInv, NEW r \in Readers,
                    rd[r].pc = "open", rd[r].entries # <<>>,
                    NEW v \in Rows, NEW k \in DOMAIN ReadRecords(r),
                    v \in Range(ReadRecords(r)[k])
             PROVE  k \in 1..Len(rd[r].entries) /\ v \in rd[r].entries[k]
  BY DEF SkippingExact
<1> DEFINE s == rd[r]
           e == s.entries
           b == file[s.map].body
           n == s.n
<1>1. /\ b \in Seq(Cell) /\ Stored(b, n, s.rows) /\ s.ix = Index(b, n) /\ Speaks(e, b, n)
      /\ e \in Seq(SUBSET Nat)
  BY ReaderFacts DEF Behind, FootersInv, SkipsBy, Reader
<1>2. ReadRecords(r) = [j \in 1..Len(s.ix) |-> RowsAt(b, s.ix[j])]
  BY DEF ReadRecords, Cells
<1> HIDE DEF b, n, e
<1>3. n \in Nat /\ Len(s.ix) = n
  BY <1>1, StoredFacts
<1>4. k \in 1..n /\ v \in Range(RowsAt(b, Index(b, n)[k])) \cap Rows
  BY <1>1, <1>2, <1>3
<1>5. n <= Len(e) /\ v \in e[k]
  BY <1>1, <1>4 DEF Speaks
<1>6. k \in 1..Len(e)
  <2> DEFINE l == Len(e)
  <2>1. l \in Nat /\ n <= l
    BY <1>1, <1>5
  <2> HIDE DEF l
  <2>2. k \in 1..l
    BY <1>3, <1>4, <2>1
  <2> QED
    BY <2>2 DEF l
<1> QED
  BY <1>5, <1>6 DEF e

\* Skipping records by their statistics loses no matching row, whatever sessions
\* and compactions did to the path between the reader's opens of it (reader.py).
THEOREM SkippingLosesNothing ==
  WritersAvoidRename /\ ReadersAvoidRename /\ FiltersAvoidRename => (Spec => []SkippingExact)
<1> SUFFICES ASSUME WritersAvoidRename, ReadersAvoidRename, FiltersAvoidRename
             PROVE  Spec => []SkippingExact
  OBVIOUS
<1>1. Spec => []PathInv
  BY PathIsKept
<1>2. Spec => []ReadersInv
  BY ReadersAreKept
<1>3. Spec => []FootersInv
  BY FootersAreKept
<1> QED
  BY <1>1, <1>2, <1>3, SkippingHolds, PTL
==============================================================================
