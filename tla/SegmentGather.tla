---------------------------- MODULE SegmentGather ---------------------------
(***************************************************************************)
(* How colstore gets from a row to its bytes: the layout of a file, its    *)
(* mapping into memory, and the tables that fold an offset, a column's     *)
(* prefix and a record's first row into one base per segment, of one file  *)
(* or of several (reader.py, dataset.py).                                  *)
(*                                                                         *)
(* A file is laid out cell by cell, as its writer wrote it: a preamble,    *)
(* and per record a header, the columns one after the other and padding.   *)
(* An element of a column takes one or more cells, and its cells say which *)
(* row and column they belong to: a load at a wrong address, or across two *)
(* elements, is seen, and so is one through a mapping that is gone.        *)
(*                                                                         *)
(* GatherRows is what the kernels that load through a table give; module   *)
(* GatherKernels has the kernels.                                          *)
(***************************************************************************)
EXTENDS RowSelection, RecordLayout, FiniteSets

CONSTANTS Files,        \* the files there are
          Records,        \* their row counts, record by record: [Files -> Seq(Nat)]
          Columns,        \* their columns, [name, size], in stored order
          Preamble,       \* cells before the first record header
          HeaderCells,    \* cells of a record header
          BodyAlign,      \* a record's body is padded to a multiple of this
          Span            \* mappings are this far apart, more than any file is long

ASSUME LayoutAssumption ==
  /\ \A f \in Files :
       /\ Records[f] \in Seq(Nat) /\ Len(Records[f]) > 0 /\ Len(Columns[f]) > 0
       /\ Columns[f] \in Seq([name : STRING, size : Nat \ {0}])
       /\ \A i, j \in DOMAIN Columns[f] : Columns[f][i].name = Columns[f][j].name => i = j
  /\ Preamble \in Nat /\ HeaderCells \in Nat \ {0} /\ BodyAlign \in Nat \ {0}
  /\ Span \in Nat \ {0}

Smallest(S) == CHOOSE x \in S : \A y \in S : x <= y
Largest(S) == CHOOSE x \in S : \A y \in S : y <= x

-----------------------------------------------------------------------------
(* The layout. *)

ColumnOf(f, c) == CHOOSE x \in ToSet(Columns[f]) : x.name = c
Size(f, c) == ColumnOf(f, c).size
NamesOf(f) == {x.name : x \in ToSet(Columns[f])}
RowsIn(f) == Total(Records[f])

\* Cells of one row of the columns before c.
ColumnPrefix(f, c) ==
  LET before(x) == \E i, j \in DOMAIN Columns[f] :
                      i < j /\ Columns[f][i] = x /\ Columns[f][j].name = c
  IN  Total([i \in DOMAIN Columns[f] |->
               IF before(Columns[f][i]) THEN Columns[f][i].size ELSE 0])

RowSize(f) == RowCells(Columns[f])
BodySize(f, r) == BodyRoom(Columns[f], Records[f][r], BodyAlign)
FirstRowOf(f, r) == Total(SubSeq(Records[f], 1, r - 1))

\* The file as it is written.
RecordOf(f, r) ==
  LaidOut(Columns[f], Records[f][r], FirstRowOf(f, r), HeaderCells, BodyAlign)
Cells(f) == Gap(Preamble) \o FlattenSeq([r \in DOMAIN Records[f] |-> RecordOf(f, r)])

Image == [f \in Files |-> Cells(f)]

ASSUME SpanAssumption == \A f \in Files : Len(Image[f]) <= Span

\* The record index, as a reader of the record headers makes it: of record r, counted
\* from 0, the first row and the place of its body.
RecordStartsRows ==
  [f \in Files |-> [r \in 0..Len(Records[f]) |-> Total(SubSeq(Records[f], 1, r))]]

RecordStartsBytes ==
  [f \in Files |->
    [r \in 0..(Len(Records[f]) - 1) |->
       Preamble + HeaderCells + Total([q \in 1..r |-> BodySize(f, q) + HeaderCells])]]

IsMultiRecord(f) == Len(Records[f]) > 1

-----------------------------------------------------------------------------
(* Memory: handle h of a file is mapped at h * Span for as long as it is open. *)

Base(h) == h * Span

Stray == << 0, -1, "stray", 0 >>
Torn == << 0, -1, "torn" >>

\* maps is a function from the open handles to the images of their files.
CellAt(maps, addr) ==
  LET h == addr \div Span
      at == (addr % Span) + 1
  IN  IF h \in DOMAIN maps /\ at \in DOMAIN maps[h] THEN << h >> \o maps[h][at] ELSE Stray

\* The element that the cells make up, if they do.
Element(cells) ==
  LET c == cells[1] IN
  IF c[2] >= 0 /\ \A p \in DOMAIN cells : cells[p] = << c[1], c[2], c[3], p - 1 >>
  THEN << c[1], c[2], c[3] >> ELSE Torn

Load(maps, addr, size) == Element([p \in 1..size |-> CellAt(maps, addr + p - 1)])

\* What is left in n places when each of the writes is a place and a value: a place that
\* is filled with two values, or not at all, is torn.
Filled(n, writes, nothing) ==
  [i \in 1..n |-> LET vs == {w[2] : w \in {x \in writes : x[1] = i}}
                  IN  IF Cardinality(vs) = 1 THEN CHOOSE v \in vs : TRUE ELSE nothing]

-----------------------------------------------------------------------------
(* Segment tables: row x of segment s is at base[s] + x * size. *)

ColumnSegments(h, f, c) ==
  LET n == Len(Records[f]) IN
  [starts |-> RecordStartsRows[f],
   base   |-> [r \in 0..(n - 1) |->
                 Base(h) + RecordStartsBytes[f][r] + ColumnPrefix(f, c) * Records[f][r + 1]
                   - RecordStartsRows[f][r] * Size(f, c)]]

SegmentsIn(table) == Cardinality(DOMAIN table.base)

\* The tables of several files, whose rows begin at the offsets, made one: the rows are
\* shifted and the bases with them.
StitchedStarts(tables, offsets) ==
  FlattenSeq([i \in DOMAIN tables |->
    [s \in 1..SegmentsIn(tables[i]) |-> tables[i].starts[s - 1] + offsets[i]]])
StitchedBases(tables, offsets, size) ==
  FlattenSeq([i \in DOMAIN tables |->
    [s \in 1..SegmentsIn(tables[i]) |-> tables[i].base[s - 1] - offsets[i] * size]])

StitchSegments(tables, offsets, rows, size) ==
  LET starts == StitchedStarts(tables, offsets)
      base   == StitchedBases(tables, offsets, size)
  IN  [starts |-> [s \in 0..Len(starts) |-> IF s = Len(starts) THEN rows ELSE starts[s + 1]],
       base   |-> [s \in 0..(Len(base) - 1) |-> base[s + 1]]]

\* _uniform_segment_rows: every segment but perhaps the last, which is no larger, has
\* the same number of rows.
UniformSegmentRows(starts) ==
  LET n == Cardinality(DOMAIN starts) - 1
      rows(s) == starts[s + 1] - starts[s]
  IN  IF /\ n >= 2 /\ rows(0) > 0
         /\ \A s \in 0..(n - 2) : rows(s) = rows(0)
         /\ rows(n - 1) <= rows(0)
      THEN rows(0) ELSE None

At(maps, table, s, x, size) == Load(maps, table.base[s] + x * size, size)

\* The segments the rows xs lie in: in a grid, by a division; else the last that starts
\* at or before the row.
GridBins(xs, rows, table) ==
  [i \in DOMAIN xs |-> Least(xs[i] \div rows, SegmentsIn(table) - 1)]
SegmentBins(xs, table) ==
  [i \in DOMAIN xs |-> Largest({s \in DOMAIN table.base : table.starts[s] <= xs[i]})]

GatherWithBins(maps, xs, bins, table, size) ==
  [i \in DOMAIN xs |-> At(maps, table, bins[i], xs[i], size)]

GatherRows(maps, xs, table, size) ==
  GatherWithBins(maps, xs, SegmentBins(xs, table), table, size)
=============================================================================
