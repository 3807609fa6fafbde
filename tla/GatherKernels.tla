--------------------------- MODULE GatherKernels ----------------------------
(***************************************************************************)
(* The kernels that load the rows of a read (src/cpp/gather.cpp and the    *)
(* Python that calls them): through the segment table of one file or of    *)
(* several, by a search, a cursor, a division or a mask, or as copies of   *)
(* runs of memory.                                                         *)
(*                                                                         *)
(* A behaviour is one call on the files of a stack, mapped one after the   *)
(* other: kernels keep nothing between calls.  Where threads share the     *)
(* work, each takes its part, and an output place that is filled with two  *)
(* values, or not at all, is Torn.                                         *)
(***************************************************************************)
EXTENDS NativeEntries

CONSTANTS Stacks,         \* sequences of files
          Workers,        \* the team sizes a kernel may be granted
          Gathers(_),     \* the rows asked for, of so many: sequences of row numbers
          Ranges(_),      \* the ranges: << start, stop, step >>, as slices resolve to
          Masks(_),       \* the masks
          Faults(_),      \* what may be wrong with the headers of a file
          Buffers,        \* sizes of the buffer headers are read through
          Lengths(_),     \* lengths of the arrays an entry point may be handed
          Entries,        \* the entry points
          Word,           \* mask bytes the kernel looks at in one go
          Bits            \* width of an unsigned integer

ASSUME StacksAssumption == \A s \in Stacks : s \in Seq(Files) /\ s # << >>
ASSUME FaultsAssumption ==
  \A f \in Files : Faults(f) \subseteq SUBSET ((0..(Len(Records[f]) - 1)) \X HeaderFaults)
ASSUME BuffersAssumption == Buffers \subseteq Nat
ASSUME WidthAssumption == Word \in Nat \ {0} /\ Bits \in Nat \ {0}

VARIABLES stack, call

vars == << stack, call >>

-----------------------------------------------------------------------------
(* Sharing the work. *)

\* Workers share n elements, counted from 0: each takes [lo, hi).
Chunks(n, workers) ==
  LET chunk == (n + workers - 1) \div workers
  IN  {<< t * chunk, Least(n, t * chunk + chunk) >> : t \in 0..(workers - 1)}

\* What threads leave, cell by cell, as the elements it makes up.
FilledCells(n, size, writes) ==
  LET cells == Filled(n * size, writes, Stray)
  IN  [i \in 1..n |-> Element(SubSeq(cells, (i - 1) * size + 1, i * size))]

-----------------------------------------------------------------------------
(* Rows anywhere. *)

\* bin_record: the last segment that starts at or before row x, by halving.
BinRecord(starts, x) ==
  LET search[lo \in DOMAIN starts, n \in 1..Cardinality(DOMAIN starts)] ==
        LET half == n \div 2 IN
        IF n = 1 THEN lo
        ELSE search[IF starts[lo + half] <= x THEN lo + half ELSE lo, n - half]
  IN  search[0, Cardinality(DOMAIN starts)]

\* gather_segment_bins, and the search of gather_segment.
Bins(xs, table) == [i \in DOMAIN xs |-> BinRecord(table.starts, xs[i])]

\* The segments past s.
After(starts, s) == (s + 1)..(Cardinality(DOMAIN starts) - 2)

\* gather_segment_sorted: in each chunk a cursor over the segments, which goes on while
\* the rows do and is looked up again when a row goes back.
Cursor(xs, starts, chunk) ==
  LET seg[i \in chunk[1]..(chunk[2] - 1)] ==
        LET x == xs[i + 1]
            s == IF i = chunk[1] THEN BinRecord(starts, x) ELSE seg[i - 1]
        IN  IF x >= starts[s + 1] THEN Smallest({t \in After(starts, s) : x < starts[t + 1]})
            ELSE IF x < starts[s] THEN BinRecord(starts, x)
            ELSE s
  IN  seg

GatherSorted(maps, xs, table, size, workers) ==
  Filled(Len(xs),
         UNION {LET seg == Cursor(xs, table.starts, k)
                IN  {<< i + 1, At(maps, table, seg[i], xs[i + 1], size) >> : i \in DOMAIN seg} :
                k \in Chunks(Len(xs), workers)},
         Torn)

-----------------------------------------------------------------------------
(* Uniform grids: the segment of a row is found by a division. *)

\* _detect_uniform_record_layout
UniformRecordLayout(f) ==
  LET n == Len(Records[f])
      rows == Records[f][1]
      stride == RecordStartsBytes[f][1] - RecordStartsBytes[f][0]
  IN  IF /\ rows > 0
         /\ \A r \in 1..(n - 1) : Records[f][r] = rows
         /\ Records[f][n] <= rows /\ Records[f][n] > 0
         /\ \A r \in 1..(n - 1) : RecordStartsBytes[f][r] - RecordStartsBytes[f][r - 1] = stride
      THEN [rows |-> rows, stride |-> stride,
            body |-> RecordStartsBytes[f][0], last |-> Records[f][n]]
      ELSE None

\* The multiplier fits the width.
MagicFits(d, rem, log) == d - rem < 2 ^ log

\* make_uniform_divisor and uniform_divide: division by a constant as a multiplication
\* and shifts of Bits-bit unsigned integers, with a product of twice the width.
MakeDivisor(d) ==
  LET w     == 2 ^ Bits
      log   == Largest({k \in 0..(Bits - 1) : 2 ^ k <= d})
      num   == 2 ^ (Bits + log)
      m     == num \div d
      rem   == num - m * d
      twice == (rem + rem) % w
  IN  IF d = 2 ^ log
      THEN [power |-> TRUE, shift |-> log, add |-> FALSE, magic |-> 0]
      ELSE IF MagicFits(d, rem, log)
      THEN [power |-> FALSE, shift |-> log, add |-> FALSE, magic |-> (m + 1) % w]
      ELSE [power |-> FALSE, shift |-> log, add |-> TRUE,
            magic |-> (m + m + (IF twice >= d \/ twice < rem THEN 1 ELSE 0) + 1) % w]

UniformDivide(n, div) ==
  LET w == 2 ^ Bits
      q == (div.magic * n) \div w
  IN  IF div.power THEN n \div 2 ^ div.shift
      ELSE IF div.add THEN ((((n - q) % w) \div 2 + q) % w) \div 2 ^ div.shift
      ELSE q \div 2 ^ div.shift

\* gather_segment_uniform and gather_segment_uniform_bins
UniformBins(xs, rows, table) ==
  [i \in DOMAIN xs |-> Least(UniformDivide(xs[i], MakeDivisor(rows)), SegmentsIn(table) - 1)]

\* gather_multirecord_uniform, its bins and its reuse of them: the place of a row is an
\* affine function of its record, but for the last record.
RecordBins(xs, f, layout) ==
  [i \in DOMAIN xs |->
     IF xs[i] >= (Len(Records[f]) - 1) * layout.rows THEN Len(Records[f]) - 1
     ELSE UniformDivide(xs[i], MakeDivisor(layout.rows))]

GatherRecordBins(maps, h, f, c, xs, bins, layout) ==
  LET size     == Size(f, c)
      last     == Len(Records[f]) - 1
      fullBase == layout.body + ColumnPrefix(f, c) * layout.rows
      step     == layout.stride - layout.rows * size
      lastBase == layout.body + last * layout.stride + ColumnPrefix(f, c) * layout.last
                    - last * layout.rows * size
      place(x, r) == IF r = last THEN lastBase + x * size ELSE fullBase + r * step + x * size
  IN  [i \in DOMAIN xs |-> Load(maps, Base(h) + place(xs[i], bins[i]), size)]

-----------------------------------------------------------------------------
(* Ranges. *)

\* gather_multirecord_strided: each chunk walks the records, up or down, along the rows
\* start, start + step, ...
StridedCursor(starts, start, step, chunk) ==
  LET row(i) == start + i * step
      rec[i \in chunk[1]..(chunk[2] - 1)] ==
        LET r == IF i = chunk[1] THEN BinRecord(starts, row(i)) ELSE rec[i - 1]
        IN  IF row(i) >= starts[r + 1]
            THEN Smallest({t \in After(starts, r) : row(i) < starts[t + 1]})
            ELSE IF row(i) < starts[r]
            THEN Largest({t \in 0..(r - 1) : row(i) >= starts[t]})
            ELSE r
  IN  rec

GatherStrided(maps, table, start, stop, step, size, workers) ==
  LET n == RangeLen(start, stop, step)
  IN  Filled(n,
             UNION {LET rec == StridedCursor(table.starts, start, step, k)
                    IN  {<< i + 1, At(maps, table, rec[i], start + i * step, size) >> :
                          i \in DOMAIN rec} :
                    k \in Chunks(n, workers)},
             Torn)

\* copy_multirecord_range: of each record that overlaps [start, stop), one copy of the
\* rows within, packed one behind the other.
CopyRange(maps, h, f, c, start, stop) ==
  LET size == Size(f, c)
      row0(r) == RecordStartsRows[f][r]
      lo(r) == Most(start, row0(r)) - row0(r)
      hi(r) == Least(stop, row0(r) + Records[f][r + 1]) - row0(r)
      count(r) == Most(0, hi(r) - lo(r))
      from == BinRecord(RecordStartsRows[f], start)
      pos[r \in from..(Len(Records[f]) - 1)] ==
        IF r = from THEN 0 ELSE pos[r - 1] + count(r - 1)
      src(r) == Base(h) + RecordStartsBytes[f][r]
                  + ColumnPrefix(f, c) * Records[f][r + 1] + lo(r) * size
  IN  FilledCells(stop - start, size,
        UNION {{<< pos[r] * size + k, CellAt(maps, src(r) + k - 1) >> :
                  k \in 1..(count(r) * size)} : r \in DOMAIN pos})

\* parallel_copy_runs: the runs [src, dst, length], taken as one stretch of cells that
\* the workers share, each cell copied to where its run goes.
CopyRuns(maps, runs, workers) ==
  LET prefix == [r \in 0..Len(runs) |-> Total([k \in 1..r |-> runs[k].length])]
      runOf(x) == Largest({r \in 1..Len(runs) : prefix[r - 1] <= x})
      copied(k) == {<< runs[runOf(x)].dst + (x - prefix[runOf(x) - 1]) + 1,
                       CellAt(maps, runs[runOf(x)].src + (x - prefix[runOf(x) - 1])) >> :
                      x \in k[1]..(k[2] - 1)}
  IN  UNION {copied(k) : k \in Chunks(prefix[Len(runs)], workers)}

-----------------------------------------------------------------------------
(* gather_segment_mask.  A first pass counts what each chunk selects, which is where the
   next one's output begins.  In the second a chunk goes through its rows a word of the
   mask at a time while the segment lasts: an empty word is skipped, a full one copied,
   and a mixed one stored row by row, the next store going over a row that was not
   selected; that may reach as far as a word past the place of the next output, so it is
   done only while a word still fits in the chunk's own. *)

Ones(bits, lo, hi) == Cardinality({i \in lo..(hi - 1) : bits[i + 1]})

\* A slip to catch: a word is stored as long as one place is left.
PlaceLeft(out, quota) == out < quota

\* A word stored from place out on stays within the chunk's own output.
WordFits(out, quota) == out + Word <= quota

\* The writes of one chunk: a sequence of output places and rows, with the segment the
\* row is loaded from.
MaskWalk(bits, starts, lo, hi, out0, quota) ==
  LET segOf(i) == Smallest({s \in BinRecord(starts, lo)..(Cardinality(DOMAIN starts) - 2) :
                              i < starts[s + 1]})
      walk[i \in lo..hi, out \in out0..quota] ==
        IF i >= hi THEN << >>
        ELSE LET s    == segOf(i)
                 full == i + Word <= Least(hi, starts[s + 1])
                 ones == Ones(bits, i, i + Word)
                 stored == [b \in 1..Word |->
                              << out + Ones(bits, i, i + b - 1), i + b - 1, s >>]
             IN  IF full /\ ones = 0 THEN walk[i + Word, out]
                 ELSE IF full /\ (ones = Word \/ WordFits(out, quota))
                 THEN stored \o walk[i + Word, out + ones]
                 ELSE IF bits[i + 1] THEN << << out, i, s >> >> \o walk[i + 1, out + 1]
                 ELSE walk[i + 1, out]
  IN  walk[lo, out0]

GatherMask(maps, bits, table, size, workers) ==
  LET n == Len(bits)
      before(k) == Ones(bits, 0, k[1])
      walk(k) == IF k[1] >= k[2] THEN << >>
                 ELSE MaskWalk(bits, table.starts, k[1], k[2],
                               before(k), before(k) + Ones(bits, k[1], k[2]))
      \* the last store of a chunk to a place is the one that stays
      kept(w) == {j \in DOMAIN w : ~ \E j2 \in DOMAIN w : j2 > j /\ w[j2][1] = w[j][1]}
      left(w) == {<< w[j][1] + 1, At(maps, table, w[j][3], w[j][2], size) >> : j \in kept(w)}
  IN  Filled(Ones(bits, 0, n), UNION {left(walk(k)) : k \in Chunks(n, workers)}, Torn)

\* interleave_records: each row of each column copied to its field of a packed record;
\* what is left, column by column.
PackRecords(maps, h, f, cs, n) ==
  LET field(k) == Total([j \in 1..(k - 1) |-> Size(f, cs[j])])
      width    == field(Len(cs) + 1)
      src(k)   == ColumnSegments(h, f, cs[k]).base[0]
      cells    == Filled(n * width,
                    UNION {{<< i * width + field(k) + p + 1,
                               CellAt(maps, src(k) + i * Size(f, cs[k]) + p) >> :
                              i \in 0..(n - 1), p \in 0..(Size(f, cs[k]) - 1)} :
                            k \in DOMAIN cs}, Stray)
  IN  [k \in DOMAIN cs |-> [i \in 1..n |->
         Element(SubSeq(cells, (i - 1) * width + field(k) + 1, (i - 1) * width + field(k + 1)))]]

-----------------------------------------------------------------------------
(* The calls. *)

Maps == [h \in DOMAIN stack |-> Image[stack[h]]]

FirstRow(k) == Total([j \in 1..(k - 1) |-> RowsIn(stack[j])])
RowCount == FirstRow(Len(stack) + 1)
Names == NamesOf(stack[1])
SizeOf(c) == Size(stack[1], c)

TableOf(c) ==
  StitchSegments([k \in DOMAIN stack |-> ColumnSegments(k, stack[k], c)],
                 [k \in DOMAIN stack |-> FirstRow(k)], RowCount, SizeOf(c))

OneRecordEach == \A k \in DOMAIN stack : ~ IsMultiRecord(stack[k])
OneFileOfRecords == Len(stack) = 1 /\ IsMultiRecord(stack[1])

\* A kernel was asked for the rows xs of column c, and left got.
Called(c, xs, got) ==
  /\ call' = [kind |-> "gather", column |-> c, rows |-> xs, got |-> got]
  /\ UNCHANGED stack

Init == stack \in Stacks /\ call = None

\* A store of one record is one segment.
GatherIndexed(c, xs) ==
  /\ OneRecordEach /\ Len(stack) = 1
  /\ Called(c, xs, GatherWithBins(Maps, xs, [i \in DOMAIN xs |-> 0], TableOf(c), SizeOf(c)))

GatherSegment(c, xs) ==
  Called(c, xs, GatherWithBins(Maps, xs, Bins(xs, TableOf(c)), TableOf(c), SizeOf(c)))

\* The segments found for one column serve another.
GatherSegmentWithBins(c1, c2, xs) ==
  /\ c1 # c2
  /\ Called(c2, xs, GatherWithBins(Maps, xs, Bins(xs, TableOf(c1)), TableOf(c2), SizeOf(c2)))

GatherSegmentSorted(c, xs, workers) ==
  Called(c, xs, GatherSorted(Maps, xs, TableOf(c), SizeOf(c), workers))

GatherSegmentUniform(c, xs) ==
  LET rows == UniformSegmentRows(TableOf(c).starts)
  IN  /\ rows # None
      /\ Called(c, xs, GatherWithBins(Maps, xs, UniformBins(xs, rows, TableOf(c)),
                                      TableOf(c), SizeOf(c)))

GatherMultirecordUniform(c, xs) ==
  /\ OneFileOfRecords
  /\ UniformRecordLayout(stack[1]) # None
  /\ LET layout == UniformRecordLayout(stack[1])
     IN  Called(c, xs, GatherRecordBins(Maps, 1, stack[1], c, xs,
                                        RecordBins(xs, stack[1], layout), layout))

GatherMultirecordStrided(c, range, workers) ==
  /\ OneFileOfRecords
  /\ Called(c, Range3(range[1], range[2], range[3]),
            GatherStrided(Maps, TableOf(c), range[1], range[2], range[3], SizeOf(c), workers))

CopyMultirecordRange(c, range) ==
  /\ OneFileOfRecords /\ range[3] = 1 /\ range[1] < range[2]
  /\ Called(c, Range3(range[1], range[2], 1), CopyRange(Maps, 1, stack[1], c, range[1], range[2]))

\* The rows of a range, a run of each file that has some of them, as _parallel_copy and
\* _fill_contiguous_columns have them copied.
ParallelCopyRuns(c, range, workers) ==
  LET low(k)  == Most(range[1], FirstRow(k))
      high(k) == Least(range[2], FirstRow(k + 1))
      run(k)  == [src    |-> ColumnSegments(k, stack[k], c).base[0] + (low(k) - FirstRow(k)) * SizeOf(c),
                  dst    |-> (low(k) - range[1]) * SizeOf(c),
                  length |-> (high(k) - low(k)) * SizeOf(c)]
      files   == SelectSeq([k \in DOMAIN stack |-> k], LAMBDA k : low(k) < high(k))
  IN  /\ OneRecordEach /\ range[3] = 1 /\ range[1] < range[2]
      /\ Called(c, Range3(range[1], range[2], 1),
                FilledCells(range[2] - range[1], SizeOf(c),
                            CopyRuns(Maps, [i \in DOMAIN files |-> run(files[i])], workers)))

GatherSegmentMask(c, bits, workers) ==
  Called(c, FlatNonZero(bits), GatherMask(Maps, bits, TableOf(c), SizeOf(c), workers))

\* The segment of row x in a grid of d rows, which may be much larger than these stacks.
DivideRow(x, d) ==
  /\ call' = [kind |-> "divide", row |-> x, by |-> d, got |-> UniformDivide(x, MakeDivisor(d))]
  /\ UNCHANGED stack

\* The columns of a store of one record, of which c is looked at.
InterleaveRecords(c) ==
  LET cs == [i \in DOMAIN Columns[stack[1]] |-> Columns[stack[1]][i].name]
      k  == CHOOSE i \in DOMAIN cs : cs[i] = c
  IN  /\ OneRecordEach /\ Len(stack) = 1
      /\ Called(c, [i \in 1..RowCount |-> i - 1],
                PackRecords(Maps, 1, stack[1], Reverse(cs), RowCount)[Len(cs) + 1 - k])

\* The index of a file that was cut, or whose headers are damaged.
ReadRecordIndex(length, faults, buffer) ==
  /\ Len(stack) = 1
  /\ call' = [kind |-> "index", length |-> length, faults |-> faults,
              got |-> BufferedWalk(stack[1], length, faults, buffer)]
  /\ UNCHANGED stack

\* An entry point is handed arrays that may not fit.
EnterKernel(kernel, lengths) ==
  /\ call' = [kind |-> "enter", lengths |-> lengths, accepted |-> Accepts(kernel, lengths)]
  /\ UNCHANGED stack

Next ==
  /\ call = None
  /\ \/ \E length \in Preamble..FileEnd(stack[1]), faults \in Faults(stack[1]), buffer \in Buffers :
          ReadRecordIndex(length, faults, buffer)
     \/ \E kernel \in Entries : \E lengths \in Lengths(kernel) : EnterKernel(kernel, lengths)
     \/ \E c \in Names, xs \in Gathers(RowCount) :
          \/ GatherIndexed(c, xs) \/ GatherSegment(c, xs) \/ GatherSegmentUniform(c, xs)
          \/ GatherMultirecordUniform(c, xs)
     \/ \E c1 \in Names, c2 \in Names, xs \in Gathers(RowCount) : GatherSegmentWithBins(c1, c2, xs)
     \/ \E c \in Names, xs \in Gathers(RowCount), workers \in Workers :
          GatherSegmentSorted(c, xs, workers)
     \/ \E c \in Names, range \in Ranges(RowCount) : CopyMultirecordRange(c, range)
     \/ \E c \in Names, range \in Ranges(RowCount), workers \in Workers :
          GatherMultirecordStrided(c, range, workers) \/ ParallelCopyRuns(c, range, workers)
     \/ \E c \in Names, bits \in Masks(RowCount), workers \in Workers :
          GatherSegmentMask(c, bits, workers)
     \/ \E c \in Names : InterleaveRecords(c)
     \/ \E x \in 0..(2 ^ Bits - 1), d \in 1..(2 ^ Bits - 1) : DivideRow(x, d)

Spec == Init /\ [][Next]_vars
-----------------------------------------------------------------------------
(* Properties. *)

\* The rows of the files, one after another, as [mapping, row].
Rows == FlattenSeq([k \in DOMAIN stack |-> [i \in 1..RowsIn(stack[k]) |-> << k, i - 1 >>]])

\* Every kernel gives the rows it was asked for, in the order asked, each whole and of
\* the column asked for: through every table, across empty and uneven records and from
\* one file to the next, whatever the team it is granted, with rows that go back under
\* the cursor that expects them sorted ("Correct output for any index order",
\* gather.cpp), and with mask words stored past the places they fill ("keeps the
\* branchless form inside the thread's own output region", gather.cpp).  The division
\* by multiplication that finds a segment gives the quotient, for every divisor and every
\* row of the width (make_uniform_divisor, uniform_divide).  An entry point that accepts
\* its arrays has the kernel stay within them (_gather.pyx).
KernelsExact ==
  call # None =>
    CASE call.kind = "divide" -> call.got = call.row \div call.by
      [] call.kind = "gather" ->
           call.got = [i \in DOMAIN call.rows |-> Rows[call.rows[i] + 1] \o << call.column >>]
      [] call.kind = "enter"  ->
           call.accepted => \A a \in DOMAIN Reached(call.lengths) :
                               Reached(call.lengths)[a] <= call.lengths[a]
      [] OTHER -> TRUE

\* The walk through the sliding buffer says of every file what the walk in Python says,
\* the same arrays or the same error at the same record, whatever the size of the buffer
\* and wherever the file is cut ("producing byte-identical int64 index arrays",
\* record_index.cpp); and it accepts a file only if it is whole and its headers are good,
\* with the layout the file was written in.
IndexExact ==
  (call # None /\ call.kind = "index") =>
    LET f == stack[1] IN
    /\ call.got = PlainWalk(f, call.length, call.faults)
    /\ call.got.error = None <=> call.faults = {} /\ call.length = FileEnd(f)
    /\ call.got.error = None =>
         /\ \A r \in DOMAIN RecordStartsRows[f] : call.got.rows[r + 1] = RecordStartsRows[f][r]
         /\ \A r \in DOMAIN RecordStartsBytes[f] : call.got.bodies[r + 1] = RecordStartsBytes[f][r]
         /\ call.got.counts = Records[f]
=============================================================================
