---------------------------- MODULE NativeEntries ---------------------------
(***************************************************************************)
(* What stands between Python and the compiled kernels: the walk over the  *)
(* record headers of a file, in C++ through a sliding buffer               *)
(* (src/cpp/record_index.cpp) and in Python one header at a time           *)
(* (format.py), and the checks on the arrays a kernel is handed            *)
(* (src/cython/_gather.pyx), which it then indexes without any check.      *)
(***************************************************************************)
EXTENDS SegmentGather

-----------------------------------------------------------------------------
(* Record headers.  A file may be cut short anywhere past its preamble, and its faults
   are pairs of a record and what is wrong with its header. *)

HeaderStart(f, r) == RecordStartsBytes[f][r] - HeaderCells
FileEnd(f) == Len(Image[f])

\* A read of up to count cells at place at: the places of the cells it returns.
ReadAt(length, at, count) ==
  [k \in 1..Most(0, Least(count, length - at)) |-> at + k - 1]

\* The record whose header the cells are, if they are one.
HeaderIn(f, cells) ==
  LET is(r) == cells = [k \in 1..HeaderCells |-> HeaderStart(f, r) + k - 1]
  IN  IF \E r \in DOMAIN RecordStartsBytes[f] : is(r)
      THEN CHOOSE r \in DOMAIN RecordStartsBytes[f] : is(r) ELSE None

HeaderFaults == {"magic", "index", "checksum"}
WalkErrors == HeaderFaults \cup {"truncated", "body"}

ASSUME ErrorsAssumption == None \notin WalkErrors \cup (WalkErrors \X Int)

\* What is wrong with a header where record r's is expected, in the order it is looked at.
HeaderError(f, faults, cells, r) ==
  LET found == HeaderIn(f, cells) IN
  IF Len(cells) < HeaderCells THEN "truncated"
  ELSE IF found = None \/ << found, "magic" >> \in faults THEN "magic"
  ELSE IF found # r \/ << found, "index" >> \in faults THEN "index"
  ELSE IF << found, "checksum" >> \in faults THEN "checksum"
  ELSE None

WalkStart == [next |-> Preamble, from |-> 0, cells |-> << >>,
              rows |-> << 0 >>, bodies |-> << >>, counts |-> << >>, error |-> None]

\* Record r, counted from 0, taken in by a walk that has the cells from place `from` on.
Take(w, f, faults, r, from, cells) ==
  LET at     == w.next - from
      header == SubSeq(cells, at + 1, Least(at + HeaderCells, Len(cells)))
      error  == HeaderError(f, faults, header, r)
      count  == Records[f][r + 1]
      body   == w.next + HeaderCells
  IN  IF error # None THEN [w EXCEPT !.error = << error, r >>]
      ELSE [next |-> body + AlignUp(count * RowSize(f), BodyAlign),
            from |-> from, cells |-> cells,
            rows |-> Append(w.rows, Last(w.rows) + count),
            bodies |-> Append(w.bodies, body), counts |-> Append(w.counts, count),
            error |-> None]

\* A truncated last body is seen by the size of the file only.
WalkEnd(w, f, length) ==
  [rows |-> w.rows, bodies |-> w.bodies, counts |-> w.counts,
   error |-> IF w.error = None /\ length < w.next
             THEN << "body", Len(Records[f]) - 1 >> ELSE w.error]

\* _read_record_index_walk
PlainStep(w, f, length, faults, r) ==
  IF w.error # None THEN w
  ELSE Take(w, f, faults, r, w.next, ReadAt(length, w.next, HeaderCells))

PlainWalk(f, length, faults) ==
  LET walk[n \in 0..Len(Records[f])] ==
        IF n = 0 THEN WalkStart ELSE PlainStep(walk[n - 1], f, length, faults, n - 1)
  IN  WalkEnd(walk[Len(Records[f])], f, length)

\* A slip to catch: the buffer holds the first cell of the header.
BufferedInPart(w) == w.from <= w.next /\ w.next < w.from + Len(w.cells)

\* The header at place next is in the buffer.
Buffered(w) == w.from <= w.next /\ w.next + HeaderCells <= w.from + Len(w.cells)

\* colstore_read_record_index: a buffer of chunk cells, but of a header at the least, is
\* filled again from the header on when that is not in it.
BufferedStep(w, f, length, faults, chunk, r) ==
  IF w.error # None THEN w
  ELSE IF Buffered(w) THEN Take(w, f, faults, r, w.from, w.cells)
  ELSE Take(w, f, faults, r, w.next, ReadAt(length, w.next, Most(chunk, HeaderCells)))

BufferedWalk(f, length, faults, chunk) ==
  LET walk[n \in 0..Len(Records[f])] ==
        IF n = 0 THEN WalkStart ELSE BufferedStep(walk[n - 1], f, length, faults, chunk, n - 1)
  IN  WalkEnd(walk[Len(Records[f])], f, length)

-----------------------------------------------------------------------------
(* Arrays.  L has the lengths of the arrays of a call, and the numbers that come with
   them.  An operator for each entry point says which calls it accepts. *)

GatherAccepts(L) == L.output = L.indices
GatherBytesAccepts(L) == L.output = L.indices

GatherSegmentAccepts(L) == L.output = L.indices /\ L.starts = L.base + 1
GatherSegmentSortedAccepts(L) == L.output = L.indices /\ L.starts = L.base + 1
GatherSegmentBinsAccepts(L) ==
  L.output = L.indices /\ L.bins = L.indices /\ L.starts = L.base + 1
GatherSegmentWithbinsAccepts(L) == L.output = L.indices /\ L.bins = L.indices
GatherSegmentUniformAccepts(L) == L.grid > 0 /\ L.output = L.indices
GatherSegmentUniformBinsAccepts(L) ==
  L.grid > 0 /\ L.output = L.indices /\ L.bins = L.indices

\* The grid of a file of uniform records: rows of a record and of the last, and records.
UniformGrid(L) == L.grid > 0 /\ L.records > 0 /\ L.last \in 1..L.grid
GatherMultirecordUniformAccepts(L) == UniformGrid(L) /\ L.output = L.indices
GatherMultirecordUniformBinsAccepts(L) ==
  UniformGrid(L) /\ L.output = L.indices /\ L.bins = L.indices
GatherMultirecordUniformWithbinsAccepts(L) ==
  UniformGrid(L) /\ L.output = L.indices /\ L.bins = L.indices

\* The three arrays of a record index.
RecordArrays(L) == L.counts = L.base /\ L.starts = L.base + 1
GatherMultirecordStridedAccepts(L) ==
  L.step # 0 /\ RecordArrays(L) /\ L.output = RangeLen(0, L.stop, L.step)
CopyMultirecordRangeAccepts(L) == RecordArrays(L)

\* The kernel counts what the mask selects before it writes.
GatherSegmentMaskAccepts(L) ==
  L.starts = L.base + 1 /\ L.mask = L.rows /\ L.output = L.selected

ParallelCopyRunsAccepts(L) == L.dst = L.src /\ L.bytes = L.src
InterleaveRecordsAccepts(L) == L.sizes = L.src /\ L.fields = L.src

Accepts(kernel, L) ==
  CASE kernel = "gather"                        -> GatherAccepts(L)
    [] kernel = "gather_bytes"                  -> GatherBytesAccepts(L)
    [] kernel = "gather_segment"                -> GatherSegmentAccepts(L)
    [] kernel = "gather_segment_sorted"         -> GatherSegmentSortedAccepts(L)
    [] kernel = "gather_segment_bins"           -> GatherSegmentBinsAccepts(L)
    [] kernel = "gather_segment_withbins"       -> GatherSegmentWithbinsAccepts(L)
    [] kernel = "gather_segment_uniform"        -> GatherSegmentUniformAccepts(L)
    [] kernel = "gather_segment_uniform_bins"   -> GatherSegmentUniformBinsAccepts(L)
    [] kernel = "gather_multirecord_uniform"    -> GatherMultirecordUniformAccepts(L)
    [] kernel = "gather_multirecord_uniform_bins" ->
         GatherMultirecordUniformBinsAccepts(L)
    [] kernel = "gather_multirecord_uniform_withbins" ->
         GatherMultirecordUniformWithbinsAccepts(L)
    [] kernel = "gather_multirecord_strided"    -> GatherMultirecordStridedAccepts(L)
    [] kernel = "copy_multirecord_range"        -> CopyMultirecordRangeAccepts(L)
    [] kernel = "gather_segment_mask"           -> GatherSegmentMaskAccepts(L)
    [] kernel = "parallel_copy_runs"            -> ParallelCopyRunsAccepts(L)
    [] kernel = "interleave_records"            -> InterleaveRecordsAccepts(L)

\* How many elements of each array the kernels' loops reach: one for every row they fill,
\* every segment or record of the table, every row of the mask and every run.
Reached(L) ==
  LET rows == IF "indices" \in DOMAIN L THEN L.indices
              ELSE IF "step" \in DOMAIN L THEN RangeLen(0, L.stop, L.step) ELSE L.selected
  IN  [a \in DOMAIN L \cap {"output", "bins", "starts", "counts", "mask",
                            "dst", "bytes", "sizes", "fields"} |->
         CASE a \in {"output", "bins"} -> rows
           [] a = "starts"  -> L.base + 1
           [] a = "counts"  -> L.base
           [] a = "mask"    -> L.rows
           [] OTHER         -> L.src]
=============================================================================
