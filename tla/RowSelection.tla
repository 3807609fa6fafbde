---------------------------- MODULE RowSelection ----------------------------
(***************************************************************************)
(* What colstore's indexing selects (view.py): the selector a view holds,  *)
(* how it is normalised against the number of rows, how one selection is   *)
(* composed onto another, and the selection NumPy would make, to which it  *)
(* is compared.                                                            *)
(*                                                                         *)
(* A selector is the whole store, a row, a slice, an array of rows or a    *)
(* mask; rows are counted from 0 and kept in sequences, which TLA+ counts  *)
(* from 1.  Bad is what the code answers with an IndexError.               *)
(***************************************************************************)
EXTENDS Integers, Sequences, SequencesExt

CONSTANT None          \* an omitted bound of a slice

ASSUME NoneAssumption == None \notin Int

All == [kind |-> "all"]
Bad == [kind |-> "bad"]
Row(r) == [kind |-> "row", row |-> r]
Slice(a, b, s) == [kind |-> "slice", start |-> a, stop |-> b, step |-> s]
Fancy(rows) == [kind |-> "fancy", rows |-> rows]
Mask(bits) == [kind |-> "mask", bits |-> bits]

\* What can be given as a key; anything else raises (_resolve_row_indexer), and so does a
\* step of 0.
Slices == [kind : {"slice"}, start : Int \cup {None}, stop : Int \cup {None}, step : Int \ {0}]
Selectors == {All} \cup [kind : {"row"}, row : Int] \cup Slices
             \cup [kind : {"fancy"}, rows : Seq(Int)] \cup [kind : {"mask"}, bits : Seq(BOOLEAN)]

Least(a, b) == IF a < b THEN a ELSE b
Most(a, b) == IF a > b THEN a ELSE b

-----------------------------------------------------------------------------
(* Python's slices and ranges, and NumPy's flatnonzero. *)

\* slice.indices(n): start, stop and step with omitted, negative and
\* out-of-range bounds put right.
SliceIndices(key, n) ==
  LET low  == IF key.step > 0 THEN 0 ELSE -1
      high == IF key.step > 0 THEN n ELSE n - 1
      clip(x) == IF x < 0 THEN Most(x + n, low) ELSE Least(x, high)
  IN  << IF key.start = None THEN IF key.step > 0 THEN low ELSE high
                             ELSE clip(key.start),
         IF key.stop = None THEN IF key.step > 0 THEN high ELSE low
                            ELSE clip(key.stop),
         key.step >>

RangeLen(start, stop, step) ==
  Most(0, IF step > 0 THEN (stop - start + step - 1) \div step
                      ELSE (start - stop - step - 1) \div (-step))

Range3(start, stop, step) ==
  [i \in 1..RangeLen(start, stop, step) |-> start + (i - 1) * step]

RowsOfSlice(key, n) ==
  LET x == SliceIndices(key, n) IN Range3(x[1], x[2], x[3])

FlatNonZero(bits) ==
  LET set[i \in 0..Len(bits)] ==
        IF i = 0 THEN << >> ELSE IF bits[i] THEN Append(set[i - 1], i - 1) ELSE set[i - 1]
  IN  set[Len(bits)]

-----------------------------------------------------------------------------
(* Normalisation. *)

FoldRow(r, n) == IF r < 0 THEN r + n ELSE r

\* _validate_fancy_index
ValidFancy(rows, n) ==
  LET folded == [i \in DOMAIN rows |-> FoldRow(rows[i], n)]
  IN  IF \E i \in DOMAIN rows : folded[i] \notin 0..(n - 1) THEN Bad ELSE Fancy(folded)

\* _resolve_row_indexer, of a selector that is not a predicate.
Resolve(part, n) ==
  CASE part.kind = "row" ->
         LET r == FoldRow(part.row, n) IN IF r \in 0..(n - 1) THEN Row(r) ELSE Bad
    [] part.kind = "fancy" -> ValidFancy(part.rows, n)
    [] part.kind = "mask" -> IF Len(part.bits) = n THEN part ELSE Bad
    [] OTHER -> part

\* The rows a normalised selector stands for, in the order it gives them.
RowsOf(sel, n) ==
  CASE sel.kind = "all"   -> [i \in 1..n |-> i - 1]
    [] sel.kind = "row"   -> << sel.row >>
    [] sel.kind = "slice" -> RowsOfSlice(sel, n)
    [] sel.kind = "fancy" -> sel.rows
    [] sel.kind = "mask"  -> FlatNonZero(sel.bits)

-----------------------------------------------------------------------------
(* Composition: view[key]. *)

\* A slip to catch: a reverse run that passes row 0 ends in a negative bound.
ComposeSlicesPast(start, step, length, key) ==
  LET sub   == SliceIndices(key, length)
      first == start + sub[1] * step
  IN  Slice(first, first + RangeLen(sub[1], sub[2], sub[3]) * step * sub[3], step * sub[3])

\* A slice of range(start, _, step), length rows of it, as a slice of the store.
\* A reverse run that passes row 0 ends in an omitted bound: a negative one would
\* count from the end.
ComposeSlices(start, step, length, key) ==
  LET sub   == SliceIndices(key, length)
      count == RangeLen(sub[1], sub[2], sub[3])
      by    == step * sub[3]
      first == start + sub[1] * step
      past  == first + count * by
  IN  IF count = 0 THEN Slice(0, 0, 1)
      ELSE Slice(first, IF by < 0 /\ past < 0 THEN None ELSE past, by)

\* The rows of a view of length rows that key selects.
KeyToViewIndices(key, length) ==
  CASE key.kind = "slice" -> Fancy(RowsOfSlice(key, length))
    [] key.kind = "mask"  -> IF Len(key.bits) = length THEN Fancy(FlatNonZero(key.bits))
                                                       ELSE Bad
    [] OTHER -> Resolve(key, length)

\* _compose_rows, with the view's selector normalised to current: the whole store
\* takes the key as it is, to be normalised when it is read.
Compose(current, key, n) ==
  CASE current.kind = "bad" -> Bad
    [] current.kind = "all" -> key
    [] current.kind = "slice" ->
         LET x   == SliceIndices(current, n)
             len == RangeLen(x[1], x[2], x[3])
             sub == KeyToViewIndices(key, len)
         IN  IF key.kind = "slice" THEN ComposeSlices(x[1], x[3], len, key)
             ELSE CASE sub.kind = "row"   -> Row(x[1] + sub.row * x[3])
                    [] sub.kind = "fancy" ->
                         Fancy([i \in DOMAIN sub.rows |-> x[1] + sub.rows[i] * x[3]])
                    [] OTHER -> Bad
    [] OTHER ->
         LET at  == RowsOf(current, n)
             sub == KeyToViewIndices(key, Len(at))
         IN  CASE sub.kind = "row"   -> Row(at[sub.row + 1])
               [] sub.kind = "fancy" ->
                    Fancy([i \in DOMAIN sub.rows |-> at[sub.rows[i] + 1]])
               [] OTHER -> Bad

\* _head_rows and _tail_rows of a normalised selector.
HeadRows(sel, k, n) ==
  CASE sel.kind \in {"row", "bad"} -> sel
    [] sel.kind = "all" -> Slice(0, k, 1)
    [] OTHER -> LET at == RowsOf(sel, n) IN Fancy(SubSeq(at, 1, Least(k, Len(at))))

TailRows(sel, k, n) ==
  CASE sel.kind \in {"row", "bad"} -> sel
    [] sel.kind = "all" -> Slice(Most(0, n - k), n, 1)
    [] OTHER -> LET at == RowsOf(sel, n)
                IN  Fancy(SubSeq(at, Most(0, Len(at) - k) + 1, Len(at)))

\* count()
CountOf(sel, n) ==
  CASE sel.kind = "all"   -> n
    [] sel.kind = "row"   -> 1
    [] sel.kind = "slice" ->
         LET x == SliceIndices(sel, n) IN RangeLen(x[1], x[2], x[3])
    [] sel.kind = "mask"  -> Len(FlatNonZero(sel.bits))
    [] sel.kind = "fancy" -> Len(sel.rows)

-----------------------------------------------------------------------------
(* The reference: what indexing the sequence rows with key means to NumPy.  An
   index counts from the end when it is negative, that is modulo the length. *)

InBounds(i, n) == -n <= i /\ i < n

Picks(rows, key) ==
  LET n == Len(rows)
      at(i) == rows[(i % n) + 1]
  IN  CASE key.kind = "all" -> [ok |-> TRUE, rows |-> rows]
        [] key.kind = "row" ->
             IF InBounds(key.row, n) THEN [ok |-> TRUE, rows |-> << at(key.row) >>]
                                     ELSE [ok |-> FALSE, rows |-> << >>]
        [] key.kind = "slice" ->
             LET x == RowsOfSlice(key, n)
             IN  [ok |-> TRUE, rows |-> [i \in DOMAIN x |-> rows[x[i] + 1]]]
        [] key.kind = "fancy" ->
             IF \A i \in DOMAIN key.rows : InBounds(key.rows[i], n)
             THEN [ok |-> TRUE, rows |-> [i \in DOMAIN key.rows |-> at(key.rows[i])]]
             ELSE [ok |-> FALSE, rows |-> << >>]
        [] key.kind = "mask" ->
             IF Len(key.bits) = n
             THEN [ok |-> TRUE,
                   rows |-> [i \in 1..Len(FlatNonZero(key.bits)) |->
                               rows[FlatNonZero(key.bits)[i] + 1]]]
             ELSE [ok |-> FALSE, rows |-> << >>]
=============================================================================
