----------------------------- MODULE TableReads -----------------------------
(***************************************************************************)
(* Reading a table: readers of one file (reader.py), the dataset that      *)
(* presents several as one (dataset.py), and the views through which rows  *)
(* are selected (view.py, _base.py).                                       *)
(*                                                                         *)
(* The user opens and closes readers, makes and grows a dataset of paths   *)
(* and readers, selects rows of it, narrows the selection, and reads: as   *)
(* arrays, as views of the mapped memory, or as records.  Which kernel     *)
(* serves a read depends on the extension, on thread counts and on gates   *)
(* that are measured on the host: what of that matters here is an          *)
(* environment, chosen anew for every read; what the kernels give is       *)
(* GatherRows, as module GatherKernels checks.  A read leaves the elements *)
(* it found, or has raised; an element tells the mapping, row and column   *)
(* it was loaded from.                                                     *)
(*                                                                         *)
(* There is one view at a time: it is made, narrowed, read and let go of,  *)
(* and does not outlive an append() to its dataset.                        *)
(***************************************************************************)
EXTENDS SegmentGather

CONSTANTS Handles,        \* readers there can be at one time, numbered
          Modes,          \* on_mismatch: strict, drop
          Missing,        \* a path that does not open
          Dataset,        \* what a view of the dataset selects from
          Sources,        \* what append() is given: sequences of paths and readers
          Requests,       \* the columns a read asks for: sequences of names
          Environments,   \* the extension is there; masks go to its kernel: [cpp, dense]
          Keys(_),        \* the selectors tried on so many rows
          Narrowings(_),  \* the ones tried on a view of so many
          Values,         \* [Files -> Seq]: the values of the column that is queried
          Queried,        \* its name
          NaN,
          Comparisons,    \* pairs of an operator and a scalar
          MaxReaders,     \* bound: readers the user opens
          MaxRows,        \* bound: rows of a dataset
          MaxNarrowings,  \* bound: selections on top of one another
          Peek            \* rows of a head or a tail

ASSUME HandleAssumption == IsFiniteSet(Handles) /\ Handles = 1..Cardinality(Handles)
ASSUME FilesAssumption == None \notin Files /\ \A f \in Files : ToSet(Columns[f]) # {}
ASSUME SourcesAssumption ==
  \A sources \in Sources :
    /\ sources # << >>
    /\ sources \in Seq([kind : {"path"}, file : Files \cup {Missing}]
                         \cup [kind : {"reader"}, handle : Handles])
ASSUME RequestsAssumption == Requests \subseteq Seq(STRING) \ {<< >>}
ASSUME PeekAssumption == Peek \in Nat \ {0}
ASSUME DatasetAssumption == Dataset \notin Handles
ASSUME ValuesAssumption ==
  /\ NaN \notin Int
  /\ \A f \in Files : Values[f] \in Seq(Int \cup {NaN}) /\ Len(Values[f]) = RowsIn(f)
  /\ Comparisons \subseteq {">", ">=", "<", "<=", "=="} \X (Int \cup {NaN})

VARIABLES file,      \* of each handle its file, None when it is not in use
          live,      \* the handles that are open, their files mapped
          mine,      \* those the user opened
          mode, children, owned, schema, offsets,   \* the dataset
          memo,      \* its stitched segment tables, by column
          grid,      \* whether they make a uniform grid, once that is known
          closed,    \* the dataset is closed
          view,      \* the view: what it selects from, what, and the rows it should
          out        \* the last read

vars == << file, live, mine, mode, children, owned, schema, offsets, memo, grid,
           closed, view, out >>
dataset == << mode, children, owned, schema, offsets, memo, grid, closed >>

-----------------------------------------------------------------------------
(* One reader. *)

Maps == [h \in live |-> Image[file[h]]]

Got(elements) == [ok |-> TRUE, got |-> elements]
Raised == [ok |-> FALSE, got |-> << >>]

Sorted(xs) == \A i \in 1..(Len(xs) - 1) : xs[i] <= xs[i + 1]

\* A slice forward that ends before it begins.
Backward(sel, n) ==
  sel.kind = "slice" /\ sel.step = 1 /\ SliceIndices(sel, n)[2] < SliceIndices(sel, n)[1]

\* What the kernels and copies that serve a reader leave: a store of one record is one
\* segment, and of a store of several each record is.
ReadRows(h, c, xs) ==
  GatherRows(Maps, xs, ColumnSegments(h, file[h], c), Size(file[h], c))

\* _gather_one and _gather_one_multi_record.  A store of several records is read by the
\* extension, which is imported before anything else, and a range of it that ends before
\* it starts is an array of negative size.
ReadOne(h, c, sel, env) ==
  IF \/ h \notin live
     \/ IsMultiRecord(file[h]) /\ (~ env.cpp \/ Backward(sel, RowsIn(file[h])))
  THEN Raised
  ELSE Got(ReadRows(h, c, RowsOf(sel, RowsIn(file[h]))))

\* _gather_many
ReadMany(h, cs, sel, env) == [i \in DOMAIN cs |-> ReadOne(h, cs[i], sel, env)]

\* _view_one: the mapped memory itself, of a single-record store.
ViewOne(h, c, sel) ==
  IF h \notin live \/ IsMultiRecord(file[h]) \/ sel.kind \in {"fancy", "mask"} THEN Raised
  ELSE Got(ReadRows(h, c, RowsOf(sel, RowsIn(file[h]))))

-----------------------------------------------------------------------------
(* The dataset's rows among its children. *)

RowCount == offsets[Len(offsets)]
ChildRows(k) == offsets[k + 1] - offsets[k]

\* _locate: << child, local row >>
Locate(g) ==
  LET k == Cardinality({j \in 1..Len(children) : offsets[j + 1] <= g}) + 1
  IN  << k, g - offsets[k] >>

\* A slip to catch: a step starts over in every child.
ChildSliceOutOfPhase(k, x) ==
  Slice(Most(x[1], offsets[k]) - offsets[k], Least(offsets[k + 1], x[2]) - offsets[k], x[3])

\* The rows of range x that lie in child k, as its own slice.
ChildSlice(k, x) ==
  LET skip  == Most(0, offsets[k] - x[1])
      first == x[1] + ((skip + x[3] - 1) \div x[3]) * x[3]
  IN  Slice(first - offsets[k], Least(offsets[k + 1], x[2]) - offsets[k], x[3])

\* A child's part of a contiguous read: << child, its selector, rows >>.  _slice_parts,
\* for a step forward,
SliceParts(sel) ==
  LET parts(subs) ==
        LET of == SelectSeq([k \in DOMAIN subs |-> k],
                            LAMBDA k : ChildRows(k) > 0 /\ subs[k].start < subs[k].stop)
        IN  [i \in DOMAIN of |->
               << of[i], subs[of[i]], CountOf(subs[of[i]], ChildRows(of[i])) >>]
  IN  parts([k \in 1..Len(children) |-> ChildSlice(k, SliceIndices(sel, RowCount))])

\* _mask_parts
MaskParts(bits) ==
  LET sub(k) == SubSeq(bits, offsets[k] + 1, offsets[k + 1])
      of     == SelectSeq([k \in 1..Len(children) |-> k], LAMBDA k : TRUE \in ToSet(sub(k)))
  IN  [i \in DOMAIN of |-> << of[i], Mask(sub(of[i])), CountOf(Mask(sub(of[i])), 0) >>]

\* The children that have rows.
WithRows(kids, offs) ==
  SelectSeq([k \in 1..Len(kids) |-> k], LAMBDA k : offs[k + 1] - offs[k] > 0)

\* _offset_regions
WholeParts ==
  LET of == WithRows(children, offsets)
  IN  [i \in DOMAIN of |-> << of[i], All, ChildRows(of[i]) >>]

\* _fill_contiguous_columns: a part is copied if it can be viewed and gathered if not, and
\* put where the parts before it end.
FillContiguous(c, parts, env) ==
  LET place(i) == Total([j \in 1..(i - 1) |-> parts[j][3]])
      part(i)  == LET h == children[parts[i][1]] IN
                  IF ViewOne(h, c, parts[i][2]).ok THEN ViewOne(h, c, parts[i][2])
                                                   ELSE ReadOne(h, c, parts[i][2], env)
      filled(sources) ==
        IF \E i \in DOMAIN sources : ~ sources[i].ok THEN Raised
        ELSE Got(Filled(place(Len(parts) + 1),
                        UNION {{<< place(i) + j, sources[i].got[j] >> :
                                  j \in DOMAIN sources[i].got} : i \in DOMAIN sources},
                        Torn))
  IN  filled([i \in DOMAIN parts |-> part(i)])

-----------------------------------------------------------------------------
(* The dataset's gather of rows anywhere. *)

SchemaSize(c) == (CHOOSE x \in schema : x.name = c).size

\* _stitch_native_segment_table: None if a child that has rows is closed, or none has any.
Stitch(c) ==
  LET with == WithRows(children, offsets)
      child(i) == children[with[i]]
  IN  IF with = << >> \/ \E k \in DOMAIN children : ChildRows(k) > 0 /\ children[k] \notin live
      THEN None
      ELSE StitchSegments([i \in DOMAIN with |-> ColumnSegments(child(i), file[child(i)], c)],
                          [i \in DOMAIN with |-> offsets[with[i]]], RowCount, SchemaSize(c))

\* _native_segment_table, and the memo after tables of these columns were asked for.
TableOf(c, env) == IF ~ env.cpp THEN None ELSE IF c \in DOMAIN memo THEN memo[c] ELSE Stitch(c)
Memoised(cs, env) ==
  IF ~ env.cpp THEN memo
  ELSE [c \in DOMAIN memo \cup ToSet(cs) |-> TableOf(c, env)]

\* _uniform_segment_grid
GridOf(table) == IF grid.known THEN grid.rows ELSE UniformSegmentRows(table.starts)

\* The segments of the rows, as the kernels find them: by the grid when the rows are in no
\* order and there is one.
BinsOf(xs, table) ==
  IF ~ Sorted(xs) /\ GridOf(table) # None THEN GridBins(xs, GridOf(table), table)
                                         ELSE SegmentBins(xs, table)

\* _sorted_blocks: the rows sorted, the runs of a child gathered, and put back in order.
SortedBlocks(c, xs, env) ==
  LET order  == SortSeq([i \in DOMAIN xs |-> i],
                        LAMBDA i, j : xs[i] < xs[j] \/ (xs[i] = xs[j] /\ i < j))
      of(k)  == SelectSeq([i \in DOMAIN xs |-> xs[order[i]]],
                          LAMBDA x : offsets[k] <= x /\ x < offsets[k + 1])
      local(rows, k) == Fancy([i \in DOMAIN rows |-> rows[i] - offsets[k]])
      block(k) == IF of(k) = << >> THEN Got(<< >>)
                  ELSE ReadOne(children[k], c, local(of(k), k), env)
      restored(blocks, buffer) ==
        IF \E k \in DOMAIN blocks : ~ blocks[k].ok THEN Raised
        ELSE Got([i \in DOMAIN xs |-> buffer[CHOOSE k \in DOMAIN order : order[k] = i]])
      joined(blocks) == restored(blocks, FlattenSeq([k \in DOMAIN blocks |-> blocks[k].got]))
  IN  joined([k \in 1..Len(children) |-> block(k)])

\* _fancy_one, _fancy_many and _native_gather.  The segments found for the first column
\* serve the others; without a table for every column the read goes file by file.
FancyMany(cs, xs, env) ==
  LET gathered(tables) ==
        IF xs # << >> /\ \E i \in DOMAIN cs : tables[i] = None
        THEN [i \in DOMAIN cs |-> SortedBlocks(cs[i], xs, env)]
        ELSE [i \in DOMAIN cs |->
                Got(IF xs = << >> THEN << >>
                    ELSE GatherWithBins(Maps, xs, BinsOf(xs, tables[1]), tables[i],
                                        SchemaSize(cs[i])))]
  IN  gathered([i \in DOMAIN cs |-> TableOf(cs[i], env)])

-----------------------------------------------------------------------------
(* The dataset's dispatch: what a read gives, column by column. *)

\* _mask_native serves it
TakesMask(cs, sel, env) ==
  /\ sel.kind = "mask" /\ RowCount > 0 /\ env.dense
  /\ \A c \in ToSet(cs) : TableOf(c, env) # None

\* The rows a read gathers by their numbers: an array, or a slice backward.
GathersRows(sel) == sel.kind = "fancy" \/ (sel.kind = "slice" /\ sel.step < 0)

Parts(sel) ==
  CASE sel.kind = "all"   -> WholeParts
    [] sel.kind = "slice" -> SliceParts(sel)
    [] sel.kind = "mask"  -> MaskParts(sel.bits)

\* _gather_one and _gather_many
GatherTable(cs, sel, env) ==
  IF closed THEN [i \in DOMAIN cs |-> Raised]
  ELSE IF Len(children) = 1 THEN ReadMany(children[1], cs, sel, env)
  ELSE IF TakesMask(cs, sel, env)
  THEN [i \in DOMAIN cs |->
          Got(GatherRows(Maps, FlatNonZero(sel.bits), TableOf(cs[i], env), SchemaSize(cs[i])))]
  ELSE IF sel.kind = "row"
  THEN ReadMany(children[Locate(sel.row)[1]], cs, Row(Locate(sel.row)[2]), env)
  ELSE IF GathersRows(sel) THEN FancyMany(cs, RowsOf(sel, RowCount), env)
  ELSE [i \in DOMAIN cs |-> FillContiguous(cs[i], Parts(sel), env)]

\* _view_one and _view_many
ViewTable(c, sel) ==
  IF closed THEN Raised
  ELSE IF Len(children) = 1 THEN ViewOne(children[1], c, sel)
  ELSE IF sel.kind = "row" THEN ViewOne(children[Locate(sel.row)[1]], c, Row(Locate(sel.row)[2]))
  ELSE IF sel.kind # "slice" THEN Raised
  ELSE IF sel.step < 0 THEN Raised
  ELSE LET of(parts) == IF Len(parts) > 1 THEN Raised
                        ELSE IF parts = << >> THEN ViewOne(children[1], c, Slice(0, 0, 1))
                        ELSE ViewOne(children[parts[1][1]], c, parts[1][2])
       IN  of(SliceParts(sel))

\* Whether a read asks the dataset for its tables, and whether for its grid.
AsksTables(sel, env) ==
  /\ ~ closed /\ Len(children) > 1
  /\ \/ sel.kind = "mask" /\ RowCount > 0 /\ env.dense
     \/ GathersRows(sel) /\ RowsOf(sel, RowCount) # << >>

AsksGrid(cs, sel, env) ==
  /\ AsksTables(sel, env) /\ GathersRows(sel) /\ ~ Sorted(RowsOf(sel, RowCount))
  /\ \A c \in ToSet(cs) : TableOf(c, env) # None

-----------------------------------------------------------------------------
(* Readers and the dataset: opening, growing, closing. *)

EmptyTable == [c \in {} |-> None]
UnknownGrid == [known |-> FALSE, rows |-> None]

Init == /\ file = [h \in Handles |-> None] /\ live = {} /\ mine = {}
        /\ mode \in Modes /\ children = << >> /\ owned = << >> /\ schema = {}
        /\ offsets = << 0 >> /\ memo = EmptyTable /\ grid = UnknownGrid /\ closed = FALSE
        /\ view = None /\ out = None

Unused == {h \in Handles : file[h] = None}

\* ColStoreReader(path), up to MaxReaders of them, before there is a dataset to take them.
OpenReader(f) ==
  /\ Unused # {} /\ Cardinality(mine) < MaxReaders
  /\ children = << >> /\ view = None
  /\ file' = [file EXCEPT ![Smallest(Unused)] = f]
  /\ live' = live \cup {Smallest(Unused)}
  /\ mine' = mine \cup {Smallest(Unused)}
  /\ out' = None
  /\ UNCHANGED << dataset, view >>

\* _coerce_to_children: readers are borrowed, paths opened in turn, and closed again if
\* one of them does not open.
Paths(sources) == {i \in DOMAIN sources : sources[i].kind = "path"}
HandleOf(sources, i) ==
  LET earlier == Cardinality({j \in Paths(sources) : j < i})
  IN  CHOOSE h \in Unused : Cardinality({g \in Unused : g < h}) = earlier
FailsAt(sources, i) == i \in Paths(sources) /\ sources[i].file = Missing
Opened(sources) ==
  {i \in Paths(sources) : \A j \in DOMAIN sources : FailsAt(sources, j) => i < j}
Child(sources, i) == IF i \in Paths(sources) THEN HandleOf(sources, i) ELSE sources[i].handle

\* A slip to catch: what a failed append() opened stays open.
KeepAll(handles) == live' = live \cup handles

\* The files of the readers a failed append() opened are closed.
CloseAll(handles) == live' = live \ handles

SchemaOf(f) == ToSet(Columns[f])
SchemasOf(files) == {SchemaOf(f) : f \in files}

\* A slip to catch: columns of a name are taken for the same.
CommonNames(files) ==
  {x \in UNION SchemasOf(files) : \A s \in SchemasOf(files) : \E y \in s : y.name = x.name}

\* _common_schema, and _validate_against every reader in turn.
CommonSchema(files) == {x \in UNION SchemasOf(files) : \A s \in SchemasOf(files) : x \in s}
Agrees(files) == Cardinality(SchemasOf(files) \cup (IF schema = {} THEN {} ELSE {schema})) <= 1

\* A slip to catch: the memo is left as it is.
RebuildOffsetsOnly(kids) ==
  /\ offsets' = [k \in 1..(Len(kids) + 1) |->
                   Total([j \in 1..(k - 1) |-> RowsIn(file'[kids[j]])])]
  /\ UNCHANGED << memo, grid >>

\* _rebuild_offsets
RebuildOffsets(kids) ==
  /\ offsets' = [k \in 1..(Len(kids) + 1) |->
                   Total([j \in 1..(k - 1) |-> RowsIn(file'[kids[j]])])]
  /\ memo' = EmptyTable
  /\ grid' = UnknownGrid

\* append(), of sources that are there, while no view is.
AppendSources(sources) ==
  LET opened   == Opened(sources)
      fresh    == {HandleOf(sources, i) : i \in opened}
      added    == [i \in DOMAIN sources |-> Child(sources, i)]
      kids     == children \o added
      fileOf(i) == IF i \in Paths(sources) THEN sources[i].file ELSE file[sources[i].handle]
      files    == {fileOf(i) : i \in DOMAIN sources}
      all      == files \cup {file[children[k]] : k \in DOMAIN children}
      fails    == \E i \in DOMAIN sources : FailsAt(sources, i)
      refused  == IF mode = "drop" THEN CommonSchema(all) = {} ELSE ~ Agrees(files)
  IN  /\ ~ closed /\ view = None
      /\ Cardinality(Paths(sources)) <= Cardinality(Unused)
      /\ \A i \in DOMAIN sources \ Paths(sources) : sources[i].handle \in live \cap mine
      /\ IF fails \/ refused
         THEN /\ CloseAll(fresh)
              /\ out' = None
              /\ UNCHANGED << file, mine, dataset, view >>
         ELSE /\ RowCount + Total([i \in DOMAIN sources |-> RowsIn(fileOf(i))]) <= MaxRows
              /\ file' = [h \in Handles |->
                            IF h \in fresh
                            THEN fileOf(CHOOSE i \in opened : HandleOf(sources, i) = h)
                            ELSE file[h]]
              /\ live' = live \cup fresh
              /\ children' = kids
              /\ owned' = owned \o [i \in DOMAIN sources |-> i \in Paths(sources)]
              /\ schema' = IF mode = "drop" THEN CommonSchema(all)
                           ELSE IF schema = {} THEN SchemaOf(fileOf(1)) ELSE schema
              /\ RebuildOffsets(kids)
              /\ out' = None
              /\ UNCHANGED << mine, mode, closed, view >>

\* ColStoreDataset.close(): only the children it opened.
CloseDataset ==
  /\ ~ closed /\ out = None
  /\ closed' = TRUE
  /\ live' = live \ {children[k] : k \in {j \in DOMAIN children : owned[j]}}
  /\ UNCHANGED << file, mine, mode, children, owned, schema, offsets, memo, grid, view, out >>

\* ColStoreReader.close()
CloseReader(h) ==
  /\ h \in mine \cap live /\ out = None
  /\ live' = live \ {h}
  /\ UNCHANGED << file, mine, dataset, view, out >>

-----------------------------------------------------------------------------
(* Views. *)

\* The rows of what a view selects from: of the dataset, or of a reader.
TableRows(on) == IF on = Dataset THEN RowCount ELSE RowsIn(file[on])
FirstRows(n) == [i \in 1..n |-> i - 1]
Selected == Resolve(view.part, TableRows(view.on))

\* dataset[key]
Select(key) ==
  /\ key \in Selectors
  /\ children # << >> /\ ~ closed
  /\ view = None
  /\ view' = [on |-> Dataset, part |-> key, want |-> Picks(FirstRows(RowCount), key), depth |-> 0]
  /\ out' = None
  /\ UNCHANGED << file, live, mine, dataset >>

\* view[key]; a view that does not resolve has no rows to narrow, and "all" is no key.
Narrow(key) ==
  /\ key \in Selectors /\ key.kind # "all"
  /\ view # None /\ out = None /\ view.want.ok /\ view.depth < MaxNarrowings
  /\ view' = [view EXCEPT !.part = Compose(Selected, key, TableRows(view.on)),
                          !.want = Picks(view.want.rows, key),
                          !.depth = @ + 1]
  /\ out' = None
  /\ UNCHANGED << file, live, mine, dataset >>

\* head() and tail() of a view
HeadOfView ==
  /\ view # None /\ out = None /\ view.want.ok /\ view.depth < MaxNarrowings
  /\ LET rows == view.want.rows
     IN  view' = [on   |-> view.on,
                  part |-> HeadRows(Selected, Peek, TableRows(view.on)),
                  want |-> [ok |-> TRUE, rows |-> SubSeq(rows, 1, Least(Peek, Len(rows)))],
                  depth |-> MaxNarrowings]
  /\ out' = None
  /\ UNCHANGED << file, live, mine, dataset >>

TailOfView ==
  /\ view # None /\ out = None /\ view.want.ok /\ view.depth < MaxNarrowings
  /\ LET rows == view.want.rows
     IN  view' = [on   |-> view.on,
                  part |-> TailRows(Selected, Peek, TableRows(view.on)),
                  want |-> [ok |-> TRUE, rows |-> SubSeq(rows, Most(0, Len(rows) - Peek) + 1, Len(rows))],
                  depth |-> MaxNarrowings]
  /\ out' = None
  /\ UNCHANGED << file, live, mine, dataset >>

\* The view is let go of.
Drop ==
  /\ out # None
  /\ view' = None
  /\ out' = None
  /\ UNCHANGED << file, live, mine, dataset >>

-----------------------------------------------------------------------------
(* Queries of one reader, with the statistics of its records. *)

Holds(op, v, s) ==
  /\ v # NaN /\ s # NaN
  /\ CASE op = ">"  -> v > s
       [] op = ">=" -> v >= s
       [] op = "<"  -> v < s
       [] op = "<=" -> v <= s
       [] op = "==" -> v = s

\* column_stat: a record that is empty or has a NaN is never ruled out.
RecordStat(values) ==
  IF values = << >> \/ NaN \in ToSet(values)
  THEN [min |-> 0, max |-> 0, prunable |-> FALSE]
  ELSE [min |-> Smallest(ToSet(values)), max |-> Largest(ToSet(values)), prunable |-> TRUE]

RecordStats(f) ==
  [r \in DOMAIN Records[f] |->
     RecordStat(SubSeq(Values[f], RecordStartsRows[f][r - 1] + 1, RecordStartsRows[f][r]))]

\* A slip to catch: a bound that is met is taken for one that is passed.
SurvivesStrictly(stat, op, s) ==
  \/ ~ stat.prunable
  \/ CASE op \in {">", ">="} -> Holds(">", stat.max, s)
       [] op \in {"<", "<="} -> Holds("<", stat.min, s)
       [] op = "=="          -> Holds("<=", stat.min, s) /\ Holds(">=", stat.max, s)

\* The test of a record in _try_skip_query_mask.
Survives(stat, op, s) ==
  \/ ~ stat.prunable
  \/ CASE op \in {">", ">="} -> Holds(op, stat.max, s)
       [] op \in {"<", "<="} -> Holds(op, stat.min, s)
       [] op = "=="          -> Holds("<=", stat.min, s) /\ Holds(">=", stat.max, s)

\* _read_record_column, as the values of the elements it views.
RecordColumn(h, r) ==
  LET f     == file[h]
      size  == Size(f, Queried)
      start == Base(h) + RecordStartsBytes[f][r - 1] + ColumnPrefix(f, Queried) * Records[f][r]
      at(i) == Load(Maps, start + (i - 1) * size, size)
  IN  [i \in 1..Records[f][r] |->
         IF at(i) = Torn \/ at(i)[3] # Queried THEN NaN ELSE Values[f][at(i)[2] + 1]]

\* _try_skip_query_mask, or the full evaluation when nothing can be ruled out.
QueryMask(h, op, s) ==
  LET f     == file[h]
      stats == RecordStats(f)
      rows(r) == [i \in 1..Records[f][r] |->
                    Survives(stats[r], op, s) /\ Holds(op, RecordColumn(h, r)[i], s)]
  IN  IF ~ IsMultiRecord(f) \/ \A r \in DOMAIN stats : Survives(stats[r], op, s)
      THEN [i \in 1..RowsIn(f) |-> Holds(op, Values[f][i], s)]
      ELSE FlattenSeq([r \in DOMAIN stats |-> rows(r)])

\* query() and evaluate(), of a reader that the user opened; the dataset has no part in
\* it and is left out.
Query(h, comparison) ==
  LET f == file[h]
      holds == [i \in 1..RowsIn(f) |-> Holds(comparison[1], Values[f][i], comparison[2])]
  IN  /\ h \in mine \cap live /\ Queried \in NamesOf(f) /\ children = << >>
      /\ view = None
      /\ view' = [on |-> h, part |-> Mask(QueryMask(h, comparison[1], comparison[2])),
                  want |-> Picks(FirstRows(RowsIn(f)), Mask(holds)), depth |-> 0]
      /\ out' = None
      /\ UNCHANGED << file, live, mine, dataset >>

-----------------------------------------------------------------------------
(* Reading. *)

ColumnsOn(on) == IF on = Dataset THEN {x.name : x \in schema} ELSE NamesOf(file[on])

Result(form, cs, env, columns) ==
  [form |-> form, columns |-> cs, cpp |-> env.cpp,
   ok   |-> \A i \in DOMAIN columns : columns[i].ok,
   got  |-> IF \A i \in DOMAIN columns : columns[i].ok
            THEN [i \in DOMAIN columns |-> columns[i].got] ELSE << >>]

MayRead(cs) == view # None /\ out = None /\ ToSet(cs) \subseteq ColumnsOn(view.on)

LeavesTables(cs, env) ==
  IF view.on = Dataset /\ Selected.kind # "bad" /\ AsksTables(Selected, env)
  THEN /\ memo' = Memoised(cs, env)
       /\ grid' = IF AsksGrid(cs, Selected, env) /\ ~ grid.known
                  THEN [known |-> TRUE, rows |-> UniformSegmentRows(TableOf(cs[1], env).starts)]
                  ELSE grid
  ELSE UNCHANGED << memo, grid >>

\* array(), dict() and frame()
Gather(cs, sel, env) ==
  IF sel.kind = "bad" THEN [i \in DOMAIN cs |-> Raised]
  ELSE IF view.on = Dataset THEN GatherTable(cs, sel, env)
  ELSE ReadMany(view.on, cs, sel, env)

ViewOf(c, sel) ==
  IF sel.kind = "bad" THEN Raised
  ELSE IF view.on = Dataset THEN ViewTable(c, sel) ELSE ViewOne(view.on, c, sel)

Read(cs, env) ==
  /\ MayRead(cs)
  /\ out' = Result("arrays", cs, env, Gather(cs, Selected, env))
  /\ LeavesTables(cs, env)
  /\ UNCHANGED << file, live, mine, mode, children, owned, schema, offsets, closed, view >>

\* array(copy=False), dict(copy=False) and frame(copy=False)
ReadView(cs) ==
  /\ MayRead(cs)
  /\ out' = Result("views", cs, [cpp |-> TRUE], [i \in DOMAIN cs |-> ViewOf(cs[i], Selected)])
  /\ UNCHANGED << file, live, mine, dataset, view >>

\* A row, or rows without a step.
Contiguous(sel) == sel.kind \in {"all", "row"} \/ (sel.kind = "slice" /\ sel.step = 1)

\* recarray(): each column from a contiguous view if there is one, else gathered, and
\* interleaved.
ReadRecarray(cs, env) ==
  LET column(gathered, viewed) ==
        IF env.cpp /\ viewed.ok /\ Contiguous(Selected) THEN viewed ELSE gathered
  IN  /\ MayRead(cs)
      /\ out' = Result("records", cs, env,
                   [i \in DOMAIN cs |->
                      column(Gather(cs, Selected, env)[i], ViewOf(cs[i], Selected))])
      /\ LeavesTables(cs, env)
      /\ UNCHANGED << file, live, mine, mode, children, owned, schema, offsets, closed, view >>

-----------------------------------------------------------------------------
Next ==
  \/ \E f \in Files : OpenReader(f)
  \/ \E sources \in Sources : AppendSources(sources)
  \/ CloseDataset
  \/ \E h \in Handles : CloseReader(h)
  \/ \E key \in Keys(RowCount) : Select(key)
  \/ \E key \in Narrowings(IF view = None THEN 0 ELSE Len(view.want.rows)) : Narrow(key)
  \/ HeadOfView \/ TailOfView \/ Drop
  \/ \E h \in Handles, comparison \in Comparisons : Query(h, comparison)
  \/ \E cs \in Requests, env \in Environments : Read(cs, env) \/ ReadRecarray(cs, env)
  \/ \E cs \in Requests : ReadView(cs)

Spec == Init /\ [][Next]_vars
-----------------------------------------------------------------------------
(* Properties. *)

\* The table as it should look to its user: the rows of the children one after another
\* (dataset.py, "one logical table"), or those of a reader, as [reader, row].
Table(on) ==
  LET of(h) == [i \in 1..RowsIn(file[h]) |-> << h, i - 1 >>]
  IN  IF on = Dataset THEN FlattenSeq([k \in DOMAIN children |-> of(children[k])]) ELSE of(on)

\* However a selection was come by (slices of slices, rows of a mask, a head of a
\* reversed slice), the selector a view holds stands for the rows that the same
\* indexing of an array would give, and count() is their number; where that is an
\* IndexError, the selector does not resolve (_compose_rows, _resolve_row_indexer).
\* And a query that skips the records its statistics rule out selects the rows that
\* the full evaluation selects, whatever the comparison, with NaN on either side ("The
\* result is identical to the full evaluation either way", reader.py).
ViewSelects ==
  view # None =>
    IF view.want.ok
    THEN /\ Selected.kind # "bad"
         /\ RowsOf(Selected, TableRows(view.on)) = view.want.rows
         /\ CountOf(Selected, TableRows(view.on)) = Len(view.want.rows)
    ELSE Selected.kind = "bad"

StoreOpen == IF view.on = Dataset THEN ~ closed /\ ToSet(children) \subseteq live
             ELSE view.on \in live

\* What the view selects.
Wanted == [k \in DOMAIN view.want.rows |-> Table(view.on)[view.want.rows[k] + 1]]

\* The one reader that serves it all, if there is one, and those that serve it.
Sole == IF view.on # Dataset THEN {view.on}
        ELSE IF Len(children) = 1 THEN {children[1]} ELSE {}
ReadFrom == {Wanted[k][1] : k \in DOMAIN Wanted} \cup Sole

\* A read without a copy can be given: of one reader, a row or a slice of a store of
\* one record; of several, when no more than one of them has the rows, and they are not
\* the whole table and not taken backward (dataset.py, "Cross-file zero-copy reads
\* remain unavailable"; with no rows the first is asked).
Viewable ==
  /\ Selected.kind \in {"all", "row", "slice"}
  /\ \A h \in IF ReadFrom = {} THEN {children[1]} ELSE ReadFrom : ~ IsMultiRecord(file[h])
  /\ Sole = {} =>
       /\ \E k \in DOMAIN children : \A g \in ToSet(view.want.rows) :
             offsets[k] <= g /\ g < offsets[k + 1]
       /\ Selected.kind # "all"
       /\ Selected.kind = "slice" => Selected.step > 0

\* Whatever serves a read (parts of the files copied or gathered one after the other,
\* rows through the stitched tables, by the grid or not, blocks of sorted rows put back
\* in order; with tables from the memo or new ones), while the mappings are
\* there it gives the selected rows in their order, in every column.  One without a
\* copy is given when it can be and only then; any other raises only for what does not
\* resolve, for records without the extension, and for the backward slice of a store
\* of several records.
ReadsExact ==
  out # None /\ view # None /\ StoreOpen =>
    /\ out.form = "views" => (out.ok <=> Viewable)
    /\ IF out.ok
       THEN \A i \in DOMAIN out.columns :
              out.got[i] = [k \in DOMAIN Wanted |-> Wanted[k] \o << out.columns[i] >>]
       ELSE \/ out.form = "views" \/ Selected.kind = "bad"
            \/ (\E h \in ReadFrom : IsMultiRecord(file[h])) /\ ~ out.cpp
            \/ (\E h \in Sole : IsMultiRecord(file[h])) /\ Backward(Selected, TableRows(view.on))

\* The memoised tables are those that would be stitched now, and the grid the one they
\* make, as long as the children are open: the memo never outlives the children it was
\* made of (_rebuild_offsets).
MemoFresh ==
  ToSet(children) \subseteq live =>
    \A c \in DOMAIN memo :
      /\ memo[c] = Stitch(c)
      /\ memo[c] # None /\ grid.known => grid.rows = UniformSegmentRows(memo[c].starts)

\* Who opens a reader closes it: what the user opened nobody else closes, and every
\* other reader that is open is a child the dataset opened and will close, so that none
\* is left behind by an append() that failed or was refused (dataset.py, close, append).
OpenerCloses ==
  [][/\ \A h \in mine \cap live : h \notin live' => CloseReader(h)
     /\ \A h \in live' \ mine' :
          ~ closed' /\ \E k \in DOMAIN children' : children'[k] = h /\ owned'[k]]_vars

\* Every column the dataset shows is there in every child, of the same size, whichever
\* order the children were added in and whatever was refused in between.
SchemaInEveryChild ==
  \A x \in schema, k \in DOMAIN children : x \in SchemaOf(file[children[k]])
=============================================================================
