# A verification project for colstore

colstore keeps tables column by column in `.cstore` files: a writer appends
records and commits them by rewriting one small block of counters, readers map
the file, a compaction folds the records into one, and a directory of such files
is appended to and read as one dataset, row selection by row selection, through
kernels that load straight from the mapped bytes. A frame collects edits of an open
store and computes them when it is asked for data; a conversion carries many files to
and from other formats, several at a time. This directory holds TLA+ models
of the parts in which steps of several processes or threads meet and of the way
from a row to its bytes, TLC configurations that check them on small instances, and
TLAPS proofs. Paths below are relative
to the repository; file names without a directory are in `src/colstore/`.

Contents: [inventory](#inventory), [modules](#modules),
[runs](#runs-and-bounds), [fairness](#fairness), [proofs](#proofs),
[disagreements](#where-the-code-and-its-documents-disagree),
[not modelled](#not-modelled), [plan](#plan).

## Inventory

| component | state it keeps | operations | meets |
|---|---|---|---|
| **Writing session** `writer.py`, `_lock.py` | descriptor, lock, record and row counts, file position, schema, statistics gathered | open in one of three modes, `write`, `close`, `__del__` | every other opener of the path, by `flock` and through the file's bytes |
| **File format** `format.py` | header with manifest, 64-byte counters block with CRC, records end to end, optional footer | header, counters and record-header reads and writes, `read_record_index`, one-shot `write_dataset` | writers, compactions, readers |
| **Statistics footer** `_footer.py` | min and max per record and column | `serialize_stats`, `parse_stats`, `column_stat` | written by sessions, read lazily by readers |
| **Compaction** `compaction.py` | lock descriptor, record index, output file | `compact_file`: in place (temporary and rename) or to another path | writers (lock), readers (rename) |
| **Reader** `reader.py` | header, record index, mapping, lazily loaded statistics, memoised layouts | open, gathers, views, filters, close | the path: opened for the header, the index, the mapping, the footer |
| **Shard directory** `shards.py` | lock file, buffer of batches, schema, shards made | `append`, `Appender.write/flush/close` | other appenders (lock), readers (listing), `atomic_publish` |
| **Streaming write** `format.py:886-1492` | temporary file, batch being built, pending write, thread pools | `write_dataset_streaming`, its two fills, the raw copy plan and its three strategies, `atomic_publish` | frame (evaluates batches), datasets (give raw runs) |
| **Dataset** `dataset.py` | child readers, row offsets, memoised segment tables | open from paths/directories, `append`, row routing, parallel fills, `close` | readers, shards |
| **Gather kernels** `kernels.py`, `src/cpp`, `src/cython` | none | byte gathers over a mapping, split between threads; record walk through a buffer; checks of the arrays handed over | readers, datasets |
| **Views** `view.py`, `_base.py` | a row selection over a source | composition of selections, reads | readers, datasets |
| **Queries** `_query.py` | expression trees | parse, `predicate_bounds`, evaluate | readers (record skipping) |
| **Frame** `frame.py` | rows, an ordered mapping of names to expressions, cuts with weights | edits in place or by copy, terminals with a memo per evaluation, batches, `write`, `fusible_passthroughs` | readers and datasets (base columns), streaming write |
| **API, conversion** `api.py`, `_paths.py`, `cli/` | of a conversion: plan, jobs, scratch directory | open/create/store/compact/convert; `plan_conversions` and an ordered pool | everything |
| **Configuration, calibration, NUMA** `config.py`, `autotune.py`, `_numa.py` | process-wide settings, a cache file | setters, lazily loaded automatic values, thread binding | kernels, writers |
| **Interchange** `interop/` | a format registry | Arrow, HDF5, ROOT, Feather import/export | API |

What is hard about it, and what would make each part correct:

* **Several processes, one path.** `flock` is on an inode, names are not. Every
  component opens its path more than once, the truncating modes open before they
  lock, a compaction unlocks before it renames, and a `close()` unlinks by name.
  Correct means: nothing committed is lost, only the lock's holder changes a
  file, a reader sees one committed state.
* **Crashes and failures between steps.** Records come first, then the footer,
  then the counters; any of these can fail or be the last thing a process does.
  Correct means: a session is visible as a whole or not at all, and whatever it
  left behind never ends up between records.
* **Late reads.** A reader loads the footer on its first filter, a copy plan
  opens its sources again. Correct means: what they find belongs to what they
  have mapped.
* **Threads.** One batch is evaluated while the one before it is written by a
  pool. Correct means: what is published is complete, memory stays bounded,
  nobody writes once the descriptor is closed, and every wait ends.
* **Long sequences of legal calls.** Sessions with and without statistics in
  turn; flushes that fail and are retried; numbers reused after deletions; selections
  on top of selections; files added to a dataset whose tables are already memoised.
* **Promises made now, kept later.** An edit of a frame computes nothing; columns share
  sub-expressions, and an array attached by reference, the dataset underneath and the
  frame's own mapping can all change before a terminal runs. Correct means: every
  terminal gives what NumPy would have given had each edit been computed at once.
* **Several conversions at once, any of which may fail.** Correct means: inputs reach
  their outputs in order, nobody else's file is lost, nothing is left at work.
* **Many roads to the same rows.** A read takes one of a dozen paths, by how many
  records and files there are, whether the extension is there, whether the rows are
  sorted, dense or on a grid, and how many threads are granted. Correct means: every
  path gives the same rows in the same order.

The hazards are listed one by one, at their lines, in `PROJECT.json`.

## Modules

| module | models | composes / refines |
|---|---|---|
| `CommitLog` | what a file promises: a log that one session at a time extends, whole or not at all | abstract specification |
| `StoreWriter` | `ColStoreWriter` sessions of several processes on one path | implements `CommitLog` (`INSTANCE ... WITH`) |
| `StoreWriterInv` | the inductive invariants | extends `StoreWriter` |
| `StoreWriterProofs` | safety of the writing session, that it implements `CommitLog`, and that footers match their records | extends `StoreWriterInv`, TLAPS |
| `SharedPath` | update sessions, compactions and readers on one path, with names and inodes apart | reader, writer and compaction composed |
| `SharedPathInv` | its inductive invariants | extends `SharedPath` |
| `SharedPathProofs` | what record walks find; the path and a compaction's output; readers: their rows, their mapping, their skipping | extends `SharedPathInv`, `SequenceFacts` |
| `ShardDir` | `append`, `Appender`, the directory lock, publication, deletions, and readers that list the directory | shards and dataset open composed |
| `ShardDirInv` | its inductive invariants | extends `ShardDir` |
| `ShardDirProofs` | sessions, and what is never lost or written over; order, shards that are whole, readers that list | extends `ShardDirInv`, TLAPS |
| `StreamWrite` | `write_dataset_streaming` with its threads | |
| `StreamWriteInv` | its inductive invariant | extends `StreamWrite` |
| `StreamWriteProofs` | what is published, and what is in flight | extends `StreamWriteInv`, TLAPS |
| `RowSelection` | selectors, their normalisation and composition, and what NumPy's indexing would select | pure operators |
| `Totals` | the sum of a sequence of numbers | one operator |
| `RecordLayout` | how a record lies in a file, cell by cell | pure operators; extends `Totals` |
| `SegmentGather` | files, mapped memory, record index, segment tables, what a gather through one gives | extends `RowSelection`, `RecordLayout` |
| `NativeEntries` | what stands before the kernels: the record walk in C++ and in Python, and the checks of each entry point | extends `SegmentGather` |
| `GatherKernels` | the kernels of `gather.cpp`, with their sharing of rows, bytes and mask words between threads | extends `NativeEntries` |
| `GatherKernelsProofs` | where the cells of a file are, and that both record walks find them | extends `GatherKernels`, `SequenceFacts` |
| `TableReads` | readers, the dataset of several, views and queries, as a user drives them | extends `SegmentGather`, with `GatherRows` for the kernels |
| `TableReadsInv` | its inductive invariant | extends `TableReads` |
| `TableReadsProofs` | whose readers there are, what the dataset knows of its children, which rows a view selects | extends `TableReadsInv`, `SequenceFacts` |
| `Expressions` | column expressions, their keys and memo, queries compiled to them, and how they are evaluated | pure operators |
| `Frame` | the deferred frame: edits, cuts, terminals, batches, `write` | extends `Expressions` |
| `Convert` | `convert()`: the plan, the ordered pool, parts and their merge, failures and clean-up | |
| `ConvertInv` | its inductive invariants | extends `Convert` |
| `ConvertProofs` | what a call leaves alone and leaves behind, and what it puts into its outputs | extends `ConvertInv`, `SequenceFacts` |
| `SequenceFacts` | lemmas about numbers, sums, sequences and the cells of a record that several of the proofs cite | extends `RecordLayout`, TLAPS |
| `MCStoreWriter`, `MCSharedPath`, `MCShardDir`, `MCStreamWrite`, `MCGatherKernels`, `MCTableReads`, `MCFrame`, `MCConvert` | instances for TLC | |

`PROJECT.json` maps every definition to the lines it stands for.

### StoreWriter

A file is its header flag, its counters (`ok` is the CRC) and a sequence of
chunks: a whole record, a whole footer, or junk. Positions count chunks, so the
file position of a session (`pos`), the number of records it believes in (`n`)
and the end of the file can come apart, which is what the failure paths are
about. `name`, the inodes and `holder` are separate: unlinking a name leaves an
open inode alone.

One action is one system call or one stretch of code nobody can look into:
`CheckAbsent`, `OpenCreate`, `OpenRecreate`, `OpenUpdate` (the open itself),
`Lock`/`Contended`, `Load`, `LoadFails`, `OpenInterrupted`, `Write`, `WriteFails` (with
nothing, the header, or a part of the record in the file), `WriteFooter` or
`FooterFails`, `CommitCounters` or `CountersFail`, `CloseEmpty`, `Unlock`, `CloseFile`,
`Unlink`, `Crash`, `CrashTearing`.

Three paths are easily missed. A load may raise of a good file too, before or after
it was cut back; the half-built object is then `broken`, and its `__del__` runs
`close()` like any other (`Closable`), with the counts it has. If it is cut short
before it has any (`OpenInterrupted`), that `close()` writes zero counts over a good
file. And when the flush of a header, a footer or the counters fails, the file object
keeps the bytes (`buf`): `close()` unlocks (`Unlock`, `writer.py:468`) and only then
closes the file (`CloseFile`, line 469), which flushes what is kept or drops it. Late
counters still commit the session.

Constants that state what callers or the system do:

| constant | what it says |
|---|---|
| `FlockSupported` | the file system has `flock` (README: otherwise locking is skipped) |
| `Exclusive` | `create`/`recreate` are used only while nobody else has the path open for writing |
| `RetryAfterFailure` | a session goes on writing after a `write()` that raised |
| `TornCounters` | a crash may leave the counters block half written |
| `InterruptedAt` | where `__init__` may be cut short (an interrupt, a read that fails) before it knows the counters: a set of `"opened"`, before the lock is its own, and `"locked"` |
| `LockMidClose` | a session may take the lock between another's unlock and the late flush of its file |

The run `StoreWriter` takes the first two TRUE, `InterruptedAt` empty and the others
FALSE; so do the theorems, where they need it (see [proofs](#proofs)). `StoreWriterLive`
turns on writing after a failure, torn counters and interrupts anywhere; the violation runs
`RaceTruncate` and `LateFlush` show what `Exclusive` and `LockMidClose` are for. None of
the switches takes a late flush, or a failed load of a good file, out of the model:
`LockMidClose` only says whether somebody else can be in the file by then.

### SharedPath

Here a file is its counters and a sequence of cells: record headers (index and
row count), rows, footers. Row number k is the k-th row ever committed, so a
reader that takes rows from the wrong place shows it. Each of the opens of the
path is a step: the writer's header read through its descriptor and record walk
through the path; the compaction's lock, header, index, copy and rename; the
reader's header, index, mapping and, later, footer. `LoadUpdate`'s failing
branch includes the finalizer. Failures inside a session are `StoreWriter`'s, late
flushes and loads that are cut short among them; here a session commits or is lost
(`LoseUpdate`). The store to begin with is one of
`Starts`, each given by where its records end, with rows numbered through.

`WritersAvoidRename`: nobody else has the path open for writing between a compaction's
unlock and its rename (`FinishCopy` waits for those who opened it before, the opens
for the rename). `ReadersAvoidRename`: no reader is between its first open and its
mapping at the moment of the rename. `FiltersAvoidRename`: no reader filters for
the first time, and so loads the footer, once the path stands for another file than
the one it mapped. The code guarantees none of the three; they are what
its users have to see to, and the properties below hold for those who do. Without
the first, `LostUpdate` below; without the second, a reader takes the header of
one file and the index or mapping of the other, and either raises or returns
rows of the wrong places; for the third, see
[below](#where-the-code-and-its-documents-disagree).

### ShardDir

Names are places in the natural order, contents are batch numbers, one schema
and `whole`. A session is an `append()` call (`once`) or an `Appender`. Actions:
`Acquire`, `ReadSchema`, `Write`, `RetryWrite` (a caller that repeats a write
that raised), `Flush`, `AppendData`, `AppendFile` and `CopyBytes` (size first,
bytes later), `StartShard`, `FillShard`, `Publish` (one rename), `FlushFails`,
`Close`, `AppendFails`, `Crash`, `Delete`, and a reader's `List` and `Listed`, then for
one listed name after another `ReadHead`, `WalkIndex` and `MapRows`, and `Combine`,
`CloseReader`. A listing is not atomic: of the names that come or go while it
runs, it has any. Each listed shard is opened three times by its name, for the header,
for the record walk and for the mapping, and other steps come between any two. A
mapping shows the rows the name stands for at the third open, by the header of the
first; it is right where the rows lie if columns and counts are the same (`Alike`), and
cannot be made past the end of a shorter file. `RowsInOrder`
compares every two batches of the numbered shards, within a shard and across.

`Deletions`: somebody may delete shards. `SourceQuiet`: nobody updates a file
while `append()` copies it; without it a shard can hold counters and records of
different moments (`ShardsWhole` fails). `NamesNotReused`: no session publishes a shard
under a name that a reader has opened once and is to open again, which takes a deletion
of that shard in between; without it `DatasetWhole` fails (see
[below](#where-the-code-and-its-documents-disagree)).

Taken as given: a dataset is opened with `on_mismatch="strict"`; batches have one size; a
name that is there at both ends of a listing is listed. A shard of one record maps each
column by an open of its own; these are one step here.

### StreamWrite

A cell is one row of one column and holds the number of the row that was written
to it. `main` is the calling thread, `queue` the batches handed to the background
writer, each with the writes (`Job`s) still to be done. `Begin` lays the file out
and picks the fill; `Build`, `Handoff` and `Drain` are the loop of the overlapped
`pwrite` fill, and of the others, which wait for each batch at once; a copy plan is
one batch, tried a second time by the mmap copy if `copy_file_range` failed.
`JobWrites` and `JobFails` are steps of the pool, in any order within a batch; a
write that fails may have written some of its rows. `InFlight` are the batches with
writes to do, and `Backlog` the queue from the oldest of them on. `Leave` is the pool's exit
and the `os.close`. `Publish`, `PublishFails` and `Unlink` are `atomic_publish`.
The sources of a copy plan are taken as fixed while it runs.

### RowSelection and SegmentGather

A selector is the whole store, a row, a slice (with `None` for an omitted bound), an
array of rows or a mask. `Resolve`, `Compose`, `HeadRows`, `TailRows` and `CountOf` are
the methods of `_BaseView`, `ComposeSlices` and `KeyToViewIndices` the functions of
`view.py`; `SliceIndices` is Python's. `Picks` is the reference: it indexes a sequence
directly, folding each index on its own, and uses none of them but the meaning of one
slice.

Bytes are cells, and a cell of a file says which row, column and part of an element it
is. `Cells` lays a file out the way the writer does; `RecordStartsRows`,
`RecordStartsBytes` and `ColumnPrefix` are the reader's index of it, made from the row
counts alone. An open handle is mapped at an address, and `Load` gives the element its
cells make up, or `Torn`. So a wrong base, prefix, stride or record is seen as a wrong
or torn element (`RecordLayout` has one record, `SegmentGather` the file). `ColumnSegments` is a reader's table for a column, `StitchSegments` the
dataset's, with bases that are absolute addresses less the rows before the segment, as
in the code.

### NativeEntries and GatherKernels

`BufferedWalk` is the walk of `record_index.cpp`, which reads a buffer of some cells and
slides it on when the next header is not wholly inside; `PlainWalk` is Python's, one
header at a time. A file may be cut anywhere and each header may have its magic, its
index or its checksum damaged. Each entry point of `_gather.pyx` has an operator
`...Accepts` over the lengths of its arrays; `Reached` says how far the kernel's loops
go.

The state of `GatherKernels` is a stack of files and one call with what it left; each kernel is an action
with every argument from the instance. What several workers write is the union of what
each does with its chunk of the rows, bytes or mask, for the number of workers the
team really has, and a place that two of them fill with different values is torn
(`Filled`). `GatherSegmentSorted` has the cursor and its way back, `GatherSegmentMask` the
two passes, the words that are skipped, copied or stored whole, and the quota;
`MakeDivisor` and `UniformDivide` the multiplication that replaces a division, in
`Bits`-bit unsigned arithmetic. `DivideRow` calls them for every divisor and dividend of that
width, as the grids of these stacks are small. `ReadRecordIndex` and `EnterKernel` are
the two of `NativeEntries`.

### TableReads

State: the open handles and which of them the user opened; the dataset's `children`,
`owned`, `schema`, `offsets`, its memo of stitched tables and their grid; one view, as
the selector the code holds (`part`) and the rows the reference says it selects
(`want`); and what the last read left (`out`). Actions: `OpenReader`, `AppendSources`
(opens in turn, refused or failed with what was opened closed again), `CloseDataset`,
`CloseReader`, `Select`, `Narrow`, `HeadOfView`, `TailOfView`, `Query` (with skipping by
record statistics), `Read`, `ReadView` (no copy), `ReadRecarray`, and `Drop`, by which
the caller lets go of the view. Which path serves a read depends on the selector, the
files and an environment chosen anew for each: whether the extension is there and
whether the mask is dense enough for its kernel.

What it takes as given: files do not change while they are open here (`SharedPath` is
about that); a view does not outlive an `append()` to its dataset, and there is one at a
time; the warning of `on_mismatch="drop"` is shown and not raised; bytes are in native
order.

### Expressions and Frame

A graph is a sequence of nodes whose operands come before them; a node is a stored
column, an array, a scalar, a ufunc, a cast, an `isin` or an `apply`. `Key` is the
structural key of a node (its operands' keys in their order), `PostOrder` and
`Evaluate` the frame's `evaluate()`, in which one memo serves all the roots and a node
whose key is in it is not computed; `Evaluated` is a reader's evaluation of the same
tree, column by column. `Parsed` takes the syntax tree of a query to an expression, and
`Emit` copies an expression into the graph of a frame. `Fusible` is
`fusible_passthroughs`.

The state of `Frame` is two frames (each the number of one of the mappings in `maps`, a
base selection and its cuts), the graph they share, the arrays of the program (`heap`;
`altered`), the store and its files, and an iterator over batches. A mapping is a thing
of its own since a copy may or may not share it. The actions are the edits, each in
place or by copy (`Assign`, `Drop`, `Rename`, `Select`, `Astype`, `Filter`), and what goes on
around them: `MutateArray`, `AppendFile`, `StartBatches`, `NextBatch`, `EndBatches`. Terminals
change nothing, so they are operators (`Materialized`, `CountRows`, `Cutflow`, `Streamed` with
`Reduced`, `Write`) and their properties are invariants.

`want` is the reference: the table eager evaluation makes of the same edits, carried
beside the frame and computed by plain indexing with no graph, key or memo (`Truth`,
`Eager`). Columns that hold an attached array are promised twice, for before and after
`MutateArray`.

### Convert

A file is its rows, its columns and whether it is whole; a path is a directory, a stem
with a number and an extension. `Planned` is `plan_conversions` with the globs and output
names; `Matches` and `NaturalOrder` are the glob and its sorting by number. The state of a call is `main`, and a `job` for each conversion or part: `Start` (the
pool takes them in turn, or a single thread as results are collected), `Prepare` (the
output is refused, or unlinked), `Read`, `Write`, `Fill`, `StreamBatch`, `CommitStream`,
`OpenResult`, `JobFails`. An export in batches is one `Fill`, since nothing of it shows before
its writer closes it; what it leaves when it breaks off is in `BrokenOff`. The Parquet and
Feather writers are closed in a `finally`, so the batches that were written make a whole,
shorter file. HDF5 is written in a `with`: the columns and rows that are there stay, the last
rows with nothing in them if room was made for them only (`Blank`). Whole HDF5 and `.npz`
files may have some of the columns. Any of these may also be removed or not open (`Torn`),
as is whatever is still being written. The caller's are `BeginNothing`, `BeginEach`, `BeginMerge`, `Collect`
(in the order of inputs), `GiveUp`, `Stop`, `Merge`, `FillMerged`, `MergeFails`, `CleanUp` and
`Return`. A second call may follow a failed one and meets what it left.

The scratch directory of a merge (`scratch`) is a set of files of its own: `mkdtemp` makes a
directory that was not there, and only the call's parts know its name. `Place` is where a
job writes, the scratch directory for a part and the disk for a conversion.

Taken as given: nobody else touches these paths, and no output is an input (see
[below](#where-the-code-and-its-documents-disagree) for what happens when one is).

## Runs and bounds

| run | asks | instance | distinct states |
|---|---|---|---|
| `StoreWriter` | safety and refinement of the writing session | 2 processes, 2 inodes, 2 values, files of up to 3 records and 4 chunks | 163,881 |
| `StoreWriterLive` | the same system after torn counters, interrupted loads and writes that go on after a failure: what is seen, and that the lock is always let go | 2 processes, 1 inode, 2 values, 2 records, 2 chunks, `FairSpec` | 731,438 |
| `SharedPath` | writers, compaction and reader on one path; skipping by statistics | 2 updaters, 1 compaction, 1 reader, 3 inodes; stores of two or three records, the first perhaps empty; 4 rows | 860,333 |
| `ShardDir` | the directory | 2 writers, 1 reader, 2 schemas, 3 batches, `shard_size` of 2 batches or none | 2,459,775 |
| `StreamWrite` | the streaming write | 2 columns, files of 0, 1 and 5 rows, batches of 1, 2 and all rows, two sources cut at 0, 2 and 5 | 49,596 |
| `GatherKernels` | every kernel against the rows asked for; the record walk; the entry checks | 4 files (one record; two; a uniform grid with a short end; an empty record between two), 9 stacks of one or two, 1 to 3 workers, every mask and range, every pair and some longer lists of rows, words of 2, 5-bit division; buffers of 1, 2, 3, 7 and 100 cells, files cut at every place, damaged headers; arrays of 0 to 2 elements | 38,082 |
| `TableReads` | datasets, views and reads | the same kind of files, one of them with a column of another size; up to 3 readers and 7 rows, one selection on top of another, 3 environments, both modes | 374,728 |
| `Frame` | the deferred frame against eager evaluation | 4 rows of 3 columns in one or two files or several records, opened whole, as rows, as a mask, with a carried query; 2 edits, batches of 2 rows | 9,813 |
| `Convert` | conversions: what comes out, what is left | 5 files, 22 calls (imports, exports, copies, merges, whole and in batches, by one thread and by several), 2 failures, 2 calls | 293,695 |

Why this is enough for the questions asked: two processes suffice for every race
on one lock (who holds it, who is refused, who crashed before); a file of three
records has a committed one, an orphaned one and a new one; two inodes let a name
change meaning once under an open session, and the third in `SharedPath` is the
output of a second compaction while the first source is still mapped. Three
batches with roll-over at two give a full shard, a remainder, a retry and a
session after a crash. Five rows in batches of two give a first, a middle and a
short last batch, the fewest with which three batches could be in flight. Two files of
up to three uneven records have every boundary a gather can meet (between records,
between files, an empty record, a short last one); a mask word of two rows among up to
eight, for up to three workers, has words that end at a chunk's end, a file's end and
past the quota. Five bits have divisors of all three kinds (powers of two, multipliers
that fit, multipliers that need the extra bit) and every dividend of the width. Seven
rows and three readers let an append follow a read with memoised tables, twice.

Two edits are the fewest that can share a sub-expression, replace a column another one
reads, or change a copy behind its original's back; four rows in batches of two have a
boundary where a reused buffer is filled again. Three jobs on two threads can finish in
every order with one still waiting; two failures are one in a job and one while the
others stop, or one in each of two calls.

`GatherKernels`, `TableReads`, `Frame` and `Convert` turn deadlock checking off: a kernel is
called once, a user who has closed everything is done, and edits and calls are bounded.
The others leave it on: there is always something those systems can begin.

`MCFocus`, the action constraint of `TableReads`, leaves out combinations of steps that
do not wait for each other in the code: a view is narrowed only in a strict dataset and
before a table is memoised; a drop dataset is read only once it has dropped a column; a
store is closed only while there is a view, and afterwards no other view is made.
Narrowing does not look at the memo or the mode, so the selectors met without it are
those met with it.

`Scenario` of `SharedPath` has two scenarios share a run, told apart by the store they
begin with. Where its first record is empty, two updaters, with and without statistics,
meet a reader; elsewhere one updater meets a compaction and a reader. `Tried` of `Frame`
says which interleavings are tried: batches are drawn from the first frame after one
edit; while they are, edits come between the first two; the dataset grows after an edit.
Both leave combinations out to stay within TLC's reach: two updaters and a compaction
at once, and edits between every two batches, have not been checked at these bounds.

What each passing run shows:

* `StoreWriter`: `ReadersSeeAcked` (a readable file shows exactly the records of
  the committed sessions), `CommittedReadable` (a file with a header opens),
  `FooterMatchesRecords`, `OnlyHolderWrites`, `UnlinkSparesCommits`, and
  `ImplementsCommitLog`, in which `log` is what a reader opening the name now
  would see and `pend` what each session has written since it opened.
* `StoreWriterLive`: `VisibleWasCommitted`, `LocksAreReleased`. After torn counters (the
  next update session's load raises, and its finalizer writes zero counts) or an `__init__`
  cut short the file may have lost its records, and after a write that follows a failed one
  it may not open; what does open shows only committed records, in order.
* `SharedPath`: `PathHoldsAcked`, `CopiesWhole` (an unfinished copy never opens as a
  shorter store), `ReaderSnapshot`, `SkippingExact`, `MappedRowsStay`.
* `ShardDir`: `OneSession`, `RowsInOrder`, `ShardsWhole`, `ClosedIsStored`,
  `DatasetWhole`, `ShardsImmutable`.
* `StreamWrite`: `PublishedComplete`, `BatchesInFlight` (two at most, and none once the
  descriptor is closed), `Terminates`.
* `GatherKernels`: `KernelsExact` (rows, division, arrays), `IndexExact` (both walks find the
  same records and the same first error, whatever the buffer).
* `TableReads`: `ViewSelects` (selections on selections; queries with skipping, with
  NaN on either side), `ReadsExact` (every path gives the rows selected, in order, in
  every column, and a view where there can be one), `MemoFresh`, `SchemaInEveryChild`,
  `OpenerCloses` (what the dataset opened it closes, also when an append fails; what was
  lent to it stays open). `ReadsExact` names the reads that may raise: without a copy; of
  rows that do not resolve; of several records without the extension; and the backward
  slice described below.
* `Frame`: `TerminalsAgree`, `CutflowExact`, `ReductionsExact` (with the variance joined batch
  by batch, in exact rationals), `BatchesExact`, `WrittenExact`. `MayRaise` names the two
  cases in which a terminal may raise instead: an `apply` whose kind was inferred, and a
  kept mask over a dataset that has grown.
* `Convert`: `OutputsExact`, `OpensAsPrefix`, `OthersUntouched`, `NothingLeftBehind`,
  `EveryCallEnds`.

Each property has a mutant: a definition of the model changed the way a slip in
the code would change it (the operators marked "A slip to catch"), under which
TLC finds the property violated.

## Fairness

`StoreWriter!FairSpec`: weak fairness of the load and of the steps of `close()`,
per process. A process that runs gets on with the straight-line code of its
constructor, and a session used in a `with` block is closed; `__del__` closes a
forgotten one. Nothing is assumed about opening, writing or crashing.

`StreamWrite!FairSpec`: weak fairness of the calling thread and of the pool: a
thread with something to do is scheduled, and a system call returns or raises.
Starting a write is not fair.

`Convert!FairSpec`: weak fairness of the caller's thread and of the pool as a whole: some
thread of the pool with something to do gets on. Nothing makes a call begin or fail.

The other specifications are checked for safety only.

## Proofs

`StoreWriterProofs` proves, for any number of processes and inodes, any values and
any bounds:

* `TypeCorrect`: `Spec => []TypeOK`, with no assumption about callers;
* `Invariance`: `Disciplined => (Spec => []IInv)`, and from it
* `NothingElseIsSeen`, `HoldersWrite`, `UnlinkIsHarmless` for the properties
  `VisibleWasCommitted`, `OnlyHolderWrites` and `UnlinkSparesCommits`;
* where no crash tears the counters, `CommitsStayReadable` for `CommittedReadable`;
* where nothing makes a session start again from no records (`NeverReset`),
  `ReadersSeeCommits` for `ReadersSeeAcked`.

`Disciplined` (in `StoreWriterInv`) is `FlockSupported`, `Exclusive`, no write
after a failed one, nobody taking the lock between another's unlock and its late flush
(`~LockMidClose`), and no `__init__` cut short before it has the lock. The runs
`RaceTruncate` and `LateFlush` show what fails without the second and the fourth, and
[below](#where-the-code-and-its-documents-disagree) it is said how to see it for the
others. The last two are not a discipline that callers can keep: the code gives them no
means to wait for another's file to close, or to hold an interrupt off (an `__init__` cut
short before the lock writes its zero counts without holding it); the theorems say what
holds as long as neither happens.
`NeverReset` is no torn counters and no `__init__` cut short at all. It is a hypothesis only
where the property needs it: once a crash has torn the counters the file does not open,
and after the next update session, or after one whose `__init__` was cut short, it opens
without its earlier records.

The argument. `ReadersSeeAcked` is not inductive: it says nothing of what a
session is about to commit. `IInv` adds the link between three things that only
meet at the commit: what the session counts, what it wrote, and where it wrote.
Its parts:

* `Seated`, `LockInv`, `OneWorks`: a session past `Lock` holds the lock of its inode and
  nobody else does; at most one session is in the middle of a file, counting the one
  whose file object still has bytes to flush after the unlock (`Works`);
* `OneTruncating`: a truncating session has no company, which is what makes its
  open before the lock harmless;
* `FileInv`: a file is either formatted, its first n chunks being the last n of the
  committed records (`HoldsLast`), all of them under `NeverReset`, or
  empty. It does not say the counters are intact: a tear leaves the rest as it was, and
  the finalizer of the session that finds it sets n to zero, so the next session's
  records are the last ones again;
* `PlaceInv`: a session's inode is the one the name stands for, except for a new
  file that was unlinked before it got a header;
* `ProgressInv`: a session that will commit, be it by counters that are flushed late
  (`Unfinished`), has its records right behind those the counters count, or, having started
  from none, in front (`Appended`), and its position there as long as no write has failed.
  A footer or a header that is flushed late lands behind the records or in an empty file.

`Footprint` says which files a step can touch, `OthersStep` that the sessions it
does not take stay as they were, `OwnStep` (one step per action) that the session
it takes stays on course, `WriteBehind`, `TargetFacts`, `AppendedPrefix` and
`AllAppended` what its file operations do to a file that is sound.

`ShardDirProofs` proves, for any number of writers, readers and batches, any schemas
and limits, with and without deletions:

* `Invariance`: `Spec => []IInv` for the `IInv` of `ShardDirInv`, and from it
* `SessionsAlone`, `NothingLost`, `ShardsNeverChange` for the properties
  `OneSession`, `ClosedIsStored` and `ShardsImmutable`.

The assumptions are those of `ShardDir` on its constants: `None` is no writer,
bounds are numbers. `ClosedIsStored` alone is not inductive, as it says nothing of
sessions that have not closed. `Working` says of a session at work that each batch
it accepted is in its buffer, in a shard or deleted; that a temporary it has filled
holds the buffer; and that the name it is about to rename onto is still free. The
last is why a rename replaces nothing, and holds since the name was looked up under
the lock and only the lock's holder makes shards. `GoesOn` and `Ends` are the two
ways a session's step keeps the invariant; `StaysIn` and `Builds` are `GoesOn` for
steps that leave the directory alone and steps that write the temporary.

The second part of `ShardDirProofs` is about what shards hold, again for any constants:

* `ShardsInvariance`: `Spec => [](ShardsInv /\ ReadersInv)`, and from it
* `InOrder` for `RowsInOrder`, and, while copied files are quiet (`SourceQuiet`),
  `ShardsAreWhole` for `ShardsWhole` and, if also no name is taken again between two opens
  of it (`NamesNotReused`), `DatasetsAreWhole` for `DatasetWhole`.

A session's buffer holds batches younger than those of every numbered shard, in order,
and the number it picked is past theirs (`Ahead`); it knows the schema that all shards
have (`OneSchema`). Both survive other sessions because only `Publish` makes shards, and
only the lock's holder publishes. For a reader that lists, `Finds` says what has not been
deleted of the batches it is due is in a shard it has listed and not yet opened, or in
one it has mapped; deletions are the only way out of the directory, so nothing is lost
between listing and opening. `Opening` says that what the first opens of a name found is
what the name stands for, or the name is gone and the next open raises.

### More about the writing session

`StoreWriterProofs` also proves `WritersImplementLog`: for disciplined callers, under
`NeverReset`, `Spec => ImplementsCommitLog`, the refinement of `CommitLog` under the mapping
that takes `log` from what a reader would see. By `IInv` that log is what was committed
(`LogIsCommitted`), which only three things change: a commit by the counters, one by
counters that are flushed late, and a truncating open, which finds an empty log. Only
a session between its load and its commit has something pending (`ProgressInv`), so all
other steps stutter or abandon. One lemma per kind of step
says which step of the log it is; `StepImplements` puts them together.

It also proves `FootersAreRight` for `FooterMatchesRecords`, for disciplined callers, torn
counters or not. A reader takes
the last chunk for the footer if it is one, so `FooterInv` says three things: behind a
committed file the last chunk, if a footer, covers its records; a session that is
writing has no footer at the end and has gathered an entry for each record it counts, or
none at all; and the footer it wrote, or will flush late, covers what the counters say or
are about to say. Loading
drops the footer (`Truncated`) or keeps its entries, a failed write leaves a chunk that
is no footer, a session without statistics ends its file with a record. A footer may have
more entries than the file has records
([below](#where-the-code-and-its-documents-disagree)); those for the records there are
right all the same.

### StreamWrite

`StreamWriteProofs` proves `PublishedWhole` for `PublishedComplete` and `TwoInFlight` for
`BatchesInFlight`, for any columns, sizes, budgets and cuts. The invariant relates three
things: the rows of the batches submitted so far are in the temporary, but for those a
job still to run covers (`FillInv`, `Filled`); at most one batch has such jobs, and
behind it there is only the mark of an evaluation that failed (`QueueInv`); and every
job puts rows where they come from (`Jobs`). `PlanCovers` and `BatchCovers` are the
arithmetic: the jobs of a copy plan cover every row, those of batch k the rows from
k * per to the next multiple or the end.

### SharedPath

`SharedPathProofs` starts with what walking a file finds, since nobody knows where rows
are except by reading record headers. `HeadAt` and the joining of rows are recursive
functions, and tlapm can say what one application of them gives (`HeadsExist`,
`HeadsStep`, `FlatExists`, `FlatStep`). `Laid` says that records lie end to end with the
rows 1, 2, 3...; `WalkFinds` that a walk of such a file ends where the records end;
`StoredCells` what their cells are; `StaysStored` that they are found again whatever is
appended behind them; `RecordAppended` and `OneRecord` that a written record and a
compaction's output are laid so; `RowsRead` what a reader gets. With these,

* `PathIsKept`: `WritersAvoidRename => (Spec => []PathInv)`; `PathInv` says who works on
  which inode under which lock (`LockInv`, `PlaceInv`), that the file behind the path has
  exactly the acknowledged rows (`SourceInv`), that a session's records follow them
  (`Session`), and that a compaction has an index that is still right and an output with
  as many rows as it has copied (`Compacts`, `OutputsInv`);
* `PathIsWhole` and `OutputsAreWhole` for `PathHoldsAcked` and `CopiesWhole`.

Every step changes a reader's files only in one of a few ways (`Kept`): the records that
were committed stay, or the path moves to a file with the same rows, and the old inode is
touched by nobody from then on. The last part of `SharedPathProofs` proves that each action does so, and
from it

* `ReadersAreKept`, the invariant of readers, with `ReadersHaveOneState` for
  `ReaderSnapshot` and `MappedRowsAreKept` for `MappedRowsStay`, if also
  `ReadersAvoidRename`;
* `FootersAreKept` and `SkippingLosesNothing` for `SkippingExact`, if also
  `FiltersAvoidRename`: the entries of a footer, of a session and of a reader are those
  of the records they stand for (`Speaks`), as many as the records that were there.

The hypotheses are the three flags and the assumptions on the constants: names of actors
and inodes differ, record ends do not decrease, bounds are numbers.

### Convert

`ConvertProofs` proves every safety property of `Convert`, for any files, calls, number of
workers and number of failures, from two inductive invariants in `ConvertInv`.

`OthersAreLeftAlone` (`OthersUntouched`) and `CallsClearUp` (`NothingLeftBehind`) follow from
`IInv`. It adds to the first
property what its threads need: a job that is past the look at its output (`Prepare`) may
write it, for the call overwrites or nothing was there when it began (`OutputsInv`, `Free`),
and jobs of a merge write to the scratch directory, which is there during a merge only
(`ScratchInv`). That is not evident from any one step: between the look of one thread and
its write others write, but none brings back what was there before. For the second,
`ProgressInv` says that whatever has been collected is done, that who gets to the merge has
collected all, and that who has waited for the pool has nobody at work; a call can come to
`cleaning` from four places, and each has one of these. The code has the same four: the end
of the merge, its failure, its refusal of schemas, and a failed part.

`OutputsAreExact` (`OutputsExact`) and `OutputsOpenAsPrefix` (`OpensAsPrefix`) follow from
`ExactInv`, which says where every file comes from at every point of a call:

* `FilesInv`: what is on the disk are paths and files. From this comes the plan: what a glob
  matches differs by its number alone, so an order by number exists and has each of them
  (`OrderExists`, from `SortingPermutation`), and what the plan takes is what was promised
  (`InputsListed`).
* `PlanInv`, `JobsInv`: the groups are the inputs in their order, one to one or all to one,
  and no output is named twice (`NoneTwice`: the plan compares a number of distinct names
  with that of inputs, `api.py:539-547`). Job `j` has input `j` and the `j`-th output or part.
* `HandsInv`, `SharesInv`: what a job has in hand is its share of its input as it was at the
  call, and its output is as far as its program counter says (`Landed`): as before, gone,
  torn, or the share; only after a failure is it one of several, or a file that begins as the
  share does (`BeginsAs`). `BreaksOff` and `FirstRows` are that whatever the writing of a
  format leaves, and whatever a streamed import has committed, does.
* `OthersInv`: a path that is no output is as it was. This is what makes a later read find
  what the call began with, while other threads write.
* `MergedInv`, `OkInv`: the same for the output of a merge; `MergedIs` is that parts put end to
  end in the order of jobs, with the columns all have, are what was promised.

`OpensAsPrefix` says what may be missing of an output that opens: rows only after a call in
batches, columns only in a format that is written column by column, and only HDF5 has rows
that nobody filled. Both theorems are for calls none of whose outputs is one of their inputs (`Apart`; the plan
does not check it). `SharesInv` and `MergedInv` hold under `Apart` only, the other parts
always, so that a call that is not `Apart` does not spoil what is known of the calls after it.
The hypothesis cannot be dropped: `MCOverlapping`, two stores that trade names, violates
`OutputsExact` (see [below](#where-the-code-and-its-documents-disagree)); TLC checked
`ExactInv` on that instance too.

Assumed of the constants: `None` is not a call, the files are finitely many and are files, and
paths have a number (`FilesAssumption`, `CallsAssumption`).

### TableReads

`TableReadsProofs` proves `OpenersClose` for `OpenerCloses`, `ColumnsAreInEveryChild` for
`SchemaInEveryChild`, `MemoIsFresh` for `MemoFresh` and `ViewsSelect` for `ViewSelects`, for
any files, sources, requests, selectors and values. `IInv` in `TableReadsInv` has five parts.

* `OwnersInv`: a handle in use has a file; a child the dataset owns is not the user's; and
  an open reader that is not the user's is an owned child of a dataset that is not closed.
  What `append()` opens gets handles that were free (`FreshHandles`; `Ranked` is the
  counting behind it), so what it closes again when it fails was nobody's.
* `SchemaInv`: the schema is empty if and only if there are no children. Without that the
  first file of a strict dataset could set a schema while others are there
  (`dataset.py:322-324`); it needs that a file has a column, which the writer sees to
  (`format.py:520`).
* `MemoInv`: while all children are mapped, a memoised table is what would be stitched now,
  and a known grid is that of any column's table. The grid is found from the first column
  of whichever read came first and used for all others: `SameStarts` is why that is right
  (where stitched segments start does not depend on the column). A child that is closed
  never opens again, so tables memoised as None while one is closed do no harm.
* `OffsetsInv`: the offsets are the sums of the children's rows, so the dataset has a
  number of rows.
* `ViewInv`: the selector of a view, normalised, stands for the rows that it should
  (`Stands`).

The last rests on two arguments. The first is the arithmetic of selectors: what Python's
`slice.indices` gives lies within the table (`SliceIndicesBound`, `SliceRows`); a slice of a
slice, as `compose_slices` folds it into one, has the rows of the slice of the rows, also
where a step backward passes row 0 and the bound has to be left out (`RunAsSlice`,
`SliceOfSlice`); a negative row folds into the one that it means (`Folded`). `KeyStands`,
`ComposeStands`, `HeadStands` and `TailStands` put these together: a key, a key of a view,
a head and a tail stand for what the reference, `Picks`, gives. The second is that of
queries: a value of a record is loaded from its cells (`ElementInBody`, `ElementInImage`,
`ElementLoaded`: record, column and part are those wanted, at every layout); statistics
bound the values of a record without a NaN (`StatBounds`), so that one that is ruled out
has no match (`RuledOut`); and the masks of the records, end to end, are that of the file
(`PartsJoined`, `QueryExact`).

Assumed: handles are finitely many, no file is `None`, every file has a column and a
record, names of columns differ, sources and requests are not empty, mappings do not
overlap (`SpanAssumption`), `NaN` and `None` are no numbers, comparisons are the five the
skipping knows, and a head or tail is of a row at least (`PeekAssumption`; see below).

### GatherKernels

`GatherKernelsProofs` proves `IndexIsExact` for `IndexExact`, for files of any layout, any
length, faults and size of buffer: the walk through the buffer (`record_index.cpp`) gives
what the walk header by header (`format.py`) does, the same error at the same record when
there is one; there is none just when the file is whole and every header is good, and then
rows, places and counts are those of the layout.

* The layout: `HeaderPlace(f, r)` is where the header of record `r` is. Headers do not
  overlap (`PlacesApart`), so the cells at one place are of one record (`HeaderFound`); the
  file ends where the next header would be (`FileLength`, with `FlatLength` and the sums of
  `SequenceFacts`).
* `Walked` is the invariant of the walk in Python: after `m` records it has their places,
  rows and counts and is at `HeaderPlace(f, m)`, or it has stopped at the first header that
  is cut off or faulty (`GoodHeader`).
* `Follows` ties the walk in C++ to it: the same place, index and error, and a buffer that
  has what the file has from `from` on. Whether the next header is in the buffer whole or a
  refill is due, it is the header the other walk reads (`HeaderInBuffer`, `FollowsStep`). A
  buffer smaller than a header is why the code reads `Most(chunk, HeaderCells)`.

Assumed: a file has a record and a column, sizes of columns, headers and alignment are not
zero, column names differ, faults are of records the file has, and the errors are neither
`None` nor a number (`LayoutAssumption`, `FaultsAssumption`, `ErrorsAssumption`).

### How they were found, and what is left

TLC checked each inductive invariant, or its conjuncts, as invariants of a run before it
was proved (with `Nat` bounded where an invariant says that some number exists). One did
not hold of the model as it was: the third flag of `SharedPath` names what was missing.

Only model-checked so far: `KernelsExact` of `GatherKernels`; `ReadsExact` of `TableReads`;
the five of `Frame`. Left
to TLC for good: the liveness properties (`LocksAreReleased`, `Terminates`, `EveryCallEnds`), and what the
recursive operators over expressions (`Evaluate`) compute, since a module that declares one cannot be proved about. A
recursive *function* is no such obstacle: where induction is on a number, first-order
reasoning with a least counterexample (`LeastNumber`, `UpTo`) does, as in `SharedPath`.

## Where the code and its documents disagree

Three runs end, as expected, in a violation. The findings in `PROJECT.json` quote
the lines.

* `RaceTruncate`: `create` and `recreate` truncate before they lock.
* `LateFlush`: `close()` unlocks and then closes the file, which flushes what an earlier
  flush that failed left in its buffer. Counters that come late this way count what
  another session has written by then and not committed.
* `LostUpdate`: a session that opens between a compaction's unlock and rename
  commits to a file that loses its name.

Met while modelling, with no run of their own:

* When `write()` raises after a part of its record is in the file (`writer.py:383-385`) the
  session stays open. A caller that goes on with another write and `close()` commits a
  record behind bytes the walk cannot cross (`format.py:277`): the file does not open, the
  old records included. With `RetryAfterFailure = TRUE` in `StoreWriter.cfg` TLC finds
  `CommittedReadable` violated.
* A session whose load of a good file is cut short before it knows the counters
  (`writer.py:183-190`) is closed by its finalizer (`writer.py:487-491`), which writes zero
  counts over them; one cut short before the lock does so without holding it. With
  `InterruptedAt = {"locked"}` in `StoreWriter.cfg` TLC finds `ReadersSeeAcked` violated,
  with `{"opened"}` `OnlyHolderWrites`.
* `reader.py:369-370` has the statistics in "arrays of length ``n_records``", and nothing
  compares the two. A session whose `write()` raised with the whole record in the file
  commits a footer behind it; the next one cuts that back, writes a record of the same
  size, its footer lands where the old one stood, and it dies before the counters. A reader
  takes this footer, with one entry too many, for the file's, and a filter that keeps the
  extra entry looks for a record past the last (`reader.py:434-437`), an `IndexError`.
  `FooterMatchesRecords` says what holds: the entries for the records there are, are right.
* A reader opens its path three times (`reader.py:235`, `260`, `298`). If it has read the
  header and the records of a shard, the shard is deleted, and an append publishes another
  under its number, the mapping shows rows of the new shard by the header of the old one,
  where `src/README.md:536` says that "a reader only ever sees a complete shard". With
  `NamesNotReused = FALSE` in `ShardDir.cfg` TLC finds `DatasetWhole` violated.
* A reader takes the offset of the footer from the header when it opens and reads the
  footer by path when it first filters (`reader.py:377-386`). If a compaction has renamed
  its output onto the path by then, and a later session wrote its own footer at just that
  offset, the reader parses it, compares it with nothing of its own, and skips records
  whose rows match, where the docstring has the result "identical to the full
  evaluation either way" (`reader.py:397-398`). With `FiltersAvoidRename = FALSE`,
  `Starts <- MCThreeRecords`, one updater, compaction and reader, `Statistics = {TRUE}`,
  `MaxRows = MaxRecords = 4` and `MaxPerRecord = 1`, TLC finds `SkippingExact` violated
  in seconds. This came out of the proof: the invariant it needs is not kept by such a
  filter. With the constant TRUE `SkippingLosesNothing` is proved.
* A store with no records cannot be opened (`reader.py:304` raises `IndexError`).
* A contended `create` leaves its empty file behind, so that `create` is refused from
  then on.
* Two compactions in the unlock-rename window share a temporary name.
* `api.py:763-765` has readers go on with the unlinked inode after a compaction. A raw copy
  plan does not: it opens its sources again by path (`format.py:1212-1221`) with byte
  offsets from when the readers were opened. `StreamWrite` takes its sources as fixed.
* `append()` of a file that is being updated can copy it torn.
* `Appender.write` buffers the caller's arrays without a copy (`shards.py:532`): what is
  flushed is what they hold then.
* A slice forward that ends before it begins (`ds[5:2]`) gives no rows in a store of one
  record and raises `ValueError` in one of several: `reader.py:929` passes the bounds on
  and the length is negative. `tests/test_indexing.py:44` has NumPy's slices "propagate
  through". `ReadsExact` names the case.
* Without the extension every read of a store of several records raises `ImportError`:
  the gather imports it before it looks at the selector (`reader.py:876`), although a
  copy in Python is there (`_copy_multirecord_range_python`). `ReadsExact` names the case.
* A borrowed child that its owner closes after a table was memoised leaves absolute
  addresses of a mapping that is gone in the memo; the documents ask that operands be
  kept open, and `MemoFresh` and `ReadsExact` assume it.
* Under `on_mismatch="drop"` a warning turned into an error leaves the schema narrowed
  and the readers that were opened open (`dataset.py:337-350`).
* `head(0)` of a view of one row still has that row; `Peek` is at least 1 here.

And of frames and conversions:

* Keys in the memo are texts, and a comment (`frame.py:147-150`) has them stand for
  the values. The `repr` of a 0-d array shows eight digits, a ufunc goes by its name
  alone, and an `apply` with a declared dtype shares its key with one of the same function
  whose dtype was inferred, so that the check promised at `frame.py:698-703` may not run.
  `Repr` is one-to-one in the instance, and no function is applied both ways.
* `drop("a", "a", inplace=True)` removes `a` and then raises, though its docstring has
  every name checked "before changing anything". `Drops` are sets here.
* `iter_batches(copy=True)` of a column attached by reference gives a view of the
  caller's array. A change of it while batches are drawn shows in those to come, as
  do edits in place; `BatchesExact` claims nothing of these.
* After an append to the dataset, a frame that kept its rows as a mask cannot be read, and
  the write of a frame over the whole dataset raises: it counts rows when it is opened.
* "`n_rows` must never throw" (`frame.py:1340`), but an `apply` in a cut can.
* A query without a column (`"@flag == 1"`) is refused by a reader
  (`validate_predicate`) and accepted by `frame.where`, whose mask then has one element
  and keeps the first row at most. `Cuts` have a column each.
* `convert` with `overwrite` unlinks an output before it looks at its source. If an output
  is an input of the same call, that input is gone: with two stores that trade their
  names (`Calls <- MCOverlapping`), `OutputsExact` fails. `concat` guards against this, `plan_conversions` does not. And a call that is
  refused for its `dtypes` has removed the old output already.
* With several workers, a part that fails leaves open the readers of parts after it that
  had finished; a comment has a "mid-build failure" close "what opened". Conversions to
  outputs of their own leave all earlier readers open. `NothingLeftBehind` claims it of
  the parts in hand only.
* A streamed import that fails halfway commits what it has: a readable prefix stays at the
  output. So do exports: a streamed Parquet or Feather file is closed as a whole, shorter
  one (`parquet.py:58-60`, `feather.py:56-58`), HDF5 and `.npz` files open with rows or
  columns missing, HDF5 also with rows nobody filled. `OpensAsPrefix` says what can be
  missing where; nothing in such a file tells that it was cut short.
* The check that an output is absent and its publication are apart: another process's
  file that comes in between is replaced.

## Not modelled

* The text of the manifest, dtypes and alignment: one kind of record stands for
  all, as every offset is computed from the same schema.
* The order in which the kernel brings pages to disk. A crash here is the death
  of a process; what it has written stays. The single `fsync` after the counters
  does not order them behind the records.
* Windows' locking and rename rules, the buffered writing of records where there is no
  `os.writev`, and file systems without `flock` (a
  constant, but no run asks what is left without it).
* Of a writing session: a counters block that a live process writes in part (64 bytes are
  written whole or not at all; a crash may tear them, `TornCounters`), and an interrupt
  inside the `finally` of `close()` or between two assignments of `write()`.
* `write_dataset` in place, which writes an existing path without a lock.
* Of reading: non-native byte order, one selector that outlives an `append()`, globs of
  a dataset, the choice of the thread count, prefetching, the exact density gates and
  byte limits (they choose between paths that are each checked), `column_chunks` and the
  disk runs handed to interchange.
* Of frames: strings (and how comparisons align them), `apply` over several columns,
  NumPy's array protocols, previews and progress; numbers are small integers, so
  overflow and rounding are NumPy's.
* Of interchange: all but what a conversion asks of a format (read whole or in batches,
  write, fail); exports to ROOT, whose chunks are written in a `with` too; `.json` is
  written whole or torn. Argument parsing, rendering, calibration and NUMA placement: no protocol
  of this program's own that bears on what is stored or read.

## Plan

1. Done: `StoreWriter` with `CommitLog`; `SharedPath`; `ShardDir`; `StreamWrite`;
   `RowSelection`, `SegmentGather`, `NativeEntries`, `GatherKernels`, `TableReads`;
   `Expressions`, `Frame`; `Convert`.
2. Done: proofs of every safety property of `StoreWriter`, with the refinement, of
   `SharedPath`, `ShardDir`, `StreamWrite` and `Convert`.
3. Proofs about reading. Done: `OpenerCloses`, `SchemaInEveryChild`, `MemoFresh` and
   `ViewSelects` of `TableReads`, `IndexExact` of `GatherKernels`. Next: lemmas about chunks
   (they tile the rows for every team), towards `KernelsExact` and `ReadsExact`.
4. Durability (what a power loss can leave), the calibration cache file, and copy plans
   over sources that are compacted between the open and the copy.
