------------------------------ MODULE Convert ------------------------------
(***************************************************************************)
(* convert() (src/colstore/api.py, cli/convert.py, interop): which inputs  *)
(* go to which outputs, and the files that are written for it, one after   *)
(* another or by a pool of threads, into outputs of their own or, by way   *)
(* of parts in a scratch directory, into one.  Any read or write may fail, *)
(* and the call may be made again after that.                              *)
(*                                                                         *)
(* A file is the rows and columns it holds, and whether it is whole; one   *)
(* that is not does not open, or not with columns of one length.  A path   *)
(* is a directory, a stem (a name and a number: run_10) and an extension.  *)
(* A native reader keeps what it has mapped when its file is unlinked, so  *)
(* it is what the file held.                                               *)
(***************************************************************************)
EXTENDS Integers, Sequences, FiniteSets, SequencesExt

CONSTANTS None,          \* Python's None
          Automatic,     \* max_workers="auto"
          Files,         \* the files there are to begin with
          Rows,          \* the rows there can be
          Blank,         \* one of them: a row with a column nobody filled
          Calls,         \* what convert is called with (see MCConvert)
          AutoWorkers,   \* config: the workers of max_workers="auto"
          MaxFailures,   \* bound: reads and writes that fail
          MaxCalls       \* bound: calls, one after another

ASSUME WorkersAssumption == AutoWorkers \in Nat \ {0}
ASSUME BlankAssumption == Blank \in Rows

\* What paths and files are: a stem is a name and a number, which orders it.
IsStem(s) == s = <<s[1], s[2]>> /\ s[2] \in Nat
IsPath(p) == p = [dir |-> p.dir, stem |-> p.stem, ext |-> p.ext] /\ IsStem(p.stem)
IsFile(f) == /\ f = [rows |-> f.rows, cols |-> f.cols, whole |-> f.whole]
             /\ f.rows \in Seq(Rows) /\ f.whole \in BOOLEAN

ASSUME FilesAssumption ==
  IsFiniteSet(DOMAIN Files) /\ \A p \in DOMAIN Files : IsPath(p) /\ IsFile(Files[p])
ASSUME CallsAssumption ==
  /\ None \notin Calls
  /\ \A c \in Calls :
       /\ DOMAIN c.source = 1..Len(c.source) /\ Len(c.source) \in Nat
       /\ \A k \in DOMAIN c.source : c.source[k].pattern = None => IsPath(c.source[k].path)
       /\ c.literal # None => IsPath(c.literal)
       /\ \A s \in DOMAIN c.rename : IsStem(c.rename[s])

VARIABLES disk,       \* the files by their path
          main,       \* the call: what it does, with which plan
          job,        \* its conversions or parts, in the order of the inputs
          scratch,    \* the files in its scratch directory, None without one
          failures, calls

vars == <<disk, main, job, scratch, failures, calls>>

File(rows, cols) == [rows |-> rows, cols |-> cols, whole |-> TRUE]
Torn == [rows |-> <<>>, cols |-> {}, whole |-> FALSE]
Native(p) == p.ext = "cstore"
Exists(p) == p \in DOMAIN disk

\* Files with one more, or one other, at a path, or without it.
Stored(d, p, f) == [q \in DOMAIN d \cup {p} |-> IF q = p THEN f ELSE d[q]]
Unlinked(d, p) == [q \in DOMAIN d \ {p} |-> d[q]]

-----------------------------------------------------------------------------
(* The plan. *)

Refused == [mode |-> "refused", groups |-> <<>>]

\* glob.glob: those of the paths, in the directory of the pattern, that match it.
Matches(paths, pattern) ==
  {p \in paths : p.dir = pattern.dir /\ p.stem[1] = pattern.name /\ p.ext = pattern.ext}

\* A slip to catch: run_10 comes before run_2.
TextOrder(paths) ==
  LET lead(p) == IF p.stem[2] >= 10 THEN p.stem[2] \div 10 ELSE p.stem[2]
  IN  CHOOSE s \in [1..Cardinality(paths) -> paths] :
        \A i, j \in DOMAIN s : i < j => lead(s[i]) < lead(s[j])

\* natural_sort_key: by number.
NaturalOrder(paths) ==
  CHOOSE s \in [1..Cardinality(paths) -> paths] :
    \A i, j \in DOMAIN s : i < j => s[i].stem[2] < s[j].stem[2]

\* expand_glob
Expanded(item) ==
  IF item.pattern = None THEN <<item.path>> ELSE NaturalOrder(Matches(DOMAIN disk, item.pattern))

\* _resolve_convert_inputs; a pattern that matches nothing is refused.
Inputs(c) == FlattenSeq([k \in DOMAIN c.source |-> Expanded(c.source[k])])
MatchesNothing(c) == \E k \in DOMAIN c.source : Expanded(c.source[k]) = <<>>

\* _target_extension, None where there is none.
TargetExtension(c, inputs) ==
  CASE c.dest # None   -> c.dest.ext
    [] c.dest = None /\ c.format # None -> c.format
    [] c.dest = None /\ c.format = None -> IF Native(inputs[1]) THEN None ELSE "cstore"

\* _resolve_output_path: by a template, whose directory it takes, by a mapping of
\* stems, or by itself, beside its source.
OutputPath(c, source, index, ext) ==
  LET out == CASE c.dest # None ->
                    [source EXCEPT !.ext = ext, !.dir = c.dest.dir,
                       !.stem = IF c.dest.field = "index" THEN <<c.dest.name, index>> ELSE @]
               [] c.dest = None -> [source EXCEPT !.ext = ext,
                       !.stem = IF @ \in DOMAIN c.rename THEN c.rename[@] ELSE @]
  IN  IF c.outdir = None THEN out ELSE [out EXCEPT !.dir = c.outdir]

\* plan_conversions: every input into the one output, or each to its own.
Planned(c) ==
  LET inputs == Inputs(c)
      ext    == TargetExtension(c, inputs)
      groups == [k \in DOMAIN inputs |->
                   [from |-> <<inputs[k]>>, to |-> OutputPath(c, inputs[k], k - 1, ext)]]
  IN  CASE MatchesNothing(c) \/ inputs = <<>> -> Refused
        [] ~MatchesNothing(c) /\ inputs # <<>> /\ c.literal # None ->
             [mode |-> "merge", groups |-> <<[from |-> inputs, to |-> c.literal]>>]
        [] ~MatchesNothing(c) /\ inputs # <<>> /\ c.literal = None ->
             IF ext = None \/ (c.dest # None /\ c.dest.field \notin {"index", "stem"}) THEN Refused
             ELSE IF Cardinality({groups[k].to : k \in DOMAIN groups}) < Len(groups) THEN Refused
             ELSE [mode |-> "one-to-one", groups |-> groups]

\* _resolve_workers, 0 where the count is refused.
Workers(given, n) ==
  LET atMost(w) == IF w < n THEN w ELSE n IN
  CASE given = None   -> 1
    [] given = Automatic -> atMost(AutoWorkers)
    [] given \notin {None, Automatic} -> IF given < 1 THEN 0 ELSE atMost(given)

-----------------------------------------------------------------------------
(* One conversion, or one part of a merge. *)

Waiting(from, to, part) ==
  [pc |-> "waiting", from |-> from, to |-> to, part |-> part,
   got |-> None, sent |-> 0, reader |-> None]

PartPath(k) == [dir |-> None, stem |-> <<"part", k>>, ext |-> "cstore"]

\* Where a job writes: a part goes to the scratch directory, which is a new one
\* with a name nobody knows.
Place(j) == IF job[j].part THEN scratch ELSE disk
Written(j) == Place(j)[job[j].to]
Taken(j) == job[j].to \in DOMAIN Place(j)
Becomes(j, d) == IF job[j].part THEN scratch' = d /\ disk' = disk ELSE disk' = d /\ scratch' = scratch
Writes(j, f) == Becomes(j, Stored(Place(j), job[j].to, f))

Settled == {"done", "failed", "cancelled"}
Running == {j \in DOMAIN job : job[j].pc \notin Settled \cup {"waiting"}}
Now(j, pc) == [job EXCEPT ![j].pc = pc]

\* The columns asked for of a file, if it has them.
Has(f) == f.whole /\ (main.call.columns = None \/ main.call.columns \subseteq f.cols)
Projection(f) == IF main.call.columns = None THEN f ELSE [f EXCEPT !.cols = main.call.columns]

\* _iter_mapped: one by one, as they are asked for, or a pool that takes them
\* in turn.
Start(j) ==
  /\ main.pc = "mapping"
  /\ job[j].pc = "waiting" /\ \A k \in 1..(j - 1) : job[k].pc # "waiting"
  /\ IF main.workers <= 1 THEN main.collected = j - 1 ELSE Cardinality(Running) < main.workers
  /\ job' = Now(j, IF job[j].part THEN "reading" ELSE "preparing")
  /\ UNCHANGED <<disk, main, scratch, failures, calls>>

\* A slip to catch: what is there is replaced in any case.
MayTakeAnyway(c, p) == TRUE

\* _prepare_output: what exists is an error, or goes.
MayTake(c, p) == Exists(p) => c.overwrite

\* _convert_one, up to and with _prepare_output.
Prepare(j) ==
  LET ok == (Native(job[j].from) \/ Native(job[j].to)) /\ MayTake(main.call, job[j].to) IN
  /\ job[j].pc = "preparing"
  /\ disk' = IF ok THEN Unlinked(disk, job[j].to) ELSE disk
  /\ job' = Now(j, IF ok THEN "reading" ELSE "failed")
  /\ UNCHANGED <<main, scratch, failures, calls>>

\* The source is opened, or read; dtypes are for imports only.  A native part
\* that is taken whole is its own reader.
Read(j) ==
  LET s == job[j]
      source == disk[s.from]
      refused == Native(s.from) /\ main.call.dtypes /\ ~s.part
      ready == Exists(s.from) /\ Has(disk[s.from]) /\ ~refused
  IN  /\ s.pc = "reading"
      /\ job' = IF ~ready THEN Now(j, "failed")
                ELSE IF s.part /\ Native(s.from) /\ main.call.columns = None
                THEN [job EXCEPT ![j] = [s EXCEPT !.pc = "done", !.reader = source]]
                ELSE [job EXCEPT ![j] = [s EXCEPT !.pc = "writing", !.got = Projection(source)]]
      /\ UNCHANGED <<disk, main, scratch, failures, calls>>

\* Formats that are read and written batch by batch, if a batch size is given,
\* and those that are written column by column.
Streamed == {"parquet", "feather", "hdf5"}
ByColumn == {"hdf5", "npz"}

\* The output is begun: published at once from a native file; otherwise
\* written in its place, and an import (mode "create") does not take a name
\* that is taken.  An import in batches is a stream, unless the file has
\* columns that keep it from it.
Write(j) ==
  LET s == job[j]
      import == ~Native(s.from)
      ways == IF import /\ main.call.batches /\ s.from.ext \in Streamed
              THEN {"streaming", "filling"} ELSE {"filling"}
  IN  /\ s.pc = "writing"
      /\ IF import /\ Taken(j) THEN UNCHANGED <<disk, scratch>> /\ job' = Now(j, "failed")
         ELSE IF ~import /\ Native(s.to) THEN Writes(j, s.got) /\ job' = Now(j, "opening")
         ELSE Writes(j, Torn) /\ \E way \in ways : job' = Now(j, way)
      /\ UNCHANGED <<main, failures, calls>>

\* The output is written, whole or, of an export, batch by batch: nothing of it
\* shows before its writer closes it.
Fill(j) ==
  /\ job[j].pc = "filling"
  /\ Writes(j, job[j].got)
  /\ job' = Now(j, "opening")
  /\ UNCHANGED <<main, failures, calls>>

\* write_column_batches: one record more, or, after the last, the commit.
StreamBatch(j) ==
  /\ job[j].pc = "streaming" /\ job[j].sent < Len(job[j].got.rows)
  /\ job' = [job EXCEPT ![j].sent = @ + 1]
  /\ UNCHANGED <<disk, main, scratch, failures, calls>>

CommitStream(j) ==
  /\ job[j].pc = "streaming" /\ job[j].sent = Len(job[j].got.rows)
  /\ Writes(j, job[j].got)
  /\ job' = Now(j, "opening")
  /\ UNCHANGED <<main, failures, calls>>

\* A reader on what was written; an export gives its path.
OpenResult(j) ==
  /\ job[j].pc = "opening"
  /\ job' = IF ~Native(job[j].to) THEN Now(j, "done")
            ELSE IF Taken(j) /\ Written(j).whole
            THEN [job EXCEPT ![j].pc = "done", ![j].reader = Written(j)]
            ELSE Now(j, "failed")
  /\ UNCHANGED <<disk, main, scratch, failures, calls>>

\* A slip to catch: every record is written over the one before it.
KeptLast(s) == [s.got EXCEPT !.rows = SubSeq(@, s.sent, s.sent)]

\* A writer that is left by an exception closes, and so commits the batches it
\* has got.
Kept(s) == [s.got EXCEPT !.rows = SubSeq(@, 1, s.sent)]

\* How many rows an export has begun when it breaks off, and how many of them
\* are filled: it makes room in an HDF5 file before it fills it.
Stages(f, ext, streamed) ==
  LET all == Len(f.rows) IN
  {stage \in (0..all) \X (0..all) :
     /\ stage[1] = all \/ streamed
     /\ stage[2] = stage[1] \/ (stage[2] < stage[1] /\ ext = "hdf5")}

\* What the writing of f to another format leaves when it breaks off, if it
\* leaves a file: one that does not open, or, its writer having been closed by a
\* with or a finally, the batches or the columns it has got.
BrokenOff(f, ext, streamed) ==
  {Torn} \cup
  {File([k \in 1..stage[1] |-> IF k <= stage[2] THEN f.rows[k] ELSE Blank], cols) :
     stage \in Stages(f, ext, streamed),
     cols \in IF ext \in ByColumn THEN (SUBSET f.cols) \ {{}} ELSE {f.cols}}

StreamsTo(p) == main.call.batches /\ p.ext \in Streamed

\* A read or a write raises.  A streaming writer removes a file without a header,
\* commits the batches it has got, or leaves a file that counts none, which does
\* not open.
JobFails(j) ==
  LET s == job[j] IN
  /\ s.pc \in {"reading", "writing", "filling", "streaming", "opening"}
  /\ failures < MaxFailures
  /\ failures' = failures + 1
  /\ CASE s.pc = "streaming" -> \/ UNCHANGED <<disk, scratch>>
                                \/ s.sent = 0 /\ Becomes(j, Unlinked(Place(j), s.to))
                                \/ s.sent > 0 /\ Writes(j, Kept(s))
       [] s.pc = "filling" /\ ~Native(s.to) ->
            \/ Becomes(j, Unlinked(Place(j), s.to))
            \/ \E f \in BrokenOff(s.got, s.to.ext, StreamsTo(s.to)) : Writes(j, f)
       [] OTHER -> UNCHANGED <<disk, scratch>>
  /\ job' = Now(j, "failed")
  /\ UNCHANGED <<main, calls>>

-----------------------------------------------------------------------------
(* The call. *)

NoCall == [pc |-> "idle", call |-> None, mode |-> "", to |-> None, groups |-> <<>>, workers |-> 0,
           collected |-> 0, ok |-> FALSE, before |-> disk]

Init ==
  /\ disk = Files
  /\ main = NoCall
  /\ job = <<>> /\ scratch = None /\ failures = 0 /\ calls = 0

MayBegin == main.pc \in {"idle", "ended"} /\ calls < MaxCalls /\ calls' = calls + 1

\* A merge of one input is a conversion of it.
Merges(plan) == plan.mode = "merge" /\ Len(plan.groups[1].from) > 1
JobCount(plan) == IF Merges(plan) THEN Len(plan.groups[1].from) ELSE Len(plan.groups)

\* A merge needs a native end, and an output it may take.
MayMerge(c, g) == (Native(g.to) \/ \E k \in DOMAIN g.from : Native(g.from[k])) /\ MayTake(c, g.to)

Accepted(c, plan) == plan.mode # "refused" /\ Workers(c.workers, JobCount(plan)) # 0

Called(c, plan) ==
  [NoCall EXCEPT !.pc = "mapping", !.call = c, !.groups = plan.groups,
     !.mode = IF Merges(plan) THEN "merge" ELSE "one-to-one",
     !.to = plan.groups[1].to, !.workers = Workers(c.workers, JobCount(plan))]

\* A call that only fails, or, a dry run of the command line, only plans.
BeginNothing(c) ==
  /\ MayBegin
  /\ \E plan \in {Planned(c)} :
       /\ c.dry \/ ~Accepted(c, plan) \/ (Merges(plan) /\ ~MayMerge(c, plan.groups[1]))
       /\ main' = [NoCall EXCEPT !.pc = "ended", !.call = c, !.ok = c.dry /\ plan.mode # "refused"]
  /\ job' = <<>>
  /\ UNCHANGED <<disk, scratch, failures>>

\* _convert_merge, up to its parts: the output is taken, a scratch directory made.
BeginMerge(c) ==
  /\ MayBegin /\ ~c.dry
  /\ \E plan \in {Planned(c)} :
       /\ Accepted(c, plan) /\ Merges(plan) /\ MayMerge(c, plan.groups[1])
       /\ main' = Called(c, plan)
       /\ disk' = Unlinked(disk, plan.groups[1].to)
       /\ job' = LET from == plan.groups[1].from
                 IN  [k \in DOMAIN from |-> Waiting(from[k], PartPath(k - 1), TRUE)]
  /\ scratch' = [p \in {} |-> Torn]
  /\ UNCHANGED failures

BeginEach(c) ==
  /\ MayBegin /\ ~c.dry
  /\ \E plan \in {Planned(c)} :
       /\ Accepted(c, plan) /\ ~Merges(plan)
       /\ main' = Called(c, plan)
       /\ job' = [k \in DOMAIN plan.groups |-> Waiting(plan.groups[k].from[1], plan.groups[k].to, FALSE)]
  /\ UNCHANGED <<disk, scratch, failures>>

\* The next result, in the order of the inputs.
Collect ==
  LET j == main.collected + 1 IN
  /\ main.pc = "mapping" /\ j \in DOMAIN job
  /\ job[j].pc = "done"
  /\ main' = [main EXCEPT !.collected = j]
  /\ UNCHANGED <<disk, job, scratch, failures, calls>>

\* It is an error: the conversions that wait are cancelled.
GiveUp ==
  LET j == main.collected + 1 IN
  /\ main.pc = "mapping" /\ j \in DOMAIN job
  /\ job[j].pc = "failed"
  /\ main' = [main EXCEPT !.pc = "stopping"]
  /\ job' = [k \in DOMAIN job |-> IF job[k].pc = "waiting" THEN [job[k] EXCEPT !.pc = "cancelled"] ELSE job[k]]
  /\ UNCHANGED <<disk, scratch, failures, calls>>

\* Slips to catch: the pool is left while conversions run, or only when those
\* that were cancelled have run.
LeftAtOnce == TRUE
AllRan == \A j \in DOMAIN job : job[j].pc \in {"done", "failed"}

\* The pool is left when nothing runs.
AllStopped == \A j \in DOMAIN job : job[j].pc \in Settled

Stop ==
  /\ main.pc = "stopping" /\ AllStopped
  /\ main' = [main EXCEPT !.pc = "cleaning"]
  /\ UNCHANGED <<disk, job, scratch, failures, calls>>

\* The parts end to end, with the columns that are in all of them.
Merged == File(FlattenSeq([j \in DOMAIN job |-> job[j].reader.rows]),
               {c \in job[1].reader.cols : \A j \in DOMAIN job : c \in job[j].reader.cols})
Compatible == \/ main.call.mismatch = "drop" /\ Merged.cols # {}
              \/ \A j \in DOMAIN job : job[j].reader.cols = job[1].reader.cols

\* Every result has been asked for.
AllCollected == DOMAIN job \subseteq 1..main.collected

\* ColStoreDataset(readers).saveas(dest): published at once, or written in place.
Merge ==
  /\ main.pc = "mapping" /\ main.mode = "merge" /\ AllCollected
  /\ IF ~Compatible THEN main' = [main EXCEPT !.pc = "cleaning"] /\ disk' = disk
     ELSE IF Native(main.to)
     THEN main' = [main EXCEPT !.pc = "cleaning", !.ok = TRUE] /\ disk' = Stored(disk, main.to, Merged)
     ELSE main' = [main EXCEPT !.pc = "filling"] /\ disk' = Stored(disk, main.to, Torn)
  /\ UNCHANGED <<job, scratch, failures, calls>>

FillMerged ==
  /\ main.pc = "filling"
  /\ main' = [main EXCEPT !.pc = "cleaning", !.ok = TRUE]
  /\ disk' = Stored(disk, main.to, Merged)
  /\ UNCHANGED <<job, scratch, failures, calls>>

MergeFails ==
  /\ main.pc = "filling" \/ (main.pc = "mapping" /\ main.mode = "merge" /\ AllCollected)
  /\ failures < MaxFailures
  /\ failures' = failures + 1
  /\ main' = [main EXCEPT !.pc = "cleaning"]
  /\ IF main.pc = "mapping" THEN disk' = disk
     ELSE \/ disk' = Unlinked(disk, main.to)
          \/ \E f \in BrokenOff(Merged, main.to.ext, StreamsTo(main.to)) :
               disk' = Stored(disk, main.to, f)
  /\ UNCHANGED <<job, scratch, calls>>

\* finally: the readers that were appended are closed, the scratch directory
\* goes.  Conversions that were one-to-one have nothing to put away.
CleanUp ==
  /\ main.pc = "cleaning"
  /\ main' = [main EXCEPT !.pc = "ended"]
  /\ IF main.mode = "merge"
     THEN /\ scratch' = None
          /\ job' = [j \in DOMAIN job |-> IF j <= main.collected THEN [job[j] EXCEPT !.reader = None] ELSE job[j]]
     ELSE UNCHANGED <<scratch, job>>
  /\ UNCHANGED <<disk, failures, calls>>

\* The results, in the order of the inputs; the command line closes them.
Return ==
  /\ main.pc = "mapping" /\ main.mode = "one-to-one" /\ AllCollected
  /\ main' = [main EXCEPT !.pc = "ended", !.ok = TRUE]
  /\ job' = IF main.call.cli THEN [j \in DOMAIN job |-> [job[j] EXCEPT !.reader = None]] ELSE job
  /\ UNCHANGED <<disk, scratch, failures, calls>>

Working(j) == \/ Start(j) \/ Prepare(j) \/ Read(j) \/ Write(j) \/ Fill(j)
              \/ StreamBatch(j) \/ CommitStream(j) \/ OpenResult(j)
Calling == Collect \/ GiveUp \/ Stop \/ Merge \/ FillMerged \/ CleanUp \/ Return

Next == \/ \E c \in Calls : BeginNothing(c) \/ BeginMerge(c) \/ BeginEach(c)
        \/ \E j \in DOMAIN job : Working(j) \/ JobFails(j)
        \/ Calling \/ MergeFails

Spec == Init /\ [][Next]_vars

\* The threads of the pool and the caller's are scheduled.
FairSpec == Spec /\ WF_vars(Calling) /\ WF_vars(\E j \in DOMAIN job : Working(j))

-----------------------------------------------------------------------------
(* Properties. *)

Ended == main.pc = "ended"

\* What one of a call's sources lists of the files there are: those a pattern
\* matches by number.
Listed(item, files) ==
  LET matches == Matches(DOMAIN files, item.pattern)
  IN  IF item.pattern = None THEN <<item.path>>
      ELSE CHOOSE s \in [1..Cardinality(matches) -> matches] :
             \A i, j \in DOMAIN s : i < j => s[i].stem[2] < s[j].stem[2]

ListedInputs(c, files) == FlattenSeq([i \in DOMAIN c.source |-> Listed(c.source[i], files)])

\* What the k-th output is to hold of the files as they were at the call.
Promised(c, merge, files, k) ==
  LET all  == ListedInputs(c, files)
      from == [i \in 1..(IF merge THEN Len(all) ELSE 1) |-> files[all[IF merge THEN i ELSE k]]]
  IN  File(FlattenSeq([i \in DOMAIN from |-> from[i].rows]),
           IF c.columns # None THEN c.columns
           ELSE {x \in from[1].cols : \A i \in DOMAIN from : x \in from[i].cols})
Promise(k) == Promised(main.call, main.mode = "merge", main.before, k)

\* A conversion that returns has put into every output the rows of its inputs
\* as they were, in the order they were listed or match in, whichever thread
\* was done first; a reader it returns shows them.
OutputsExact ==
  Ended /\ main.ok =>
    \A k \in DOMAIN main.groups : \A to \in {main.groups[k].to} :
      /\ to \in DOMAIN disk /\ disk[to] = Promise(k)
      /\ \A j \in DOMAIN job : job[j].to = to /\ job[j].reader # None => job[j].reader = disk[to]

\* A file for a promise that was broken: the first of its rows, some missing only
\* after a transfer in batches; all of its columns, unless the format is written
\* column by column; and only in HDF5, after those rows, some with nothing in them.
BeginsAs(f, promise, ext, batches) ==
  /\ Len(f.rows) = Len(promise.rows) \/ (batches /\ Len(f.rows) < Len(promise.rows))
  /\ f.cols = promise.cols \/ (ext \in ByColumn /\ f.cols \subseteq promise.cols)
  /\ \A k \in 1..Len(f.rows) :
       f.rows[k] = promise.rows[k] \/ (ext = "hdf5" /\ \A l \in k..Len(f.rows) : f.rows[l] = Blank)

\* Whatever fails, and when: an output that opens is what was there before, or
\* begins as what was promised.
OpensAsPrefix ==
  \A k \in DOMAIN main.groups : \A to \in {main.groups[k].to} :
    to \in DOMAIN disk /\ disk[to].whole =>
      \/ to \in DOMAIN main.before /\ disk[to] = main.before[to]
      \/ BeginsAs(disk[to], Promise(k), to.ext, main.call.batches)

\* Nothing but an output it was told to overwrite is lost: "off by default, so an
\* existing output raises" (api.py).
OthersUntouched ==
  main.call # None =>
    \A p \in DOMAIN main.before :
      (p \in DOMAIN disk /\ disk[p] = main.before[p])
      \/ (main.call.overwrite /\ \E g \in Range(main.groups) : g.to = p)

\* A call that has ended, however, has left no thread at work and nothing in a
\* scratch directory, and has closed the parts it had in hand.
NothingLeftBehind ==
  Ended => /\ \A j \in DOMAIN job : job[j].pc \in Settled
           /\ scratch = None
           /\ main.mode = "merge" => \A j \in 1..main.collected : job[j].reader = None

\* Every call ends: the pool waits for nobody who waits for it.
EveryCallEnds == main.pc # "idle" ~> Ended
=============================================================================
