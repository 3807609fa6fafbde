----------------------------- MODULE SharedPath ------------------------------
(***************************************************************************)
(* Everything that opens one .cstore path at the same time: update         *)
(* sessions (writer.py), compactions (compaction.py) and readers           *)
(* (reader.py).  What makes it hard is that each of them opens the path    *)
(* several times and that an in-place compaction puts another inode behind *)
(* it, so the model keeps names and inodes apart and gives every open a    *)
(* step of its own.  StoreWriter has the writer's failures; here a session *)
(* is opened, extended, committed or lost.                                 *)
(*                                                                         *)
(* A store has one column.  A file is its counters and, past the header,   *)
(* cells: a record header, a row, or a statistics footer.  The k-th row    *)
(* ever committed is the number k, so a reader that got rows out of place  *)
(* shows it.  acked is history: the rows of the committed sessions.        *)
(***************************************************************************)
EXTENDS Naturals, Sequences, SequencesExt

CONSTANTS Updaters, Compactors, Readers,
          Inodes, None,
          Starts,               \* the store to begin with: the rows up to each record's end
          Statistics,           \* whether sessions may keep statistics, or not
          MaxRows,              \* bound: rows the sessions bring the store to
          MaxRecords,           \* bound: records of a file
          MaxPerRecord,         \* bound: rows of one new record
          WritersAvoidRename,   \* nobody else has the path open for writing
                                \* between a compaction's unlock and its rename
          ReadersAvoidRename,   \* no reader is opening at the rename
          FiltersAvoidRename    \* no reader filters for the first time after it

ASSUME NoneAssumption == None \notin Inodes \cup Updaters \cup Compactors
ASSUME ActorAssumption == Updaters \cap Compactors = {}
ASSUME BoundAssumption == MaxRows \in Nat /\ MaxRecords \in Nat /\ MaxPerRecord \in Nat
ASSUME StartsAssumption ==
         Starts \subseteq {e \in Seq(Nat) \ {<<>>} : \A j, k \in 1..Len(e) : j <= k => e[j] <= e[k]}
ASSUME StatisticsAssumption == Statistics \subseteq BOOLEAN
ASSUME FlagAssumption == {WritersAvoidRename, ReadersAvoidRename, FiltersAvoidRename} \subseteq BOOLEAN

VARIABLES path,     \* the inode behind each name
          file,     \* the contents of each inode
          holder,   \* flock: who holds each inode
          upd,      \* update sessions
          comp,     \* compactions
          rd,       \* readers
          acked     \* history

vars == <<path, file, holder, upd, comp, rd, acked>>

------------------------------------------------------------------------------
(* Files *)

Rows == 1..MaxRows

RecHead(k, m) == [kind |-> "head", idx |-> k, rows |-> m]
RowCell(r) == [kind |-> "row", row |-> r]
Foot(e)    == [kind |-> "foot", entries |-> e]
Hole       == [kind |-> "hole"]

EmptyFile == [n |-> 0, rows |-> 0, stats |-> 0, body |-> <<>>]

\* A record: its header, then its rows.
RecordCells(k, rows) == <<RecHead(k, Len(rows))>> \o [j \in 1..Len(rows) |-> RowCell(rows[j])]

\* Where each of the first n record headers is, 0 once the walk has failed.
HeadAt(b, n) ==
  LET at[k \in 0..n] ==
        IF k = 0 THEN 1
        ELSE LET h == at[k - 1] IN
             IF h \in 1..Len(b) /\ b[h].kind = "head" /\ b[h].idx = k - 1
             THEN h + 1 + b[h].rows ELSE 0
  IN at

\* read_record_index: every header in its place, the last body not cut short.
WalkOK(b, n) == HeadAt(b, n)[n] \in 1..(Len(b) + 1)

\* The rows of each record: where they start and how many there are.
Index(b, n) == LET at == HeadAt(b, n) IN
               [k \in 1..n |-> [at |-> at[k] - b[at[k - 1]].rows, rows |-> b[at[k - 1]].rows]]

\* A slip to catch: the last record's rows but one.
EndShort(b, n) == HeadAt(b, n)[n] - 2

\* end_of_committed
EndOf(b, n) == HeadAt(b, n)[n] - 1

\* The rows of one record of an index, taken from cells it may not describe.
CellRow(b, j) == IF j \in 1..Len(b) /\ b[j].kind = "row" THEN b[j].row ELSE 0
RowsAt(b, e) == [j \in 1..e.rows |-> CellRow(b, e.at + j - 1)]

RowsOf(b, ix) == FlattenSeq([k \in 1..Len(ix) |-> RowsAt(b, ix[k])])

StoredRows(f) == RowsOf(f.body, Index(f.body, f.n))

\* The named file opens and holds exactly these rows.
Holds(i, rows) == /\ i # None
                  /\ WalkOK(file[i].body, file[i].n)
                  /\ StoredRows(file[i]) = rows
                  /\ file[i].rows = Len(rows)

\* parse_stats reads to the end of the file.
HasFooter(f, at) == at # 0 /\ at = Len(f.body) /\ f.body[at].kind = "foot"

\* column_stat: what a record may hold, by its rows; an empty record is not
\* prunable, so it may hold anything.
Entry(rows) == IF rows = <<>> THEN Rows ELSE {rows[j] : j \in 1..Len(rows)}

\* A slip to catch: an append forgets the statistics of the records before it.
LoadNoStats(f) == <<>>

\* _load_existing_stats
LoadStats(f) == LET old == f.body[f.stats].entries IN
                IF HasFooter(f, f.stats) /\ Len(old) >= f.n
                THEN SubSeq(old, 1, f.n) ELSE [k \in 1..f.n |-> Rows]

\* A store whose k-th record ends with row ends[k], the rows numbered through:
\* each record starts behind the rows and the headers before it.
RowsBefore(ends, k) == IF k = 1 THEN 0 ELSE ends[k - 1]

StartCell(ends, p) ==
  LET k == CHOOSE k \in 1..Len(ends) : p - k \in RowsBefore(ends, k)..ends[k]
      before == RowsBefore(ends, k)
  IN  IF p - k = before THEN RecHead(k - 1, ends[k] - before) ELSE RowCell(p - k)

StartFile(ends, stats) ==
  LET n    == Len(ends)
      body == [p \in 1..(n + ends[n]) |-> StartCell(ends, p)]
      foot == Foot([k \in 1..n |-> Entry([j \in 1..(ends[k] - RowsBefore(ends, k)) |->
                                           RowsBefore(ends, k) + j])])
  IN [n |-> n, rows |-> ends[n],
      stats |-> IF stats THEN Len(body) + 1 ELSE 0,
      body |-> IF stats THEN Append(body, foot) ELSE body]

------------------------------------------------------------------------------
(* Who is where *)

NoUpdate == [pc |-> "idle", inode |-> None, n |-> 0, rows |-> 0, stats |-> FALSE,
             acc |-> <<>>, foot |-> 0, wrote |-> <<>>]
NoCompaction == [pc |-> "idle", dest |-> "temp", fd |-> None, src |-> None, dst |-> None,
                 n |-> 0, rows |-> 0, ix |-> <<>>, done |-> 0]
NoReader == [pc |-> "idle", n |-> 0, rows |-> 0, stats |-> 0, ix |-> <<>>, map |-> None,
             entries |-> <<>>, low |-> 0]

Init == \E i \in Inodes, ends \in Starts, stats \in Statistics :
          /\ path = [src |-> i, temp |-> None, out |-> None]
          /\ file = [[j \in Inodes |-> EmptyFile] EXCEPT ![i] = StartFile(ends, stats)]
          /\ holder = [j \in Inodes |-> None]
          /\ upd = [u \in Updaters |-> NoUpdate]
          /\ comp = [c \in Compactors |-> NoCompaction]
          /\ rd = [r \in Readers |-> NoReader]
          /\ acked = [r \in 1..ends[Len(ends)] |-> r]

Named(i) == \E nm \in DOMAIN path : path[nm] = i

Unused(i) == /\ ~Named(i)
             /\ \A u \in Updaters : upd[u].inode # i
             /\ \A c \in Compactors : i \notin {comp[c].fd, comp[c].src, comp[c].dst}
             /\ \A r \in Readers : rd[r].map # i

Release(i) == [holder EXCEPT ![i] = None]

\* A compaction has let go of the lock and not yet moved its output.
InGap == \E c \in Compactors : comp[c].pc = "unlocked"

WriterMayOpen == WritersAvoidRename => ~InGap

------------------------------------------------------------------------------
(* Update sessions *)

OpenUpdate(u) ==
  /\ upd[u].pc = "idle"
  /\ WriterMayOpen
  /\ \E st \in Statistics :
       upd' = [upd EXCEPT ![u] = [@ EXCEPT !.pc = "opened", !.inode = path.src, !.stats = st]]
  /\ UNCHANGED <<path, file, holder, comp, rd, acked>>

LockUpdate(u) ==
  /\ upd[u].pc = "opened"
  /\ holder[upd[u].inode] = None
  /\ holder' = [holder EXCEPT ![upd[u].inode] = u]
  /\ upd' = [upd EXCEPT ![u].pc = "locked"]
  /\ UNCHANGED <<path, file, comp, rd, acked>>

UpdateContended(u) ==
  /\ upd[u].pc = "opened"
  /\ holder[upd[u].inode] # None
  /\ upd' = [upd EXCEPT ![u] = NoUpdate]
  /\ UNCHANGED <<path, file, holder, comp, rd, acked>>

\* Cut off, or extended with zeros, at a length computed elsewhere.
Truncated(b, end) == [j \in 1..end |-> IF j <= Len(b) THEN b[j] ELSE Hole]

\* The header comes from the descriptor, the record index from the path.  If
\* the load raises, the finalizer rewrites the counters without a footer.
LoadUpdate(u) ==
  LET i == upd[u].inode
      f == file[i]
      named == file[path.src].body
  IN /\ upd[u].pc = "locked"
     /\ IF WalkOK(named, f.n)
        THEN /\ file' = [file EXCEPT ![i].body = Truncated(@, EndOf(named, f.n))]
             /\ upd' = [upd EXCEPT ![u] = [@ EXCEPT !.pc = "open", !.n = f.n, !.rows = f.rows,
                                             !.acc = IF upd[u].stats THEN LoadStats(f) ELSE <<>>]]
             /\ UNCHANGED holder
        ELSE /\ file' = [file EXCEPT ![i].stats = 0]
             /\ upd' = [upd EXCEPT ![u] = NoUpdate]
             /\ holder' = Release(i)
     /\ UNCHANGED <<path, comp, rd, acked>>

Write(u) ==
  LET s == upd[u]
      next == Len(acked) + Len(s.wrote) IN
  /\ s.pc = "open"
  /\ s.n < MaxRecords
  /\ \E m \in 1..MaxPerRecord :
       /\ next + m <= MaxRows
       /\ LET rows == [j \in 1..m |-> next + j] IN
          /\ file' = [file EXCEPT ![s.inode].body = @ \o RecordCells(s.n, rows)]
          /\ upd' = [upd EXCEPT ![u] =
                       [s EXCEPT !.n = @ + 1, !.rows = @ + m, !.wrote = @ \o rows,
                                 !.acc = IF s.stats THEN Append(@, Entry(rows)) ELSE @]]
  /\ UNCHANGED <<path, holder, comp, rd, acked>>

WriteFooter(u) ==
  LET s == upd[u]
      due == s.n # 0 /\ s.acc # <<>>
  IN /\ s.pc = "open"
     /\ file' = IF due THEN [file EXCEPT ![s.inode].body = Append(@, Foot(s.acc))] ELSE file
     /\ upd' = [upd EXCEPT ![u] = [s EXCEPT !.pc = "footed",
                  !.foot = IF due THEN Len(file[s.inode].body) + 1 ELSE 0]]
     /\ UNCHANGED <<path, holder, comp, rd, acked>>

CommitUpdate(u) ==
  LET s == upd[u] IN
  /\ s.pc = "footed"
  /\ file' = [file EXCEPT ![s.inode] =
                [@ EXCEPT !.n = s.n, !.rows = s.rows, !.stats = s.foot]]
  /\ acked' = acked \o s.wrote
  /\ holder' = Release(s.inode)
  /\ upd' = [upd EXCEPT ![u] = NoUpdate]
  /\ UNCHANGED <<path, comp, rd>>

\* A crash, or a close that raises: the lock goes, the counters stay.
LoseUpdate(u) ==
  /\ upd[u].pc # "idle"
  /\ holder' = IF holder[upd[u].inode] = u THEN Release(upd[u].inode) ELSE holder
  /\ upd' = [upd EXCEPT ![u] = NoUpdate]
  /\ UNCHANGED <<path, file, comp, rd, acked>>

Updating(u) == \/ OpenUpdate(u) \/ LockUpdate(u) \/ UpdateContended(u)
               \/ LoadUpdate(u) \/ Write(u) \/ WriteFooter(u)
               \/ CommitUpdate(u) \/ LoseUpdate(u)

------------------------------------------------------------------------------
(* Compactions, in place (dest is "temp") or to another file *)

BeginCompact(c) ==
  /\ comp[c].pc = "idle"
  /\ WriterMayOpen
  /\ \E dest \in {"temp", "out"} :
       comp' = [comp EXCEPT ![c] = [@ EXCEPT !.pc = "opened", !.dest = dest, !.fd = path.src]]
  /\ UNCHANGED <<path, file, holder, upd, rd, acked>>

LockCompact(c) ==
  /\ comp[c].pc = "opened"
  /\ holder[comp[c].fd] = None
  /\ holder' = [holder EXCEPT ![comp[c].fd] = c]
  /\ comp' = [comp EXCEPT ![c].pc = "locked"]
  /\ UNCHANGED <<path, file, upd, rd, acked>>

CompactContended(c) ==
  /\ comp[c].pc = "opened"
  /\ holder[comp[c].fd] # None
  /\ comp' = [comp EXCEPT ![c] = NoCompaction]
  /\ UNCHANGED <<path, file, holder, upd, rd, acked>>

\* open(target, "wb"): the file the name stands for, truncated, or a new one.
OpensTarget(dest, i) == IF path[dest] = None THEN Unused(i) ELSE i = path[dest]

\* Already compact: nothing to do in place.
NothingToDo(c) ==
  LET s == comp[c] IN
  /\ s.pc = "locked"
  /\ s.dest = "temp"
  /\ file[s.fd].n <= 1
  /\ holder' = Release(s.fd)
  /\ comp' = [comp EXCEPT ![c] = NoCompaction]
  /\ UNCHANGED <<path, file, upd, rd, acked>>

\* _copy_whole_file: of the named file, all of it or, if the copy fails, a part.
CopyWhole(c) ==
  LET s == comp[c]
      from == file[path.src]
  IN /\ s.pc = "locked"
     /\ s.dest = "out"
     /\ file[s.fd].n <= 1
     /\ \E i \in Inodes, len \in 0..Len(from.body) :
          /\ OpensTarget("out", i)
          /\ path' = [path EXCEPT !.out = i]
          /\ file' = [file EXCEPT ![i] = [from EXCEPT !.body = SubSeq(@, 1, len)]]
     /\ holder' = Release(s.fd)
     /\ comp' = [comp EXCEPT ![c] = NoCompaction]
     /\ UNCHANGED <<upd, rd, acked>>

\* The header was read through the lock's descriptor; the record index, and
\* then the data, come from the path.
IndexSource(c) ==
  LET s == comp[c]
      f == file[s.fd]
      named == file[path.src].body
  IN /\ s.pc = "locked"
     /\ f.n > 1
     /\ IF WalkOK(named, f.n)
        THEN /\ comp' = [comp EXCEPT ![c] = [s EXCEPT !.pc = "indexed", !.n = f.n,
                                              !.rows = f.rows, !.ix = Index(named, f.n)]]
             /\ UNCHANGED holder
        ELSE /\ comp' = [comp EXCEPT ![c] = NoCompaction]
             /\ holder' = Release(s.fd)
     /\ UNCHANGED <<path, file, upd, rd, acked>>

\* A slip to catch: the output's record header counts the rows copied so far.
OutputUncounted(s) == <<RecHead(0, 0)>>

OutputBegun(s) == <<RecHead(0, s.rows)>>

\* The output gets its final counters and its only record header up front.
StartOutput(c) ==
  LET s == comp[c] IN
  /\ s.pc = "indexed"
  /\ \E i \in Inodes :
       /\ OpensTarget(s.dest, i)
       /\ path' = [path EXCEPT ![s.dest] = i]
       /\ file' = [file EXCEPT ![i] = [n |-> 1, rows |-> s.rows, stats |-> 0,
                                       body |-> OutputBegun(s)]]
       /\ comp' = [comp EXCEPT ![c] = [s EXCEPT !.pc = "copying", !.src = path.src, !.dst = i]]
  /\ UNCHANGED <<holder, upd, rd, acked>>

\* A slip to catch: the splice starts at the record's header.
SplicedFromHeader(s) == LET e == s.ix[s.done + 1] IN
                        RowsAt(file[s.src].body, [e EXCEPT !.at = @ - 1])

\* The rows the next splice brings over.
Spliced(s) == RowsAt(file[s.src].body, s.ix[s.done + 1])

\* _copy_range: one record's rows are appended to the output; it raises (see
\* CopyFails) when the source ends before they do.
CopyRange(c) ==
  LET s == comp[c]
      rows == Spliced(s)
  IN /\ s.pc = "copying"
     /\ s.done < s.n
     /\ LET e == s.ix[s.done + 1] IN
        e.rows = 0 \/ e.at + e.rows - 1 <= Len(file[s.src].body)
     /\ file' = [file EXCEPT ![s.dst].body = @ \o [j \in 1..Len(rows) |-> RowCell(rows[j])]]
     /\ comp' = [comp EXCEPT ![c].done = @ + 1]
     /\ UNCHANGED <<path, holder, upd, rd, acked>>

\* A slip to catch: the last record is left out.
AllButOneSpliced(s) == s.done + 1 >= s.n

AllSpliced(s) == s.done = s.n

\* Synced; the lock goes before the rename.  WritersAvoidRename asks that nobody
\* else has the path open for writing at the unlock (and so, by the guards of the
\* opens, until the rename): who opened it earlier would get the lock in between.
FinishCopy(c) ==
  LET s == comp[c] IN
  /\ s.pc = "copying"
  /\ AllSpliced(s)
  /\ s.dest = "temp" /\ WritersAvoidRename =>
       /\ \A u \in Updaters : upd[u].pc = "idle"
       /\ \A d \in Compactors \ {c} : comp[d].pc = "idle"
  /\ holder' = Release(s.fd)
  /\ comp' = [comp EXCEPT ![c] =
                IF s.dest = "temp" THEN [s EXCEPT !.pc = "unlocked"] ELSE NoCompaction]
  /\ UNCHANGED <<path, file, upd, rd, acked>>

\* os.replace, by name; it raises if the name is gone.
Rename(c) ==
  /\ comp[c].pc = "unlocked"
  /\ ReadersAvoidRename => \A r \in Readers : rd[r].pc \in {"idle", "open"}
  /\ path' = IF path.temp = None THEN path
             ELSE [path EXCEPT !.src = path.temp, !.temp = None]
  /\ comp' = [comp EXCEPT ![c] = NoCompaction]
  /\ UNCHANGED <<file, holder, upd, rd, acked>>

\* The copy raises: the target is removed, by name.
CopyFails(c) ==
  LET s == comp[c] IN
  /\ s.pc = "copying"
  /\ path' = [path EXCEPT ![s.dest] = None]
  /\ holder' = Release(s.fd)
  /\ comp' = [comp EXCEPT ![c] = NoCompaction]
  /\ UNCHANGED <<file, upd, rd, acked>>

\* The process dies, its output stays where it is.
CrashCompact(c) ==
  LET s == comp[c] IN
  /\ s.pc # "idle"
  /\ holder' = IF holder[s.fd] = c THEN Release(s.fd) ELSE holder
  /\ comp' = [comp EXCEPT ![c] = NoCompaction]
  /\ UNCHANGED <<path, file, upd, rd, acked>>

Compacting(c) == \/ BeginCompact(c) \/ LockCompact(c) \/ CompactContended(c)
                 \/ NothingToDo(c) \/ CopyWhole(c) \/ IndexSource(c) \/ StartOutput(c)
                 \/ CopyRange(c) \/ FinishCopy(c) \/ Rename(c)
                 \/ CopyFails(c) \/ CrashCompact(c)

------------------------------------------------------------------------------
(* Readers *)

ReadHeader(r) ==
  LET f == file[path.src] IN
  /\ rd[r].pc = "idle"
  /\ rd' = [rd EXCEPT ![r] = [NoReader EXCEPT !.pc = "header", !.n = f.n, !.rows = f.rows,
                                !.stats = f.stats, !.low = Len(acked)]]
  /\ UNCHANGED <<path, file, holder, upd, comp, acked>>

\* The walk raises FormatError, or, with no record, the single-record layout
\* raises IndexError.
ReadIndex(r) ==
  LET b == file[path.src].body
      s == rd[r]
  IN /\ s.pc = "header"
     /\ rd' = [rd EXCEPT ![r] = IF s.n # 0 /\ WalkOK(b, s.n)
                                THEN [s EXCEPT !.pc = "index", !.ix = Index(b, s.n)]
                                ELSE [NoReader EXCEPT !.pc = "failed"]]
     /\ UNCHANGED <<path, file, holder, upd, comp, acked>>

\* Of a single record the row count is the header's, and the map must fit.
Extent(s) == IF s.n = 1 THEN <<[s.ix[1] EXCEPT !.rows = s.rows]>> ELSE s.ix

MapFile(r) ==
  LET s == rd[r]
      e == Extent(s)[1]
      fits == e.at + e.rows - 1 <= Len(file[path.src].body)
  IN /\ s.pc = "index"
     /\ rd' = [rd EXCEPT ![r] = IF s.n > 1 \/ fits
                                THEN [s EXCEPT !.pc = "open", !.map = path.src,
                                               !.ix = Extent(s)]
                                ELSE [NoReader EXCEPT !.pc = "failed"]]
     /\ UNCHANGED <<path, file, holder, upd, comp, acked>>

\* The footer the header spoke of, if there is one in that place.
FooterAt(f, at) == IF HasFooter(f, at) THEN f.body[at].entries ELSE <<>>

\* _record_stats, on the first filter: the path is opened once more.
LoadRecordStats(r) ==
  LET s == rd[r] IN
  /\ s.pc = "open"
  /\ s.stats # 0
  /\ FiltersAvoidRename => s.map = path.src
  /\ rd' = [rd EXCEPT ![r].entries = FooterAt(file[path.src], s.stats), ![r].stats = 0]
  /\ UNCHANGED <<path, file, holder, upd, comp, acked>>

CloseReader(r) ==
  /\ rd[r].pc \in {"open", "failed"}
  /\ rd' = [rd EXCEPT ![r] = NoReader]
  /\ UNCHANGED <<path, file, holder, upd, comp, acked>>

Reading(r) == \/ ReadHeader(r) \/ ReadIndex(r) \/ MapFile(r)
              \/ LoadRecordStats(r) \/ CloseReader(r)

Next == \/ \E u \in Updaters : Updating(u)
        \/ \E c \in Compactors : Compacting(c)
        \/ \E r \in Readers : Reading(r)

Spec == Init /\ [][Next]_vars

------------------------------------------------------------------------------
(* Properties *)

\* What an open reader returns, record by record.
Cells(r) == file[rd[r].map].body
ReadRecords(r) == [k \in 1..Len(rd[r].ix) |-> RowsAt(Cells(r), rd[r].ix[k])]

\* What the store has ever held.
Committed(rows) == rows = SubSeq(acked, 1, Len(rows)) /\ Len(rows) <= Len(acked)

\* The path always opens and holds every committed row, in order: compaction is
\* atomic, and "concurrent writers are blocked for the duration" (compaction.py).
PathHoldsAcked == Holds(path.src, acked)

\* Sessions and compactions at work do not keep a reader from opening, and an open
\* reader has the rows of one committed state, no older than its open: "a reader
\* opening mid-write sees only the last committed state" (README).
ReaderSnapshot ==
  \A r \in Readers :
    /\ rd[r].pc # "failed"
    /\ rd[r].pc = "open" =>
         LET rows == FlattenSeq(ReadRecords(r)) IN
         Committed(rows) /\ rd[r].low <= Len(rows)

\* Whatever happens to the path, the rows an open reader has mapped stay what
\* they are: readers "continue reading the unlinked inode after the rename"
\* (api.py), and an update only ever cuts off what was not committed.
MappedRowsStay ==
  [][\A r \in Readers : rd[r].pc = "open" /\ rd'[r].pc = "open" =>
       ReadRecords(r)' = ReadRecords(r)]_vars

\* Skipping records by their statistics loses no matching row: "the result is
\* identical to the full evaluation either way" (reader.py).
SkippingExact ==
  \A r \in Readers : LET e == rd[r].entries IN
    rd[r].pc = "open" /\ rd[r].n > 1 /\ e # <<>> =>
      \A records \in {ReadRecords(r)}, v \in Rows :
        LET survives == {k \in 1..Len(e) : v \in e[k]} IN
          \/ survives = 1..Len(e)
          \/ \A k \in DOMAIN records : v \in Range(records[k]) => k \in survives

\* A copy that opens is whole, whatever failed or died halfway: the counters
\* written up front never vouch for rows that are missing.  Once its last record
\* is spliced it holds every row committed by then, with only the unlock and the
\* rename left to do.
CopiesWhole ==
  /\ \A nm \in {"temp", "out"} : path[nm] # None =>
       LET f == file[path[nm]] IN
       WalkOK(f.body, f.n) => Committed(StoredRows(f)) /\ f.rows = Len(StoredRows(f))
  /\ \A c \in Compactors : comp[c].pc = "copying" /\ comp[c].done = comp[c].n =>
       Holds(comp[c].dst, acked)
==============================================================================
