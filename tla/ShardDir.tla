------------------------------- MODULE ShardDir -------------------------------
(***************************************************************************)
(* A directory of shards (src/colstore/shards.py): append() and Appender    *)
(* sessions under the directory's lock, the atomic publication of a shard   *)
(* (format.py, atomic_publish), people who delete shards, and readers that  *)
(* open the directory as one dataset (dataset.py).                          *)
(*                                                                          *)
(* Rows come in batches.  Batches are numbered as sessions accept them, and *)
(* a shard holds the numbers of its batches, so a row that is lost, twice   *)
(* there or out of order shows.  taken, again, kept, gone are history.           *)
(***************************************************************************)
EXTENDS Integers, Sequences, SequencesExt

CONSTANTS Writers, Readers, None,
          Schemas,           \* what the columns of a batch can be
          Limits,            \* shard_size in batches, 0 for None
          MaxBatches,        \* bound: batches ever accepted
          MaxSource,         \* bound: commits to the file append() copies from
          Deletions,         \* somebody deletes shards
          SourceQuiet,       \* nobody updates a file while append() copies it
          NamesNotReused     \* no deleted shard's name is taken while a reader opens it

ASSUME NoneAssumption == None \notin Writers \cup Schemas
ASSUME BoundAssumption == MaxBatches \in Nat /\ MaxSource \in Nat /\ Limits \subseteq Nat
ASSUME FlagAssumption == {Deletions, SourceQuiet, NamesNotReused} \subseteq BOOLEAN

VARIABLES dir,       \* the directory: what each name stands for
          holder,    \* flock on the directory's lock file
          sess,      \* append() calls and Appenders
          source,    \* records committed in the file append() copies
          rd,        \* readers
          taken,     \* history: batches accepted so far
          kept,      \* history: batches of the sessions that closed without error
          gone,      \* history: batches of deleted shards
          again      \* history: batches accepted twice, the first write() having raised

vars == <<dir, holder, sess, source, rd, taken, kept, gone, again>>

------------------------------------------------------------------------------
(* Names and shards *)

\* A name's place in the natural order; a literal name sorts before the rest.
Shard(k) == [kind |-> "shard", place |-> k + 1]
Literal  == [kind |-> "shard", place |-> 0]
Temp(w)  == [kind |-> "temp", place |-> 0, by |-> w]
Orphan   == [kind |-> "temp", place |-> 0]      \* left by a crash, all alike

\* whole: the file opens and has every row its counters speak of.
Content(batches, schema, whole) == [batches |-> batches, schema |-> schema, whole |-> whole]

With(d, nm, c) == [x \in DOMAIN d \cup {nm} |-> IF x = nm THEN c ELSE d[x]]
Without(d, nm) == [x \in DOMAIN d \ {nm} |-> d[x]]


\* list_shards, *.cstore.
ShardNames(d) == {nm \in DOMAIN d : nm.kind = "shard"}

\* Names are taken in the order of their places.
First(names) == CHOOSE nm \in names : \A x \in names : nm.place <= x.place

Numbered(d) == ShardNames(d) \ {Literal}

\* A slip to catch: the first number that is free.
FirstFreeIndex(d) == CHOOSE k \in 0..MaxBatches :
                       /\ Shard(k) \notin DOMAIN d
                       /\ \A j \in 0..(k - 1) : Shard(j) \in DOMAIN d

\* _next_index: one past the highest number in use.
NextIndex(d) == IF Numbered(d) = {} THEN 0
                ELSE LET places == {nm.place : nm \in Numbered(d)} IN
                     CHOOSE k \in places : \A j \in places : j <= k

\* _existing_schema: that of the first shard.
ExistingSchema(d) == IF ShardNames(d) = {} THEN None
                     ELSE d[First(ShardNames(d))].schema

------------------------------------------------------------------------------
(* Sessions *)

\* pc    locked   the lock is taken, the schema not read
\*       open     an Appender between calls, or append() about to take its data
\*       flush    in flush(), no file yet      filling, filled   its temporary
\*       copying  append() copies a file, whose size it has read
\* then: the call the flush is part of; "write" also after it raised.
\* name: append()'s shard, picked early.
NoSession == [pc |-> "idle", once |-> FALSE, literal |-> FALSE, limit |-> 0, schema |-> None,
              name |-> Literal, buffer |-> <<>>, made |-> FALSE, mine |-> {}, then |-> "none",
              size |-> 0]

\* pc    listing, then opening the names in todo one by one; open
\* low:   the names that were there when the listing began
\* due:   history: the batches that a dataset opened now is to have
\* head, index: what the first two opens of the next name found
NoReader == [pc |-> "idle", due |-> {}, low |-> {}, todo |-> {}, head |-> None, index |-> None,
             opened |-> <<>>]

Init == /\ dir = [nm \in {} |-> None]
        /\ holder = None
        /\ sess = [w \in Writers |-> NoSession]
        /\ source = 0
        /\ rd = [r \in Readers |-> NoReader]
        /\ taken = 0
        /\ kept = {}
        /\ gone = {}
        /\ again = {}

Become(w, s) == sess' = [sess EXCEPT ![w] = s]

\* The name a session's shard gets; append() picks it when it reads the schema.
FreeName(s) == IF s.literal THEN Literal ELSE Shard(NextIndex(dir))
NameOf(s)   == IF s.once THEN s.name ELSE FreeName(s)

\* _acquire_directory_lock; an Appender with a literal name has no shard_size.
Acquire(w) ==
  /\ sess[w].pc = "idle"
  /\ holder = None
  /\ holder' = w
  /\ \E once, literal \in BOOLEAN, limit \in Limits :
       /\ once \/ literal => limit = 0
       /\ Become(w, [NoSession EXCEPT !.pc = "locked", !.once = once, !.literal = literal,
                                      !.limit = limit])
  /\ UNCHANGED <<dir, source, rd, taken, kept, gone, again>>

ReadSchema(w) ==
  /\ sess[w].pc = "locked"
  /\ Become(w, [sess[w] EXCEPT !.pc = "open", !.schema = ExistingSchema(dir),
                                  !.name = FreeName(sess[w])])
  /\ UNCHANGED <<dir, holder, source, rd, taken, kept, gone, again>>

Fits(s, sc) == s.schema \in {None, sc}

\* Buffered, and flushed by the same call if that fills the shard.
WithBatch(s, b, sc) ==
  LET t == [s EXCEPT !.then = "none", !.buffer = Append(@, b), !.schema = sc, !.mine = @ \cup {b}] IN
  IF s.limit # 0 /\ Len(t.buffer) >= s.limit
  THEN [t EXCEPT !.pc = "flush", !.then = "write"] ELSE t

Write(w) ==
  LET s == sess[w] IN
  /\ s.pc = "open" /\ ~s.once
  /\ taken < MaxBatches
  /\ \E sc \in Schemas : Fits(s, sc) /\ Become(w, WithBatch(s, taken + 1, sc))
  /\ taken' = taken + 1
  /\ UNCHANGED <<dir, holder, source, rd, kept, gone, again>>

\* A write() that raised has buffered its batch; a caller that repeats it
\* (bound: once) has it buffered twice.
RetryWrite(w) ==
  LET s == sess[w]
      b == Last(s.buffer)
  IN /\ s.pc = "open" /\ s.then = "write"
     /\ b \notin again
     /\ Become(w, WithBatch(s, b, s.schema))
     /\ again' = again \cup {b}
     /\ UNCHANGED <<dir, holder, source, rd, taken, kept, gone>>

Flush(w) ==
  LET s == sess[w] IN
  /\ s.pc = "open" /\ ~s.once
  /\ s.buffer # <<>>
  /\ Become(w, [s EXCEPT !.pc = "flush", !.then = "flush"])
  /\ UNCHANGED <<dir, holder, source, rd, taken, kept, gone, again>>

\* A slip to catch: the shard is built under its own name.
BuiltInPlace(w, nm) == nm

\* atomic_publish: where the shard of this name is built.
BuiltAt(w, nm) == Temp(w)

\* append() of data in memory, or of a source read into memory.
AppendData(w) ==
  LET s == sess[w] IN
  /\ s.pc = "open" /\ s.once
  /\ taken < MaxBatches
  /\ \E sc \in Schemas :
       /\ Fits(s, sc)
       /\ Become(w, [WithBatch(s, taken + 1, sc) EXCEPT !.pc = "flush", !.then = "close"])
  /\ taken' = taken + 1
  /\ UNCHANGED <<dir, holder, source, rd, kept, gone, again>>

\* append() of a single file, which is copied byte for byte: its size first,
\* then its bytes, the header among them.  The source is not locked.
AppendFile(w) ==
  LET s == sess[w] IN
  /\ s.pc = "open" /\ s.once
  /\ taken < MaxBatches
  /\ NameOf(s) \notin DOMAIN dir
  /\ \E sc \in Schemas :
       /\ Fits(s, sc)
       /\ Become(w, [WithBatch(s, taken + 1, sc) EXCEPT !.pc = "copying", !.then = "close",
                                                        !.size = source])
  /\ dir' = With(dir, BuiltAt(w, s.name), Content(<<>>, s.schema, FALSE))
  /\ taken' = taken + 1
  /\ UNCHANGED <<holder, source, rd, kept, gone, again>>

CopyBytes(w) ==
  LET s == sess[w] IN
  /\ s.pc = "copying"
  /\ Become(w, [s EXCEPT !.pc = "filled"])
  /\ dir' = With(dir, BuiltAt(w, s.name), Content(s.buffer, s.schema, source <= s.size))
  /\ UNCHANGED <<holder, source, rd, taken, kept, gone, again>>

\* Somebody's update session commits to the file append() copies.
CommitToSource ==
  /\ source < MaxSource
  /\ SourceQuiet => \A w \in Writers : sess[w].pc # "copying"
  /\ source' = source + 1
  /\ UNCHANGED <<dir, holder, sess, rd, taken, kept, gone, again>>

\* A slip to catch: a shard may be written over.
MayReplace(s) == TRUE

\* A literal name makes one shard, and no shard is written over.
MayMakeShard(s) == /\ s.literal => ~s.made
                   /\ NameOf(s) \notin DOMAIN dir

StartShard(w) ==
  LET s == sess[w] IN
  /\ s.pc = "flush"
  /\ MayMakeShard(s)
  /\ Become(w, [s EXCEPT !.pc = "filling", !.name = NameOf(s)])
  /\ dir' = With(dir, BuiltAt(w, NameOf(s)), Content(<<>>, s.schema, FALSE))
  /\ UNCHANGED <<holder, source, rd, taken, kept, gone, again>>

\* write_dataset, then the fsync.
FillShard(w) ==
  LET s == sess[w] IN
  /\ s.pc = "filling"
  /\ Become(w, [s EXCEPT !.pc = "filled"])
  /\ dir' = With(dir, BuiltAt(w, s.name), Content(s.buffer, s.schema, TRUE))
  /\ UNCHANGED <<holder, source, rd, taken, kept, gone, again>>

\* The session is over, its lock released.
Leave(w) == Become(w, NoSession) /\ holder' = None

\* Has a reader opened a shard of this name, and is to open it again?
BeingOpened(nm) == \E r \in Readers : rd[r].head # None /\ nm = First(rd[r].todo)

\* The temporary is synced and renamed onto the shard's name; the buffer is
\* emptied.  A flush on behalf of close() or append() ends the session.
Publish(w) ==
  LET s == sess[w] IN
  /\ s.pc = "filled"
  /\ NamesNotReused => ~BeingOpened(s.name)
  /\ LET tmp == BuiltAt(w, s.name) IN dir' = With(Without(dir, tmp), s.name, dir[tmp])
  /\ IF s.then = "close"
     THEN Leave(w) /\ kept' = kept \cup s.mine
     ELSE /\ Become(w, [s EXCEPT !.pc = "open", !.then = "none", !.name = Literal, !.buffer = <<>>,
                              !.made = TRUE])
          /\ UNCHANGED <<holder, kept>>
  /\ UNCHANGED <<source, rd, taken, gone, again>>

\* A slip to catch: a failed close keeps the lock.
StillLocked(w, s) == Become(w, IF s.then = "close" THEN NoSession ELSE s) /\ UNCHANGED holder

\* What a failed flush leaves: of close() nothing, of another call the buffer.
AfterFailure(w, s) ==
  IF s.then = "close" THEN Leave(w)
  ELSE Become(w, [s EXCEPT !.pc = "open", !.name = Literal]) /\ UNCHANGED holder

\* The name is taken, the disk full, ...: the temporary is removed.
FlushFails(w) ==
  LET s == sess[w] IN
  /\ s.pc \in {"flush", "filling", "filled", "copying"}
  /\ AfterFailure(w, s)
  /\ dir' = Without(dir, Temp(w))
  /\ UNCHANGED <<source, rd, taken, kept, gone, again>>

\* A slip to catch: close() looks at the limit.
OnlyFullIsDue(s) == s.buffer # <<>> /\ Len(s.buffer) >= s.limit

\* Does close() have something to flush?
FlushDue(s) == s.buffer # <<>>

Close(w) ==
  LET s == sess[w] IN
  /\ s.pc = "open" /\ ~s.once
  /\ IF FlushDue(s)
     THEN Become(w, [s EXCEPT !.pc = "flush", !.then = "close"]) /\ UNCHANGED <<holder, kept>>
     ELSE Leave(w) /\ kept' = kept \cup s.mine
  /\ UNCHANGED <<dir, source, rd, taken, gone, again>>

\* append() raises before it makes a file: a damaged source, a schema mismatch.
AppendFails(w) ==
  /\ sess[w].pc \in {"locked", "open"}
  /\ sess[w].pc = "open" => sess[w].once
  /\ Leave(w)
  /\ UNCHANGED <<dir, source, rd, taken, kept, gone, again>>

\* The process dies; its temporary stays.
Crash(w) ==
  /\ sess[w].pc # "idle"
  /\ Leave(w)
  /\ dir' = IF Temp(w) \in DOMAIN dir
            THEN With(Without(dir, Temp(w)), Orphan, dir[Temp(w)]) ELSE dir
  /\ UNCHANGED <<source, rd, taken, kept, gone, again>>

\* Somebody deletes a shard.
Delete ==
  /\ Deletions
  /\ \E nm \in ShardNames(dir) :
       /\ dir' = Without(dir, nm)
       /\ gone' = gone \cup ToSet(dir[nm].batches)
  /\ UNCHANGED <<holder, sess, source, rd, taken, kept, again>>

------------------------------------------------------------------------------
(* Readers *)

\* The listing is not atomic: of what comes or goes meanwhile it has anything
\* (but a name that was there at both ends).
List(r) ==
  /\ rd[r].pc = "idle"
  /\ rd' = [rd EXCEPT ![r].pc = "listing", ![r].low = ShardNames(dir),
                     ![r].due = kept \ gone]
  /\ UNCHANGED <<dir, holder, sess, source, taken, kept, gone, again>>

\* A slip to catch: the listing lets unfinished files through.
ListedUnfinished(r) ==
  /\ rd[r].pc = "listing"
  /\ \E names \in SUBSET (rd[r].low \cup DOMAIN dir) :
       /\ rd[r].low \cap ShardNames(dir) \subseteq names
       /\ rd' = [rd EXCEPT ![r].pc = "opening", ![r].low = {}, ![r].todo = names]
  /\ UNCHANGED <<dir, holder, sess, source, taken, kept, gone, again>>

Listed(r) ==
  /\ rd[r].pc = "listing"
  /\ \E names \in SUBSET (rd[r].low \cup ShardNames(dir)) :
       /\ rd[r].low \cap ShardNames(dir) \subseteq names
       /\ rd' = [rd EXCEPT ![r].pc = "opening", ![r].low = {}, ![r].todo = names]
  /\ UNCHANGED <<dir, holder, sess, source, taken, kept, gone, again>>

\* A reader opens its path three times: for the header, for the walk over the
\* records and to map the rows.  A name that stands for nothing any more raises.
Opens(r, nm) == /\ rd[r].pc = "opening"
                /\ rd[r].todo # {}
                /\ nm = First(rd[r].todo)
                /\ nm \in DOMAIN dir

ReadHead(r) ==
  /\ rd[r].head = None
  /\ \E nm \in rd[r].todo : Opens(r, nm) /\ rd' = [rd EXCEPT ![r].head = dir[nm]]
  /\ UNCHANGED <<dir, holder, sess, source, taken, kept, gone, again>>

WalkIndex(r) ==
  /\ rd[r].head # None /\ rd[r].index = None
  /\ \E nm \in rd[r].todo : Opens(r, nm) /\ rd' = [rd EXCEPT ![r].index = dir[nm]]
  /\ UNCHANGED <<dir, holder, sess, source, taken, kept, gone, again>>

\* Where the rows lie follows from the columns and the counters.
Alike(a, b) == a.schema = b.schema /\ Len(a.batches) = Len(b.batches)

\* Rows past the end of the file cannot be mapped; more rows than the header
\* speaks of can, at the places the header and the walk gave.
MapRows(r) ==
  LET d == rd[r] IN
  /\ d.index # None
  /\ \E nm \in d.todo :
       /\ Opens(r, nm)
       /\ Len(dir[nm].batches) >= Len(d.head.batches)
       /\ rd' = [rd EXCEPT
            ![r] = [d EXCEPT
              !.todo = @ \ {nm}, !.head = None, !.index = None,
              !.opened = With(@, nm,
                Content(dir[nm].batches, d.head.schema,
                        dir[nm].whole /\ Alike(d.head, d.index) /\ Alike(d.head, dir[nm])))]]
  /\ UNCHANGED <<dir, holder, sess, source, taken, kept, gone, again>>

\* append() of the dataset: every shard has the columns of the first.
Combine(r) ==
  LET shards == rd[r].opened IN
  /\ rd[r].pc = "opening" /\ rd[r].todo = {}
  /\ \A nm, x \in DOMAIN shards : shards[nm].schema = shards[x].schema
  /\ rd' = [rd EXCEPT ![r].pc = "open"]
  /\ UNCHANGED <<dir, holder, sess, source, taken, kept, gone, again>>

\* close(), or an open that raised, which closes what it had opened.
CloseReader(r) ==
  /\ rd[r].pc # "idle"
  /\ rd' = [rd EXCEPT ![r] = NoReader]
  /\ UNCHANGED <<dir, holder, sess, source, taken, kept, gone, again>>

Session(w) == \/ Acquire(w) \/ ReadSchema(w) \/ Write(w) \/ RetryWrite(w) \/ Flush(w)
              \/ AppendData(w) \/ AppendFile(w) \/ CopyBytes(w) \/ StartShard(w)
              \/ FillShard(w) \/ Publish(w) \/ FlushFails(w) \/ Close(w)
              \/ AppendFails(w) \/ Crash(w)
Reading(r) == \/ List(r) \/ Listed(r) \/ ReadHead(r) \/ WalkIndex(r) \/ MapRows(r) \/ Combine(r)
              \/ CloseReader(r)

Next == \/ \E w \in Writers : Session(w)
        \/ \E r \in Readers : Reading(r)
        \/ CommitToSource
        \/ Delete

Spec == Init /\ [][Next]_vars

------------------------------------------------------------------------------
(* Properties *)

\* One session at a time: the lock is held exactly by the session at work, and
\* no way out of one leaves it behind ("One writer holds the directory at a
\* time", README).
OneSession == \A w \in Writers : sess[w].pc # "idle" <=> holder = w

Before(x, y) == x < y \/ (x = y /\ x \in again)

\* The numbered shards, in the order they are read, have the batches in the
\* order they were accepted, across sessions, failures and deletions
\* (_next_index: "gap-tolerant"), and none twice but those given twice.
RowsInOrder ==
  /\ \A nm \in Numbered(dir) :
       LET rows == dir[nm].batches IN
       \A k \in 1..Len(rows) : \A j \in 1..(k - 1) : Before(rows[j], rows[k])
  /\ \A a, b \in Numbered(dir) :
       a.place < b.place =>
         \A x \in ToSet(dir[a].batches), y \in ToSet(dir[b].batches) : Before(x, y)

\* A name that is listed opens, whole, and under the one schema of the rest: "a
\* reader only ever sees a complete shard" (README).
ShardsWhole ==
  \A nm \in ShardNames(dir) : /\ dir[nm].whole
                              /\ dir[nm].schema = ExistingSchema(dir)

\* A shard stays as it is until it is deleted: "immutable once written".
ShardsImmutable ==
  [][\A nm \in ShardNames(dir) \cap ShardNames(dir') : dir'[nm] = dir[nm]]_vars

Stored == UNION {ToSet(dir[nm].batches) : nm \in ShardNames(dir)}

\* What a session accepted is in a shard once it has closed without an error,
\* even if a flush failed on the way.
ClosedIsStored == kept \subseteq Stored \cup gone

\* A dataset opened on the directory has every batch committed before its
\* listing began and not deleted, and shows each shard whole, its rows where its
\* header says, however sessions and deletions come between the opens.
DatasetWhole ==
  \A r \in Readers : rd[r].pc = "open" =>
    LET shards == rd[r].opened IN
    /\ \A nm \in DOMAIN shards : shards[nm].whole
    /\ rd[r].due \ gone \subseteq UNION {ToSet(shards[nm].batches) : nm \in DOMAIN shards}
==============================================================================
