----------------------------- MODULE StoreWriter -----------------------------
(***************************************************************************)
(* ColStoreWriter sessions of several processes on one path                *)
(* (src/colstore/writer.py, _lock.py and the header, counters and record   *)
(* parts of format.py), at the grain of system calls: two steps of one     *)
(* process that another process, a crash or a reader can fall between are  *)
(* two actions.                                                            *)
(*                                                                         *)
(* A file is its header, its counters block and the chunks that follow.    *)
(* One chunk stands for a whole record (header and padded body), a whole   *)
(* statistics footer, or any other bytes; a position counts chunks.  The   *)
(* sessions hold the descriptors, so the file system is name -> inode ->   *)
(* contents: unlinking or replacing a name leaves an open inode alone.     *)
(*                                                                         *)
(* acked and the field wrote are history: the records of the sessions that *)
(* committed, and what write() took in the current session.                *)
(***************************************************************************)
EXTENDS Naturals, Sequences

CONSTANTS Procs,               \* processes that open the path for writing
          Inodes,              \* identities of file contents
          Vals,                \* what one record can hold
          None,                \* no inode, no lock holder
          NoStore,             \* see CommitLog
          NoStat,              \* a record's entry in a footer: not prunable
          MaxRecords,          \* bound: records a file may come to hold
          MaxChunks,           \* bound: chunks a write may leave in a file, and
                               \* those of one that is closed without a cut
          FlockSupported,      \* the file system implements flock
          Exclusive,           \* callers create/recreate only when nobody writes
          RetryAfterFailure,   \* callers write() again after a write() raised
          TornCounters,        \* a crash can tear the 64-byte counters write
          InterruptedAt,       \* where __init__ is cut short before the counters
                               \* are known: "opened", "locked" (see PCs)
          LockMidClose         \* a session may take the lock between another's
                               \* unlock and the late flush of its file

ASSUME NoneAssumption == None \notin Inodes \cup Procs
ASSUME NoStatAssumption == NoStat \notin Vals
ASSUME NoStoreAssumption == NoStore \notin Seq(Vals)
ASSUME BoundAssumption == MaxRecords \in Nat /\ MaxChunks \in Nat
ASSUME InterruptAssumption == InterruptedAt \subseteq {"opened", "locked"}
ASSUME FlagAssumption == /\ FlockSupported \in BOOLEAN
                         /\ Exclusive \in BOOLEAN
                         /\ RetryAfterFailure \in BOOLEAN
                         /\ TornCounters \in BOOLEAN
                         /\ LockMidClose \in BOOLEAN

VARIABLES name,      \* the inode the path names, or None
          file,      \* contents of each inode
          holder,    \* flock: the process whose descriptor holds each inode
          sess,      \* the ColStoreWriter of each process
          acked      \* history: the records of committed sessions, per inode

vars == <<name, file, holder, sess, acked>>

------------------------------------------------------------------------------
(* File contents *)

Rec(k, v)   == [kind |-> "rec", idx |-> k, val |-> v]
Foot(stats) == [kind |-> "foot", stats |-> stats]
Junk        == [kind |-> "junk"]     \* part of a record, or a hole

Chunk == [kind : {"rec"}, idx : Nat, val : Vals]
         \cup [kind : {"foot"}, stats : Seq(Vals \cup {NoStat})]
         \cup {Junk}

\* hdr: magic and manifest are intact.  ok: the counters' CRC matches.
\* stats: index of the footer's chunk, 0 for none.
Contents == [hdr : BOOLEAN, ok : BOOLEAN, n : Nat, stats : Nat, body : Seq(Chunk)]

EmptyFile == [hdr |-> FALSE, ok |-> FALSE, n |-> 0, stats |-> 0, body |-> <<>>]

\* write_header: a fresh header with zero counters in front of what is there.
WithHeader(f) == [f EXCEPT !.hdr = TRUE, !.ok = TRUE, !.n = 0, !.stats = 0]

\* A write of one chunk at a position; beyond the end it leaves a hole.
WriteAt(b, pos, c) ==
  [j \in 1..(IF pos < Len(b) THEN Len(b) ELSE pos + 1) |->
     IF j = pos + 1 THEN c ELSE IF j <= Len(b) THEN b[j] ELSE Junk]

\* truncate(): cuts off, or extends with zeros.
Truncated(b, end) == [j \in 1..end |-> IF j <= Len(b) THEN b[j] ELSE Junk]

\* read_record_index: n records from the start, each with its own index.
WalkOK(b, n) == /\ n <= Len(b)
                /\ \A k \in 1..n : b[k].kind = "rec" /\ b[k].idx = k - 1

HeaderOK(f) == f.hdr /\ f.ok
Readable(f) == HeaderOK(f) /\ WalkOK(f.body, f.n)

\* What a reader that opens f sees.
Visible(f) == [k \in 1..f.n |-> f.body[k].val]

\* parse_stats reads to the end of the file: the CRC only matches a footer
\* that is the last chunk.
HasFooter(f) == /\ f.stats # 0
                /\ f.stats = Len(f.body)
                /\ f.body[f.stats].kind = "foot"

\* A slip to catch: an append forgets the statistics of the records before it.
LoadNoStats(f) == <<>>

\* _load_existing_stats: the old footer's entries, or placeholders.
LoadStats(f) ==
  IF HasFooter(f) /\ Len(f.body[f.stats].stats) >= f.n
  THEN SubSeq(f.body[f.stats].stats, 1, f.n)
  ELSE [k \in 1..f.n |-> NoStat]

------------------------------------------------------------------------------
(* Sessions *)

Modes == {"create", "recreate", "update"}

\* pc    checked  create saw no file        footed   footer written
\*       opened   file open, lock not taken closing  in close()'s finally
\*       locked   update, before the load   unlocked the file object still open
\*       broken   __init__ raised           closed   an unused new file to unlink
\*       open     accepting write()
\* buf: what is still in the file object's buffer because its flush failed.
PCs == {"idle", "checked", "opened", "locked", "broken", "open", "footed",
        "closing", "unlocked", "closed"}
Buffers == {"none", "header", "footer", "counters"}

Session == [pc : PCs, mode : Modes, inode : Inodes \cup {None},
            hasHeader : BOOLEAN, buf : Buffers, failed : BOOLEAN,
            n : Nat, pos : Nat, stats : BOOLEAN, acc : Seq(Vals \cup {NoStat}), foot : Nat,
            wrote : Seq(Vals)]

NewSession(pc, mode, i, stats) ==
  [pc |-> pc, mode |-> mode, inode |-> i, hasHeader |-> mode = "update",
   buf |-> "none", failed |-> FALSE, n |-> 0, pos |-> 0, stats |-> stats,
   acc |-> <<>>, foot |-> 0, wrote |-> <<>>]

Idle == NewSession("idle", "create", None, FALSE)

\* The session keeps its identity and takes the new field values of s.
Become(p, s) == sess' = [sess EXCEPT ![p] = s]

\* An inode that no name and no descriptor refers to.
Unused(i) == i # name /\ \A q \in Procs : sess[q].inode # i

\* The discipline of callers the truncating modes rely on (see the README).
MayTruncate(p) == Exclusive => \A q \in Procs \ {p} : sess[q].pc = "idle"

Init == /\ name = None
        /\ file = [i \in Inodes |-> EmptyFile]
        /\ holder = [i \in Inodes |-> None]
        /\ sess = [p \in Procs |-> Idle]
        /\ acked = [i \in Inodes |-> <<>>]

\* open(path, "w+b"): truncates the named file, or creates one.  No lock yet.
TruncatingOpen(p, i, mode, stats) ==
  /\ IF name = None THEN Unused(i) ELSE i = name
  /\ name' = i
  /\ file' = [file EXCEPT ![i] = EmptyFile]
  /\ acked' = [acked EXCEPT ![i] = <<>>]
  /\ Become(p, NewSession("opened", mode, i, stats))
  /\ UNCHANGED holder

CheckAbsent(p) ==
  /\ sess[p].pc = "idle"
  /\ MayTruncate(p)
  /\ name = None
  /\ \E st \in BOOLEAN : Become(p, NewSession("checked", "create", None, st))
  /\ UNCHANGED <<name, file, holder, acked>>

OpenCreate(p) ==
  /\ sess[p].pc = "checked"
  /\ \E i \in Inodes : TruncatingOpen(p, i, "create", sess[p].stats)

OpenRecreate(p) ==
  /\ sess[p].pc = "idle"
  /\ MayTruncate(p)
  /\ \E i \in Inodes, st \in BOOLEAN : TruncatingOpen(p, i, "recreate", st)

OpenUpdate(p) ==
  /\ sess[p].pc = "idle"
  /\ name # None
  /\ \E st \in BOOLEAN : Become(p, NewSession("opened", "update", name, st))
  /\ UNCHANGED <<name, file, holder, acked>>

AfterLock(s) == IF s.mode = "update" THEN "locked" ELSE "open"

\* A slip to catch: the lock is asked for and its refusal ignored.
LockIgnoringRefusal(p) ==
  /\ sess[p].pc = "opened"
  /\ holder' = [holder EXCEPT ![sess[p].inode] = p]
  /\ Become(p, [sess[p] EXCEPT !.pc = AfterLock(sess[p])])
  /\ UNCHANGED <<name, file, acked>>

\* Between its unlock and its file's close a session has bytes to flush.
FlushesLate(s) == s.pc = "unlocked" /\ s.buf # "none"

\* lock_or_raise succeeds; without flock it proceeds unlocked.
Lock(p) ==
  LET s == sess[p] IN
  /\ s.pc = "opened"
  /\ FlockSupported => holder[s.inode] = None
  /\ ~LockMidClose => \A q \in Procs : sess[q].inode = s.inode => ~FlushesLate(sess[q])
  /\ holder' = IF FlockSupported THEN [holder EXCEPT ![s.inode] = p] ELSE holder
  /\ Become(p, [s EXCEPT !.pc = AfterLock(s)])
  /\ UNCHANGED <<name, file, acked>>

\* lock_or_raise raises: close the descriptor and fail.  (__del__ then finds
\* the file closed and changes nothing.)
Contended(p) ==
  /\ sess[p].pc = "opened"
  /\ FlockSupported
  /\ holder[sess[p].inode] # None
  /\ Become(p, Idle)
  /\ UNCHANGED <<name, file, holder, acked>>

\* The header is read through the session's descriptor, the record index
\* through the path.
LoadOK(p) == LET f == file[sess[p].inode] IN
             /\ HeaderOK(f)
             /\ f.n = 0 \/ (name # None /\ WalkOK(file[name].body, f.n))

\* A slip to catch: append at the end of the file, orphans or not.
EndOfFile(f) == Len(f.body)

\* end_of_committed: where the last counted record ends.
EndOfCommitted(f) == f.n

\* truncate(): the rest is cut off.
CutBack(i) == [file EXCEPT ![i].body = Truncated(@, EndOfCommitted(file[i]))]

\* The statistics of the records that are there.
StatsLoaded(s) == IF s.stats THEN LoadStats(file[s.inode]) ELSE <<>>

Load(p) ==
  LET s == sess[p]
      f == file[s.inode]
  IN /\ s.pc = "locked"
     /\ LoadOK(p)
     /\ file' = CutBack(s.inode)
     /\ Become(p, [s EXCEPT !.pc = "open", !.n = f.n, !.pos = EndOfCommitted(f),
                            !.acc = StatsLoaded(s)])
     /\ UNCHANGED <<name, holder, acked>>

\* A slip to catch: -1 stands for "not loaded" and reaches the finalizer.
CountNotLoaded(f) == IF HeaderOK(f) THEN f.n ELSE 0 - 1

\* _n_records once the header was read, or was found bad.
CountLoaded(f) == IF HeaderOK(f) THEN f.n ELSE 0

\* The load raises out of __init__, of a bad file or of a good one: at its header
\* or its records, or with the statistics loaded and the rest cut off or not.
\* The lock stays held until the half-built object is collected.
LoadFails(p) ==
  LET s == sess[p]
      t == [s EXCEPT !.pc = "broken", !.n = CountLoaded(file[s.inode])]
  IN /\ s.pc = "locked"
     /\ \/ Become(p, t) /\ UNCHANGED file
        \/ /\ LoadOK(p)
           /\ Len(file[s.inode].body) < MaxChunks
           /\ Become(p, [t EXCEPT !.acc = StatsLoaded(s)])
           /\ file' \in {file, CutBack(s.inode)}
     /\ UNCHANGED <<name, holder, acked>>

\* __init__ is cut short, by an interrupt or a read that fails, before it knows
\* the counters: the object has none of the file's records.
OpenInterrupted(p) ==
  /\ sess[p].pc \in InterruptedAt
  /\ Become(p, [sess[p] EXCEPT !.pc = "broken"])
  /\ UNCHANGED <<name, file, holder, acked>>

\* __del__ of a half-built object runs close() like any other.
Closable(s) == s.pc \in {"open", "broken"}

\* The file a write goes to: whatever is due of the header goes out before it.
HeaderDue(s) == ~s.hasHeader \/ s.buf = "header"
Target(s) == IF HeaderDue(s) THEN WithHeader(file[s.inode]) ELSE file[s.inode]

MayWrite(s) == /\ s.pc = "open"
               /\ s.failed => RetryAfterFailure
               /\ Len(acked[s.inode]) + Len(s.wrote) < MaxRecords
               /\ s.pos < MaxChunks

\* A chunk at the session's position.
WithChunk(s, c) == [Target(s) EXCEPT !.body = WriteAt(@, s.pos, c)]

\* A slip to catch: each write() brings the counters up to date.
WithRecordCounted(s, v) == [WithChunk(s, Rec(s.n, v)) EXCEPT !.n = s.n + 1]

\* _emit_record
WithRecord(s, v) == WithChunk(s, Rec(s.n, v))

Write(p) ==
  LET s == sess[p] IN
  /\ MayWrite(s)
  /\ \E v \in Vals :
       /\ file' = [file EXCEPT ![s.inode] = WithRecord(s, v)]
       /\ Become(p, [s EXCEPT !.hasHeader = TRUE, !.buf = "none",
                              !.n = @ + 1, !.pos = @ + 1,
                              !.acc = IF s.stats THEN Append(@, v) ELSE @,
                              !.wrote = Append(@, v)])
  /\ UNCHANGED <<name, holder, acked>>

\* write() raises with nothing in the file, of a first record not even the
\* header; with the header alone; or with a part of the record.
WriteFails(p) ==
  LET s == sess[p]
      t == [s EXCEPT !.hasHeader = TRUE, !.failed = TRUE]
  IN /\ MayWrite(s)
     /\ \/ /\ Become(p, [t EXCEPT !.buf = IF HeaderDue(s) THEN "header" ELSE "none"])
           /\ UNCHANGED file
        \/ /\ Become(p, [t EXCEPT !.buf = "none"])
           /\ file' = [file EXCEPT ![s.inode] = Target(s)]
        \/ /\ Become(p, [t EXCEPT !.buf = "none", !.pos = @ + 1])
           /\ file' = [file EXCEPT ![s.inode] = WithChunk(s, Junk)]
     /\ UNCHANGED <<name, holder, acked>>

\* close() of a session that never wrote a header commits nothing.
CloseEmpty(p) ==
  /\ Closable(sess[p])
  /\ ~sess[p].hasHeader
  /\ Become(p, [sess[p] EXCEPT !.pc = "closing"])
  /\ UNCHANGED <<name, file, holder, acked>>

FooterDue(s) == s.n # 0 /\ s.acc # <<>>
EndOf(s) == Len(file[s.inode].body)

\* close(), first half: the footer goes to the end of the file.
WriteFooter(p) ==
  LET s == sess[p] IN
  /\ Closable(s)
  /\ s.hasHeader
  /\ file' = IF FooterDue(s) THEN [file EXCEPT ![s.inode].body = Append(@, Foot(s.acc))]
                             ELSE file
  /\ Become(p, [s EXCEPT !.pc = "footed", !.foot = IF FooterDue(s) THEN EndOf(s) + 1 ELSE 0])
  /\ UNCHANGED <<name, holder, acked>>

\* A slip to catch: the counters leave out the session's last record.
WithCountersShort(s) ==
  [Target(s) EXCEPT !.ok = TRUE, !.n = IF s.wrote = <<>> THEN s.n ELSE s.n - 1,
                    !.stats = s.foot]

\* _commit_counters
WithCounters(s) == [Target(s) EXCEPT !.ok = TRUE, !.n = s.n, !.stats = s.foot]

\* close(), second half: the counters are rewritten in place and synced.  The
\* session is committed here even if the fsync then raises and close() with it.
CommitCounters(p) ==
  LET s == sess[p] IN
  /\ s.pc = "footed"
  /\ file' = [file EXCEPT ![s.inode] = WithCounters(s)]
  /\ acked' = [acked EXCEPT ![s.inode] = @ \o s.wrote]
  /\ Become(p, [s EXCEPT !.pc = "closing", !.buf = "none", !.wrote = <<>>])
  /\ UNCHANGED <<name, holder>>

\* close() raised: what its last flush left is kept in the buffer.  The records
\* are lost unless that is the counters.
Raised(s, kept) == [s EXCEPT !.pc = "closing", !.buf = kept,
                             !.wrote = IF kept = "counters" THEN @ ELSE <<>>]

\* It raises before the footer, or at it, with none or a part of it in the file.
FooterFails(p) ==
  LET s == sess[p] IN
  /\ Closable(s)
  /\ s.hasHeader
  /\ \/ Become(p, Raised(s, s.buf)) /\ UNCHANGED file
     \/ /\ FooterDue(s)
        /\ \E kept \in {"none", "footer"} :
             Become(p, [Raised(s, kept) EXCEPT !.foot = EndOf(s) + 1])
        /\ file' \in {file, [file EXCEPT ![s.inode].body = Append(@, Junk)]}
  /\ UNCHANGED <<name, holder, acked>>

\* It raises before the counters are in the file: at a header still due, or
\* behind it.
CountersFail(p) ==
  LET s == sess[p] IN
  /\ s.pc = "footed"
  /\ \/ Become(p, Raised(s, s.buf)) /\ UNCHANGED file
     \/ /\ \E kept \in {"none", "counters"} : Become(p, Raised(s, kept))
        /\ file' = [file EXCEPT ![s.inode] = Target(s)]
  /\ UNCHANGED <<name, holder, acked>>

\* A slip to catch: an early return past the unlock.
StillHeld(p) == holder

Released(p) == [i \in Inodes |-> IF holder[i] = p THEN None ELSE holder[i]]

\* What matters of a session from here on: with nothing to flush, only whether
\* its file is to be removed.
Leftover(s) ==
  IF s.buf # "none" THEN s
  ELSE [NewSession(s.pc, s.mode, s.inode, FALSE) EXCEPT !.hasHeader = s.hasHeader]

\* close()'s finally gives the lock up first ...
Unlock(p) ==
  /\ sess[p].pc = "closing"
  /\ holder' = Released(p)
  /\ Become(p, [Leftover(sess[p]) EXCEPT !.pc = "unlocked"])
  /\ UNCHANGED <<name, file, acked>>

\* What the buffer still holds, put where it belongs.
Flushed(s) ==
  LET f == file[s.inode] IN
  CASE s.buf = "none"     -> f
    [] s.buf = "header"   -> WithHeader(f)
    [] s.buf = "footer"   -> [f EXCEPT !.body = WriteAt(@, s.foot - 1, Foot(s.acc))]
    [] s.buf = "counters" -> WithCounters(s)

\* A slip to catch: a new file is taken for an unused one.
IsNewFile(s) == s.mode # "update"

IsUnusedNewFile(s) == ~s.hasHeader /\ s.mode # "update"

\* ... and then closes the file object, which flushes what it holds once more,
\* or drops it.  Late counters still commit the session.
CloseFile(p) ==
  LET s == sess[p] IN
  /\ s.pc = "unlocked"
  /\ \/ /\ file' = [file EXCEPT ![s.inode] = Flushed(s)]
        /\ acked' = [acked EXCEPT ![s.inode] = @ \o s.wrote]
     \/ s.buf # "none" /\ UNCHANGED <<file, acked>>
  /\ Become(p, IF IsUnusedNewFile(s) THEN [s EXCEPT !.pc = "closed"] ELSE Idle)
  /\ UNCHANGED <<name, holder>>

\* Remove the zero-byte file, by its path.
Unlink(p) ==
  /\ sess[p].pc = "closed"
  /\ name' = None
  /\ Become(p, Idle)
  /\ UNCHANGED <<file, holder, acked>>

\* The process dies; the kernel closes its descriptors.
Crash(p) ==
  /\ sess[p].pc # "idle"
  /\ holder' = Released(p)
  /\ Become(p, Idle)
  /\ UNCHANGED <<name, file, acked>>

\* The process dies with the counters half written.
CrashTearing(p) ==
  /\ TornCounters
  /\ sess[p].pc = "footed" \/ (sess[p].pc = "unlocked" /\ sess[p].buf = "counters")
  /\ file' = [file EXCEPT ![sess[p].inode].ok = FALSE]
  /\ holder' = Released(p)
  /\ Become(p, Idle)
  /\ UNCHANGED <<name, acked>>

Opening(p) == \/ CheckAbsent(p) \/ OpenCreate(p) \/ OpenRecreate(p) \/ OpenUpdate(p)
              \/ Lock(p) \/ Contended(p) \/ Load(p) \/ LoadFails(p) \/ OpenInterrupted(p)
Writing(p) == Write(p) \/ WriteFails(p)
Closing(p) == \/ CloseEmpty(p) \/ WriteFooter(p) \/ FooterFails(p)
              \/ CommitCounters(p) \/ CountersFail(p)
              \/ Unlock(p) \/ CloseFile(p) \/ Unlink(p)
Dying(p)   == Crash(p) \/ CrashTearing(p)

Step(p) == Opening(p) \/ Writing(p) \/ Closing(p) \/ Dying(p)

Next == \E p \in Procs : Step(p)

Spec == Init /\ [][Next]_vars

\* A live process gets on with the load and with close(), and its with block
\* ends; nothing makes anyone open, write or crash.
Fairness == \A p \in Procs : WF_vars(Load(p) \/ LoadFails(p)) /\ WF_vars(Closing(p))

FairSpec == Spec /\ Fairness

------------------------------------------------------------------------------
(* Properties *)

TypeOK == /\ name \in Inodes \cup {None}
          /\ file \in [Inodes -> Contents]
          /\ holder \in [Inodes -> Procs \cup {None}]
          /\ sess \in [Procs -> Session]
          /\ acked \in [Inodes -> Seq(Vals)]

\* Whatever sessions crashed or failed before, a reader sees exactly the
\* records of the sessions that committed: writer.py's docstring, "readers always see
\* exactly the records committed by the last successful close".
ReadersSeeAcked == \A i \in Inodes : Readable(file[i]) => Visible(file[i]) = acked[i]

\* A file that has a header can be opened: its counters check out and the walk
\* of read_record_index finds every record they count.
CommittedReadable == \A i \in Inodes : file[i].hdr => Readable(file[i])

\* A footer a reader accepts speaks about the records that are there, so that
\* skipping by min/max is sound: an entry for each, right or not prunable.
\* (A reader checks Readable and HasFooter.  The footer may hold more entries
\* than there are records, on which the reader stumbles: see the README.)
FooterMatchesRecords ==
  \A i \in Inodes : LET f == file[i] IN
    Readable(f) /\ HasFooter(f) =>
      /\ Len(f.body[f.stats].stats) >= f.n
      /\ \A k \in 1..f.n : f.body[f.stats].stats[k] \in {f.body[k].val, NoStat}


\* While a process holds the lock, only its own steps change the file: "a
\* second writer on the same file fails fast ... instead of corrupting it".
OnlyHolderWrites ==
  [][\A i \in Inodes, p \in Procs :
       holder[i] = p /\ file'[i] # file[i] => sess'[p] # sess[p]]_vars

\* close() unlinks only a file in which nothing was ever committed.
UnlinkSparesCommits == [][name' = None /\ name # None => acked[name] = <<>>]_vars

\* Even if a crash tears the counters, a reader never sees a record that no
\* session committed, nor two records out of order (format.py, write_counters:
\* "the embedded CRC catches a torn write").
VisibleWasCommitted ==
  \A i \in Inodes : Readable(file[i]) =>
    LET seen == Visible(file[i]) IN
    \E at \in [1..Len(seen) -> 1..Len(acked[i])] :
      /\ \A k \in 1..Len(seen) : acked[i][at[k]] = seen[k]
      /\ \A j, k \in 1..Len(seen) : j < k => at[j] < at[k]

\* Sessions extend the store whole or not at all, one at a time.
Log == INSTANCE CommitLog
         WITH log  <- IF name # None /\ Readable(file[name])
                      THEN Visible(file[name]) ELSE NoStore,
              pend <- [p \in Procs |-> sess[p].wrote]
ImplementsCommitLog == Log!Spec

\* No failure path leaves the lock behind for as long as the process lives.
LocksAreReleased ==
  \A i \in Inodes, p \in Procs : (holder[i] = p) ~> (holder[i] # p)
==============================================================================
