--------------------------- MODULE StoreWriterInv ----------------------------
(***************************************************************************)
(* The inductive invariant behind StoreWriter's safety properties, for     *)
(* callers that keep the discipline the code relies on.                    *)
(***************************************************************************)
EXTENDS StoreWriter

\* What a caller and its system must provide: flock works, a truncating mode is
\* only used when nobody else writes, a session is given up once write() raised,
\* nobody takes the lock between another's unlock and its late flush, and no
\* __init__ is cut short between the open and the lock.
Disciplined == /\ FlockSupported
               /\ Exclusive
               /\ ~RetryAfterFailure
               /\ ~LockMidClose
               /\ "opened" \notin InterruptedAt

\* Nothing makes a session start again from no records.
NeverReset == ~TornCounters /\ InterruptedAt = {}

Holding == {"locked", "broken", "open", "footed", "closing"}

\* A session that may change its file: it holds the lock, or flushes late.
Works(s) == s.pc \in Holding \/ FlushesLate(s)

Truncating(p) == sess[p].pc # "idle" /\ sess[p].mode # "update"

\* A session with a file open has one.
Seated == \A p \in Procs : sess[p].pc \notin {"idle", "checked"} => sess[p].inode \in Inodes

\* The lock on an inode belongs to the session that is past Lock with it.
LockInv == \A p \in Procs, i \in Inodes :
             holder[i] = p <=> sess[p].pc \in Holding /\ sess[p].inode = i

\* At most one session works on an inode.
OneWorks == \A p, q \in Procs :
              p # q /\ Works(sess[p]) /\ Works(sess[q]) => sess[p].inode # sess[q].inode

\* One truncating session at a time; before it opens, nobody else is there.
OneTruncating ==
  \A p, q \in Procs : p # q =>
    /\ ~(Truncating(p) /\ Truncating(q))
    /\ sess[p].pc = "checked" => sess[q].pc = "idle"

\* The first n chunks are the last n of the records old.
HoldsLast(f, n, old) ==
  /\ n <= Len(old)
  /\ n <= Len(f.body)
  /\ \A k \in 1..n : f.body[k] = Rec(k - 1, old[Len(old) - n + k])

\* A file is either formatted, and then counts what was committed last, or
\* empty.  Where no session starts again from none, it counts all that was
\* committed.
SoundWith(f, old) ==
  IF f.hdr
  THEN /\ HoldsLast(f, f.n, old)
       /\ ~TornCounters => f.ok
       /\ NeverReset => f.n = Len(old)
  ELSE f.n = 0 /\ f.body = <<>> /\ old = <<>>

Sound(i) == SoundWith(file[i], acked[i])

\* The file a session works on.
InPlace(p) ==
  LET s == sess[p] IN
  /\ s.pc = "checked" => name = None /\ s.mode # "update"
  /\ Truncating(p) /\ s.pc # "checked" => s.inode = name
  /\ s.mode = "update" => s.hasHeader /\ s.buf # "header"
  /\ s.mode = "update" /\ s.pc # "idle" /\ s.inode # name =>
       name = None /\ ~file[s.inode].hdr

\* The records a session found when it loaded the file.
Found(s) == s.n - Len(s.wrote)

\* It found none, or all that are counted; its own follow them.
Appended(s, f) ==
  /\ Len(s.wrote) <= s.n
  /\ s.n <= Len(f.body)
  /\ Found(s) = f.n \/ (Found(s) = 0 /\ ~NeverReset)
  /\ \A k \in 1..Len(s.wrote) : f.body[Found(s) + k] = Rec(Found(s) + k - 1, s.wrote[k])

\* The sessions that may still bring counters or a header into the file.
Unfinished(s) == \/ s.pc \in {"broken", "open", "footed"}
                 \/ s.pc \in {"closing", "unlocked"} /\ s.buf \in {"header", "counters"}

\* Where a session stands in that file, with what it has written.
OnCourse(p) ==
  LET s == sess[p]
      f == file[s.inode] IN
  /\ s.pc \in {"opened", "locked"} =>
       s.n = 0 /\ s.pos = 0 /\ s.wrote = <<>> /\ ~s.failed /\ s.buf = "none"
  /\ s.pc = "opened" /\ s.mode # "update" => ~s.hasHeader /\ ~f.hdr
  /\ s.pc \in {"locked", "broken"} => s.mode = "update" /\ s.wrote = <<>>
  /\ s.pc = "open" => /\ f.hdr <=> ~HeaderDue(s)
                      /\ ~s.failed => s.pos = s.n
                      /\ Found(s) = f.n
  /\ s.pc \in {"open", "closing", "unlocked", "closed"} /\ ~s.hasHeader => ~f.hdr
  /\ s.pc = "footed" => s.hasHeader
  /\ s.pc = "closed" => ~s.hasHeader /\ s.mode # "update"
  /\ s.wrote # <<>> => Unfinished(s)
  /\ s.pc \in {"closing", "unlocked"} => (s.wrote # <<>> => s.buf = "counters")
  /\ s.pc \in {"broken", "open", "footed"} => s.buf \in {"none", "header"}
  /\ s.buf # "none" => s.hasHeader /\ Works(s)
  /\ Unfinished(s) => IF f.hdr THEN ~HeaderDue(s) /\ Appended(s, f)
                               ELSE s.n = 0 /\ s.wrote = <<>>
  /\ s.buf = "footer" => f.hdr /\ f.n <= s.n /\ s.n <= Len(f.body) /\ s.n < s.foot

FileInv     == \A i \in Inodes : Sound(i)
PlaceInv    == \A p \in Procs : InPlace(p)
ProgressInv == \A p \in Procs : OnCourse(p)

IInv == /\ TypeOK /\ Seated /\ LockInv /\ OneWorks /\ OneTruncating
        /\ FileInv /\ PlaceInv /\ ProgressInv

------------------------------------------------------------------------------
(* What makes a footer right *)

\* An entry for a record: its value, or that it is not prunable.
EntryFor(e, c) == e \in {c.val, NoStat}

\* The last chunk, if it is a footer, speaks of the first n chunks.
FooterCovers(b, n) ==
  b # <<>> /\ b[Len(b)].kind = "foot" =>
    /\ n <= Len(b[Len(b)].stats)
    /\ \A k \in 1..n : EntryFor(b[Len(b)].stats[k], b[k])

\* What a session with statistics has gathered speaks of the records it counts.
Gathered(s, b) ==
  IF s.stats THEN Len(s.acc) = s.n /\ \A k \in 1..s.n : EntryFor(s.acc[k], b[k])
  ELSE s.acc = <<>>

\* A session that writes has left no footer behind it, and its last good record
\* ends the file; one that may still commit has the footer it wrote speak of all
\* its records, as does a footer that is still to come.
FooterOnCourse(p) ==
  LET s == sess[p]
      b == file[s.inode].body IN
  /\ s.pc \in {"opened", "locked"} => s.acc = <<>>
  /\ s.pc = "open" => /\ b # <<>> => b[Len(b)].kind # "foot"
                      /\ ~s.failed => Len(b) = s.n
                      /\ Gathered(s, b)
  /\ s.pc = "broken" /\ s.acc # <<>> => Gathered(s, b)
  /\ (s.pc = "footed" /\ ~HeaderDue(s)) \/ s.buf = "counters" => FooterCovers(b, s.n)
  /\ s.buf = "footer" => Gathered(s, b) /\ s.stats /\ Len(b) <= s.foot

FooterInv == /\ \A i \in Inodes : file[i].hdr => FooterCovers(file[i].body, file[i].n)
             /\ \A p \in Procs : FooterOnCourse(p)
==============================================================================
